-------------------------- MODULE ChatServerProofs --------------------------
(***************************************************************************)
(* Proofs about ChatServer, for any finite set of threads and any          *)
(* descriptors, rooms and names.  In order: what the operations of         *)
(* ChatRegistry do to the lists; the server follows the lock protocol of   *)
(* ChatLock, so that what is proved there holds here; what each operation  *)
(* of the server does; the parts of ServerInv, action by action; then the  *)
(* properties that rest on it: every registered thread has one record, the *)
(* two lists agree and messages reach whom they should as long as nobody   *)
(* changes names, and a command changes its own client's record only.      *)
(***************************************************************************)
EXTENDS ChatServer, FiniteSetTheorems, SequenceTheorems, TLAPS

-----------------------------------------------------------------------------
(* The registry. *)
LEMMA LeastNatural ==
  ASSUME NEW S \in SUBSET Nat, S # {}
  PROVE  \E n \in S : \A m \in S : n <= m
<1>1. PICK n \in S : \A m \in S : <<m, n>> \notin OpToRel(<, Nat)
  BY NatLessThanWellFounded, WFMin
<1>2. \A m \in S : ~(m < n)
  BY <1>1 DEF OpToRel
<1> QED
  BY <1>2

(* A database: its users in a sequence, its rooms in a function. *)
LEMMA DbFields ==
  ASSUME NEW d \in Db
  PROVE  /\ d = [users |-> d.users, rooms |-> d.rooms]
         /\ d.users \in Seq(UserRecord)
         /\ DOMAIN d.users = 1..Len(d.users) /\ Len(d.users) \in Nat
         /\ \A i \in 1..Len(d.users) : d.users[i] \in UserRecord
         /\ DOMAIN d.rooms \subseteq RoomNames
         /\ d.rooms \in [DOMAIN d.rooms -> SUBSET Names]
BY DEF Db

LEMMA IsDb ==
  ASSUME NEW us \in Seq(UserRecord), NEW R \in SUBSET RoomNames, NEW rs \in [R -> SUBSET Names]
  PROVE  [users |-> us, rooms |-> rs] \in Db
BY DEF Db

LEMMA FirstOfSocket ==
  ASSUME NEW d \in Db, NEW c
  PROVE  \/ /\ FindUserBySocket(d, c) = 0
            /\ \A j \in 1..Len(d.users) : d.users[j].sock # c
         \/ /\ FindUserBySocket(d, c) \in 1..Len(d.users)
            /\ d.users[FindUserBySocket(d, c)].sock = c
<1> DEFINE hits == {i \in DOMAIN d.users : d.users[i].sock = c}
<1>1. FindUserBySocket(d, c) = IF hits = {} THEN 0 ELSE CHOOSE i \in hits : \A j \in hits : i <= j
  BY DEF FindUserBySocket, FirstWhere
<1>2. hits \in SUBSET Nat /\ DOMAIN d.users = 1..Len(d.users)
  BY DbFields
<1>3. CASE hits = {}
  BY <1>1, <1>2, <1>3
<1>4. CASE hits # {}
  <2>1. \E i \in hits : \A j \in hits : i <= j
    BY <1>2, <1>4, LeastNatural
  <2>2. FindUserBySocket(d, c) \in hits
    BY <1>1, <1>4, <2>1
  <2> QED
    BY <1>2, <2>2
<1> QED
  BY <1>3, <1>4

LEMMA FirstOfName ==
  ASSUME NEW d \in Db, NEW n
  PROVE  \/ /\ FindUserByName(d, n) = 0
            /\ \A j \in 1..Len(d.users) : d.users[j].name # n
         \/ /\ FindUserByName(d, n) \in 1..Len(d.users)
            /\ d.users[FindUserByName(d, n)].name = n
<1> DEFINE hits == {i \in DOMAIN d.users : d.users[i].name = n}
<1>1. FindUserByName(d, n) = IF hits = {} THEN 0 ELSE CHOOSE i \in hits : \A j \in hits : i <= j
  BY DEF FindUserByName, FirstWhere
<1>2. hits \in SUBSET Nat /\ DOMAIN d.users = 1..Len(d.users)
  BY DbFields
<1>3. CASE hits = {}
  BY <1>1, <1>2, <1>3
<1>4. CASE hits # {}
  <2>1. \E i \in hits : \A j \in hits : i <= j
    BY <1>2, <1>4, LeastNatural
  <2>2. FindUserByName(d, n) \in hits
    BY <1>1, <1>4, <2>1
  <2> QED
    BY <1>2, <2>2
<1> QED
  BY <1>3, <1>4

(* What an operation that changes one record, the i-th, leaves alone. *)
RecordChanges(d, e, i) ==
  /\ e \in Db /\ Len(e.users) = Len(d.users)
  /\ \A j \in 1..Len(d.users) : /\ e.users[j].sock = d.users[j].sock
                                /\ j # i => e.users[j] = d.users[j]
NamesKept(d, e) == \A j \in 1..Len(d.users) : e.users[j].name = d.users[j].name
OneRecordChanges(d, e, i) == RecordChanges(d, e, i) /\ NamesKept(d, e)

LEMMA NothingChanges == ASSUME NEW d \in Db, NEW i PROVE OneRecordChanges(d, d, i)
BY DEF OneRecordChanges, RecordChanges, NamesKept

(* The fields of a record after one of them changes. *)
LEMMA RoomOfRecordAdded ==
  ASSUME NEW v \in UserRecord, NEW r \in RoomNames, NEW u, u = AddRoomToUserList(v, r)
  PROVE  /\ u \in UserRecord /\ u.sock = v.sock /\ u.name = v.name /\ u.dms = v.dms
         /\ \A q \in RoomNames : u.rooms[q] = IF q = r THEN v.rooms[q] + 1 ELSE v.rooms[q]
BY DEF UserRecord, AddRoomToUserList

LEMMA RoomOfRecordRemoved ==
  ASSUME NEW v \in UserRecord, NEW r \in RoomNames, NEW u, u = RemoveRoomFromUserList(v, r)
  PROVE  /\ u \in UserRecord /\ u.sock = v.sock /\ u.name = v.name /\ u.dms = v.dms
         /\ \A q \in RoomNames : u.rooms[q] = IF q = r /\ v.rooms[q] # 0 THEN v.rooms[q] - 1 ELSE v.rooms[q]
BY DEF UserRecord, RemoveRoomFromUserList

WithDms(v, s) == [v EXCEPT !.dms = s]
LEMMA DmsOfRecord ==
  ASSUME NEW v \in UserRecord, NEW s \in SUBSET Names
  PROVE  /\ WithDms(v, s) \in UserRecord
         /\ WithDms(v, s).sock = v.sock /\ WithDms(v, s).name = v.name /\ WithDms(v, s).rooms = v.rooms
BY DEF UserRecord, WithDms

WithName(v, n) == [v EXCEPT !.name = n]
LEMMA NameOfRecord ==
  ASSUME NEW v \in UserRecord, NEW n \in Names
  PROVE  WithName(v, n) \in UserRecord /\ WithName(v, n).sock = v.sock
BY DEF UserRecord, WithName


(* A list of users after one record is replaced. *)
Put(s, i, u) == [s EXCEPT ![i] = u]

IsReplaced(s, new, i, u) == /\ new \in Seq(UserRecord) /\ Len(new) = Len(s) /\ new[i] = u
                            /\ \A j \in 1..Len(s) : j # i => new[j] = s[j]

LEMMA RecordReplaced ==
  ASSUME NEW s \in Seq(UserRecord), NEW i \in 1..Len(s), NEW u \in UserRecord
  PROVE  IsReplaced(s, Put(s, i, u), i, u)
BY ExceptSeq DEF Put, IsReplaced

(* The database with one record and the rooms replaced. *)
RoomLists(d) == [DOMAIN d.rooms -> SUBSET Names]
With(d, i, u, rs) == [users |-> Put(d.users, i, u), rooms |-> rs]

Replaces(d, e, i, u, rs) == /\ e \in Db /\ e.rooms = rs
                            /\ Len(e.users) = Len(d.users) /\ e.users[i] = u
                            /\ \A j \in 1..Len(d.users) : j # i => e.users[j] = d.users[j]

LEMMA DbChanges ==
  ASSUME NEW d \in Db, NEW i \in 1..Len(d.users), NEW u \in UserRecord, NEW rs \in RoomLists(d)
  PROVE  Replaces(d, With(d, i, u, rs), i, u, rs)
<1>1. d.users \in Seq(UserRecord) /\ DOMAIN d.rooms \in SUBSET RoomNames
  BY DbFields
<1>0. IsReplaced(d.users, Put(d.users, i, u), i, u)
  BY <1>1, RecordReplaced, Zenon
<1>2. Put(d.users, i, u) \in Seq(UserRecord)
  BY <1>0, Zenon DEF IsReplaced
<1>3. With(d, i, u, rs) \in Db
  BY <1>1, <1>2, IsDb, Zenon DEF With, RoomLists
<1>4. With(d, i, u, rs).users = Put(d.users, i, u) /\ With(d, i, u, rs).rooms = rs
  BY DEF With
<1>5. /\ Len(Put(d.users, i, u)) = Len(d.users) /\ Put(d.users, i, u)[i] = u
      /\ \A j \in 1..Len(d.users) : j # i => Put(d.users, i, u)[j] = d.users[j]
  BY <1>0, Zenon DEF IsReplaced
<1>6. /\ With(d, i, u, rs).rooms = rs /\ With(d, i, u, rs).users[i] = u
      /\ Len(With(d, i, u, rs).users) = Len(d.users)
      /\ \A j \in 1..Len(d.users) : j # i => With(d, i, u, rs).users[j] = d.users[j]
  BY <1>4, <1>5, Zenon
<1> QED
  BY <1>3, <1>6, Zenon DEF Replaces

LEMMA EmptyIsDb == EmptyDb \in Db
<1>1. <<>> \in Seq(UserRecord)
  OBVIOUS
<1>2. {} \in SUBSET RoomNames /\ [r \in {} |-> {}] \in [{} -> SUBSET Names]
  OBVIOUS
<1> QED
  BY <1>1, <1>2, IsDb, Zenon DEF EmptyDb

LEMMA AddRoomIsDb ==
  ASSUME NEW d \in Db, NEW r \in RoomNames
  PROVE  /\ AddRoom(d, r) \in Db /\ AddRoom(d, r).users = d.users
         /\ DOMAIN AddRoom(d, r).rooms = DOMAIN d.rooms \cup {r}
         /\ \A q \in RoomNames : q \in DOMAIN AddRoom(d, r).rooms =>
               AddRoom(d, r).rooms[q] = IF q \in DOMAIN d.rooms THEN d.rooms[q] ELSE {}
<1>1. CASE r \in DOMAIN d.rooms
  BY <1>1 DEF AddRoom, RoomExists
<1>2. CASE r \notin DOMAIN d.rooms
  <2> DEFINE rs == [q \in DOMAIN d.rooms \cup {r} |-> IF q = r THEN {} ELSE d.rooms[q]]
  <2>1. AddRoom(d, r) = [users |-> d.users, rooms |-> rs]
    <3>1. d = [users |-> d.users, rooms |-> d.rooms]
      BY DbFields
    <3> QED
      BY <1>2, <3>1 DEF AddRoom, RoomExists
  <2>2. d.users \in Seq(UserRecord) /\ DOMAIN d.rooms \cup {r} \in SUBSET RoomNames
    BY DbFields
  <2>3. rs \in [DOMAIN d.rooms \cup {r} -> SUBSET Names]
    BY DbFields
  <2>4. [users |-> d.users, rooms |-> rs] \in Db
    BY <2>2, <2>3, IsDb, Zenon
  <2>5. AddRoom(d, r).users = d.users /\ AddRoom(d, r).rooms = rs
    BY <2>1
  <2>6. AddRoom(d, r) \in Db
    BY <2>1, <2>4, Zenon
  <2>7. DOMAIN rs = DOMAIN d.rooms \cup {r} /\ \A q \in DOMAIN rs : rs[q] = IF q = r THEN {} ELSE d.rooms[q]
    OBVIOUS
  <2> HIDE DEF rs
  <2> QED
    BY <1>2, <2>5, <2>6, <2>7
<1> QED
  BY <1>1, <1>2

LEMMA AddUserToRoomIsWith ==
  ASSUME NEW d \in Db, NEW n \in Names, NEW r \in RoomNames,
         RoomExists(d, r), FindUserByName(d, n) # 0, n \notin d.rooms[r]
  PROVE  AddUserToRoom(d, n, r)
            = With(d, FindUserByName(d, n), AddRoomToUserList(d.users[FindUserByName(d, n)], r),
                   [d.rooms EXCEPT ![r] = @ \cup {n}])
<1>1. d = [users |-> d.users, rooms |-> d.rooms]
  BY DbFields
<1> QED
  BY <1>1 DEF With, Put, AddUserToRoom

LEMMA RemoveUserFromRoomIsWith ==
  ASSUME NEW d \in Db, NEW n \in Names, NEW r \in RoomNames, FindUserByName(d, n) # 0
  PROVE  RemoveUserFromRoom(d, n, r)
            = With(d, FindUserByName(d, n), RemoveRoomFromUserList(d.users[FindUserByName(d, n)], r),
                   [q \in DOMAIN d.rooms |-> IF q = r THEN d.rooms[q] \ {n} ELSE d.rooms[q]])
BY Zenon DEF With, Put, RemoveUserFromRoom

LEMMA AddDirectConnectionIsWith ==
  ASSUME NEW d \in Db, NEW n, NEW m, FindUserByName(d, n) # 0
  PROVE  AddDirectConnection(d, n, m)
           = With(d, FindUserByName(d, n), WithDms(d.users[FindUserByName(d, n)], d.users[FindUserByName(d, n)].dms \cup {m}),
                  d.rooms)
<1>1. d = [users |-> d.users, rooms |-> d.rooms]
  BY DbFields
<1> QED
  BY <1>1 DEF With, Put, WithDms, AddDirectConnection

LEMMA RemoveDirectConnectionIsWith ==
  ASSUME NEW d \in Db, NEW n, NEW m, FindUserByName(d, n) # 0
  PROVE  RemoveDirectConnection(d, n, m)
           = With(d, FindUserByName(d, n), WithDms(d.users[FindUserByName(d, n)], d.users[FindUserByName(d, n)].dms \ {m}),
                  d.rooms)
<1>1. d = [users |-> d.users, rooms |-> d.rooms]
  BY DbFields
<1> QED
  BY <1>1 DEF With, Put, WithDms, RemoveDirectConnection

LEMMA RenameUserIsWith ==
  ASSUME NEW d \in Db, NEW c, NEW n, FindUserByName(d, n) = 0, FindUserBySocket(d, c) # 0
  PROVE  RenameUser(d, c, n)
           = With(d, FindUserBySocket(d, c), WithName(d.users[FindUserBySocket(d, c)], n), d.rooms)
<1>1. d = [users |-> d.users, rooms |-> d.rooms]
  BY DbFields
<1> QED
  BY <1>1 DEF With, Put, WithName, RenameUser

LEMMA WithChanges ==
  ASSUME NEW d \in Db, NEW i \in 1..Len(d.users), NEW u \in UserRecord,
         u.sock = d.users[i].sock, u.name = d.users[i].name,
         NEW rs \in RoomLists(d)
  PROVE  OneRecordChanges(d, With(d, i, u, rs), i)
<1> DEFINE e == With(d, i, u, rs)
<1>1. /\ e \in Db /\ Len(e.users) = Len(d.users) /\ e.users[i] = u
      /\ \A j \in 1..Len(d.users) : j # i => e.users[j] = d.users[j]
  <2>1. Replaces(d, e, i, u, rs)
    BY DbChanges, Zenon
  <2> QED
    BY <2>1, Zenon DEF Replaces
<1> HIDE DEF e
<1>2. ASSUME NEW j \in 1..Len(d.users)
      PROVE  e.users[j].sock = d.users[j].sock /\ e.users[j].name = d.users[j].name
  <2>1. CASE j = i
    BY <1>1, <2>1
  <2>2. CASE j # i
    BY <1>1, <2>2
  <2> QED
    BY <2>1, <2>2
<1>3. OneRecordChanges(d, e, i)
  BY <1>1, <1>2 DEF OneRecordChanges, RecordChanges, NamesKept
<1> QED
  BY <1>3 DEF e

(* addUserToRoom does nothing, or puts the name and the room in both lists. *)
JoinsRoom(d, e, i, n, r) ==
  /\ OneRecordChanges(d, e, i)
  /\ DOMAIN e.rooms = DOMAIN d.rooms
  /\ \A q \in DOMAIN d.rooms : e.rooms[q] = IF q = r THEN d.rooms[q] \cup {n} ELSE d.rooms[q]
  /\ \A q \in RoomNames : e.users[i].rooms[q] = IF q = r THEN d.users[i].rooms[q] + 1 ELSE d.users[i].rooms[q]

LEMMA AddUserToRoomSpec ==
  ASSUME NEW d \in Db, NEW n \in Names, NEW r \in RoomNames,
         RoomExists(d, r), FindUserByName(d, n) # 0, n \notin d.rooms[r]
  PROVE  JoinsRoom(d, AddUserToRoom(d, n, r), FindUserByName(d, n), n, r)
<1> DEFINE i == FindUserByName(d, n)
           v == d.users[i]
           u == AddRoomToUserList(v, r)
           rs == [d.rooms EXCEPT ![r] = @ \cup {n}]
<1>1. i \in 1..Len(d.users) /\ v \in UserRecord
  BY FirstOfName, DbFields
<1>2. /\ u \in UserRecord /\ u.sock = v.sock /\ u.name = v.name
      /\ \A q \in RoomNames : u.rooms[q] = IF q = r THEN v.rooms[q] + 1 ELSE v.rooms[q]
  <2>1. v \in UserRecord
    BY <1>1
  <2> HIDE DEF v
  <2> QED
    BY <2>1, RoomOfRecordAdded
<1>3. rs \in RoomLists(d)
  BY DbFields DEF RoomExists, RoomLists
<1>4. AddUserToRoom(d, n, r) = With(d, i, u, rs)
  BY AddUserToRoomIsWith, Zenon
<1> HIDE DEF i, v, u, rs
<1>5. v = d.users[i]
  BY DEF v
<1>6. OneRecordChanges(d, With(d, i, u, rs), i)
  BY <1>1, <1>2, <1>3, <1>5, WithChanges, Zenon
<1>7. With(d, i, u, rs).rooms = rs /\ With(d, i, u, rs).users[i] = u
  <2>1. Replaces(d, With(d, i, u, rs), i, u, rs)
    BY <1>1, <1>2, <1>3, DbChanges, Zenon
  <2> QED
    BY <2>1, Zenon DEF Replaces
<1>8. /\ OneRecordChanges(d, AddUserToRoom(d, n, r), i)
      /\ AddUserToRoom(d, n, r).rooms = rs
      /\ \A q \in RoomNames : AddUserToRoom(d, n, r).users[i].rooms[q] = IF q = r THEN v.rooms[q] + 1 ELSE v.rooms[q]
  BY <1>2, <1>4, <1>6, <1>7
<1>9. /\ DOMAIN rs = DOMAIN d.rooms
      /\ \A q \in DOMAIN d.rooms : rs[q] = IF q = r THEN d.rooms[q] \cup {n} ELSE d.rooms[q]
  BY DEF rs
<1> QED
  BY <1>5, <1>8, <1>9 DEF i, JoinsRoom

LEMMA AddUserToRoomChanges ==
  ASSUME NEW d \in Db, NEW n \in Names, NEW r \in RoomNames
  PROVE  OneRecordChanges(d, AddUserToRoom(d, n, r), FindUserByName(d, n))
<1>1. CASE RoomExists(d, r) /\ FindUserByName(d, n) # 0 /\ n \notin d.rooms[r]
  BY <1>1, AddUserToRoomSpec, Zenon DEF JoinsRoom
<1>2. CASE ~(RoomExists(d, r) /\ FindUserByName(d, n) # 0 /\ n \notin d.rooms[r])
  <2>1. AddUserToRoom(d, n, r) = d
    BY <1>2, Zenon DEF AddUserToRoom
  <2> QED
    BY <2>1, NothingChanges, Zenon
<1> QED
  BY <1>1, <1>2

(* removeUserFromRoom takes the name out of the room's list, and the room out of the user's. *)
Without(d, n, r) == [q \in DOMAIN d.rooms |-> IF q = r THEN d.rooms[q] \ {n} ELSE d.rooms[q]]

LEMMA RemoveUserFromRoomSpec ==
  ASSUME NEW d \in Db, NEW n \in Names, NEW r \in RoomNames, FindUserByName(d, n) # 0
  PROVE  /\ OneRecordChanges(d, RemoveUserFromRoom(d, n, r), FindUserByName(d, n))
         /\ RemoveUserFromRoom(d, n, r).rooms = Without(d, n, r)
         /\ \A q \in RoomNames :
              RemoveUserFromRoom(d, n, r).users[FindUserByName(d, n)].rooms[q]
                = IF q = r /\ d.users[FindUserByName(d, n)].rooms[q] # 0
                  THEN d.users[FindUserByName(d, n)].rooms[q] - 1
                  ELSE d.users[FindUserByName(d, n)].rooms[q]
<1> DEFINE i == FindUserByName(d, n)
           v == d.users[i]
           u == RemoveRoomFromUserList(v, r)
           rs == Without(d, n, r)
<1>1. i \in 1..Len(d.users) /\ v \in UserRecord
  BY FirstOfName, DbFields
<1>2. /\ u \in UserRecord /\ u.sock = v.sock /\ u.name = v.name
      /\ \A q \in RoomNames : u.rooms[q] = IF q = r /\ v.rooms[q] # 0 THEN v.rooms[q] - 1 ELSE v.rooms[q]
  <2>1. v \in UserRecord
    BY <1>1
  <2> HIDE DEF v
  <2> QED
    BY <2>1, RoomOfRecordRemoved
<1>3. rs \in RoomLists(d)
  BY DbFields DEF RoomLists, Without
<1>4. RemoveUserFromRoom(d, n, r) = With(d, i, u, rs)
  BY RemoveUserFromRoomIsWith, Zenon DEF Without
<1> HIDE DEF i, v, u, rs
<1>5. v = d.users[i]
  BY DEF v
<1>6. OneRecordChanges(d, With(d, i, u, rs), i)
  BY <1>1, <1>2, <1>3, <1>5, WithChanges, Zenon
<1>7. With(d, i, u, rs).rooms = rs /\ With(d, i, u, rs).users[i] = u
  <2>1. Replaces(d, With(d, i, u, rs), i, u, rs)
    BY <1>1, <1>2, <1>3, DbChanges, Zenon
  <2> QED
    BY <2>1, Zenon DEF Replaces
<1>8. /\ OneRecordChanges(d, RemoveUserFromRoom(d, n, r), i)
      /\ RemoveUserFromRoom(d, n, r).rooms = rs
      /\ \A q \in RoomNames : RemoveUserFromRoom(d, n, r).users[i].rooms[q]
                                = IF q = r /\ v.rooms[q] # 0 THEN v.rooms[q] - 1 ELSE v.rooms[q]
  BY <1>2, <1>4, <1>6, <1>7
<1> QED
  BY <1>8 DEF i, v, rs

(* Without a user of that name only the room's list can change. *)
LEMMA RemoveStrangerFromRoom ==
  ASSUME NEW d \in Db, NEW n \in Names, NEW r \in RoomNames, FindUserByName(d, n) = 0
  PROVE  /\ OneRecordChanges(d, RemoveUserFromRoom(d, n, r), FindUserByName(d, n))
         /\ RemoveUserFromRoom(d, n, r).users = d.users
         /\ RemoveUserFromRoom(d, n, r).rooms = Without(d, n, r)
<1> DEFINE e == RemoveUserFromRoom(d, n, r)
<1>1. e = [users |-> d.users, rooms |-> Without(d, n, r)]
  BY DEF RemoveUserFromRoom, Without
<1>2. d.users \in Seq(UserRecord) /\ DOMAIN d.rooms \in SUBSET RoomNames
  BY DbFields
<1>3. Without(d, n, r) \in [DOMAIN d.rooms -> SUBSET Names]
  BY DbFields DEF Without
<1>4. e \in Db
  BY <1>1, <1>2, <1>3, IsDb, Zenon
<1>5. e.users = d.users /\ e.rooms = Without(d, n, r)
  BY <1>1
<1> HIDE DEF e
<1>6. OneRecordChanges(d, e, FindUserByName(d, n))
  BY <1>4, <1>5 DEF OneRecordChanges, RecordChanges, NamesKept
<1> QED
  BY <1>5, <1>6 DEF e

LEMMA RemoveUserFromRoomChanges ==
  ASSUME NEW d \in Db, NEW n \in Names, NEW r \in RoomNames
  PROVE  OneRecordChanges(d, RemoveUserFromRoom(d, n, r), FindUserByName(d, n))
BY RemoveStrangerFromRoom, RemoveUserFromRoomSpec, Zenon

(* The operations on connections change no list of rooms. *)
RoomsKept(d, e) == e.rooms = d.rooms /\ \A j \in 1..Len(d.users) : e.users[j].rooms = d.users[j].rooms

LEMMA DmsChange ==
  ASSUME NEW d \in Db, NEW i \in 1..Len(d.users), NEW s \in SUBSET Names
  PROVE  /\ OneRecordChanges(d, With(d, i, WithDms(d.users[i], s), d.rooms), i)
         /\ RoomsKept(d, With(d, i, WithDms(d.users[i], s), d.rooms))
<1> DEFINE v == d.users[i]
           u == WithDms(v, s)
           e == With(d, i, u, d.rooms)
<1>1. v \in UserRecord
  BY DbFields
<1>2. u \in UserRecord /\ u.sock = v.sock /\ u.name = v.name /\ u.rooms = v.rooms
  <2> HIDE DEF v
  <2> QED
    BY <1>1, DmsOfRecord
<1>3. d.rooms \in RoomLists(d)
  BY DbFields DEF RoomLists
<1> HIDE DEF v, u
<1>4. v = d.users[i]
  BY DEF v
<1>5. OneRecordChanges(d, e, i)
  BY <1>2, <1>3, <1>4, WithChanges, Zenon
<1>6. Replaces(d, e, i, u, d.rooms)
  BY <1>2, <1>3, DbChanges, Zenon
<1> HIDE DEF e
<1>7. ASSUME NEW j \in 1..Len(d.users) PROVE e.users[j].rooms = d.users[j].rooms
  BY <1>2, <1>4, <1>6 DEF Replaces
<1>8. RoomsKept(d, e)
  BY <1>6, <1>7 DEF RoomsKept, Replaces
<1> QED
  BY <1>5, <1>8 DEF e, u, v

LEMMA AddDirectConnectionChanges ==
  ASSUME NEW d \in Db, NEW n \in Names, NEW m \in Names
  PROVE  /\ OneRecordChanges(d, AddDirectConnection(d, n, m), FindUserByName(d, n))
         /\ RoomsKept(d, AddDirectConnection(d, n, m))
<1>1. CASE FindUserByName(d, n) = 0
  <2>1. AddDirectConnection(d, n, m) = d /\ RoomsKept(d, d)
    BY <1>1 DEF AddDirectConnection, RoomsKept
  <2> QED
    BY <2>1, NothingChanges, Zenon
<1>2. CASE FindUserByName(d, n) # 0
  <2>1. FindUserByName(d, n) \in 1..Len(d.users)
    BY <1>2, FirstOfName
  <2>2. d.users[FindUserByName(d, n)].dms \cup {m} \in SUBSET Names
    BY <2>1, DbFields DEF UserRecord
  <2> QED
    BY <1>2, <2>1, <2>2, DmsChange, AddDirectConnectionIsWith, Zenon
<1> QED
  BY <1>1, <1>2

LEMMA RemoveDirectConnectionChanges ==
  ASSUME NEW d \in Db, NEW n \in Names, NEW m \in Names
  PROVE  /\ OneRecordChanges(d, RemoveDirectConnection(d, n, m), FindUserByName(d, n))
         /\ RoomsKept(d, RemoveDirectConnection(d, n, m))
<1>1. CASE FindUserByName(d, n) = 0
  <2>1. RemoveDirectConnection(d, n, m) = d /\ RoomsKept(d, d)
    BY <1>1 DEF RemoveDirectConnection, RoomsKept
  <2> QED
    BY <2>1, NothingChanges, Zenon
<1>2. CASE FindUserByName(d, n) # 0
  <2>1. FindUserByName(d, n) \in 1..Len(d.users)
    BY <1>2, FirstOfName
  <2>2. d.users[FindUserByName(d, n)].dms \ {m} \in SUBSET Names
    BY <2>1, DbFields DEF UserRecord
  <2> QED
    BY <1>2, <2>1, <2>2, DmsChange, RemoveDirectConnectionIsWith, Zenon
<1> QED
  BY <1>1, <1>2

(* A login changes the name in the record of its socket. *)
LEMMA RenameUserChanges ==
  ASSUME NEW d \in Db, NEW c, NEW n \in Names
  PROVE  RecordChanges(d, RenameUser(d, c, n), FindUserBySocket(d, c))
<1>1. CASE FindUserByName(d, n) # 0 \/ FindUserBySocket(d, c) = 0
  <2>1. RenameUser(d, c, n) = d
    BY <1>1 DEF RenameUser
  <2> QED
    BY <2>1, NothingChanges, Zenon DEF OneRecordChanges
<1>2. CASE FindUserByName(d, n) = 0 /\ FindUserBySocket(d, c) # 0
  <2> DEFINE i == FindUserBySocket(d, c)
             u == WithName(d.users[i], n)
             e == With(d, i, u, d.rooms)
  <2>1. i \in 1..Len(d.users) /\ d.users[i] \in UserRecord
    BY <1>2, FirstOfSocket, DbFields
  <2>2. u \in UserRecord /\ u.sock = d.users[i].sock
    BY <2>1, NameOfRecord, Zenon
  <2>3. d.rooms \in RoomLists(d)
    BY DbFields DEF RoomLists
  <2>4. RenameUser(d, c, n) = e
    BY <1>2, RenameUserIsWith, Zenon
  <2> HIDE DEF i, u
  <2>5. Replaces(d, e, i, u, d.rooms)
    BY <2>1, <2>2, <2>3, DbChanges, Zenon
  <2> HIDE DEF e
  <2>6. RecordChanges(d, e, i)
    BY <2>2, <2>5 DEF RecordChanges, Replaces
  <2> QED
    BY <2>4, <2>6 DEF i
<1> QED
  BY <1>1, <1>2

(* A new record stands in front of the others. *)
NewRecord(c, n) == [sock |-> c, name |-> n, rooms |-> NoRooms, dms |-> {}]
Prepended(d, e, u) ==
  /\ e \in Db /\ e.rooms = d.rooms
  /\ Len(e.users) = Len(d.users) + 1 /\ e.users[1] = u
  /\ \A j \in 1..Len(d.users) : e.users[j + 1] = d.users[j]

LEMMA PrependFacts ==
  ASSUME NEW s \in Seq(UserRecord), NEW u \in UserRecord
  PROVE  /\ <<u>> \o s \in Seq(UserRecord) /\ Len(<<u>> \o s) = Len(s) + 1 /\ (<<u>> \o s)[1] = u
         /\ \A j \in 1..Len(s) : (<<u>> \o s)[j + 1] = s[j]
OBVIOUS

LEMMA AddUserIs ==
  ASSUME NEW d \in Db, NEW c, NEW n
  PROVE  AddUser(d, c, n) = [users |-> <<NewRecord(c, n)>> \o d.users, rooms |-> d.rooms]
<1>1. d = [users |-> d.users, rooms |-> d.rooms]
  BY DbFields
<1>2. AddUser(d, c, n) = [d EXCEPT !.users = <<NewRecord(c, n)>> \o d.users]
  BY Zenon DEF AddUser, NewRecord
<1> QED
  BY <1>1, <1>2

LEMMA AddUserSpec ==
  ASSUME NEW d \in Db, NEW c \in Fd, NEW n \in Names
  PROVE  /\ NewRecord(c, n) \in UserRecord
         /\ Prepended(d, AddUser(d, c, n), NewRecord(c, n))
<1> DEFINE u == NewRecord(c, n)
           us == <<u>> \o d.users
<1>1. u \in UserRecord
  BY DEF NewRecord, UserRecord, NoRooms
<1>2. AddUser(d, c, n) = [users |-> us, rooms |-> d.rooms]
  BY AddUserIs
<1> HIDE DEF u
<1>3. d.users \in Seq(UserRecord) /\ DOMAIN d.rooms \in SUBSET RoomNames
      /\ d.rooms \in [DOMAIN d.rooms -> SUBSET Names]
  BY DbFields
<1>4. /\ us \in Seq(UserRecord) /\ Len(us) = Len(d.users) + 1 /\ us[1] = u
      /\ \A j \in 1..Len(d.users) : us[j + 1] = d.users[j]
  BY <1>1, <1>3, PrependFacts, Zenon
<1> HIDE DEF us
<1>6. AddUser(d, c, n) \in Db
  BY <1>2, <1>3, <1>4, IsDb, Zenon
<1>7. AddUser(d, c, n).users = us /\ AddUser(d, c, n).rooms = d.rooms
  BY <1>2
<1>8. Prepended(d, AddUser(d, c, n), u)
  BY <1>4, <1>6, <1>7, Zenon DEF Prepended
<1> QED
  BY <1>1, <1>8 DEF u

(* removeUser: the record of the socket goes, the others move up. *)
Removed(d, e, i) ==
  /\ e \in Db /\ Len(e.users) = Len(d.users) - 1
  /\ \A j \in 1..(Len(d.users) - 1) : e.users[j] = d.users[IF j < i THEN j ELSE j + 1]

LEMMA RemoveAtFacts ==
  ASSUME NEW S, NEW s \in Seq(S), NEW i \in 1..Len(s)
  PROVE  /\ RemoveAt(s, i) \in Seq(S) /\ Len(RemoveAt(s, i)) = Len(s) - 1
         /\ \A j \in 1..(Len(s) - 1) : RemoveAt(s, i)[j] = s[IF j < i THEN j ELSE j + 1]
<1> DEFINE a == SubSeq(s, 1, i - 1)
           b == SubSeq(s, i + 1, Len(s))
<1>0. Len(s) \in Nat /\ \A j \in 1..Len(s) : s[j] \in S
  OBVIOUS
<1>1. a \in Seq(S) /\ Len(a) = i - 1 /\ \A j \in 1..(i - 1) : a[j] = s[j]
  BY <1>0, SubSeqProperties
<1>2. b \in Seq(S) /\ Len(b) = Len(s) - i /\ \A j \in 1..(Len(s) - i) : b[j] = s[i + j]
  BY <1>0, SubSeqProperties
<1>3. RemoveAt(s, i) = a \o b
  BY DEF RemoveAt
<1> HIDE DEF a, b
<1>4. /\ a \o b \in Seq(S) /\ Len(a \o b) = Len(a) + Len(b)
      /\ \A j \in 1..(Len(a) + Len(b)) : (a \o b)[j] = IF j <= Len(a) THEN a[j] ELSE b[j - Len(a)]
  BY <1>1, <1>2, ConcatProperties
<1>5. ASSUME NEW j \in 1..(Len(s) - 1) PROVE (a \o b)[j] = s[IF j < i THEN j ELSE j + 1]
  <2>1. CASE j < i
    BY <1>0, <1>1, <1>2, <1>4, <2>1
  <2>2. CASE ~(j < i)
    <3>1. (a \o b)[j] = b[j - (i - 1)]
      BY <1>0, <1>1, <1>2, <1>4, <2>2
    <3>2. j - (i - 1) \in 1..(Len(s) - i) /\ i + (j - (i - 1)) = j + 1
      BY <1>0, <2>2
    <3> QED
      BY <1>2, <2>2, <3>1, <3>2
  <2> QED
    BY <2>1, <2>2
<1> QED
  BY <1>0, <1>1, <1>2, <1>3, <1>4, <1>5

LEMMA RemoveUserSpec ==
  ASSUME NEW d \in Db, NEW c, FindUserBySocket(d, c) # 0
  PROVE  /\ Removed(d, RemoveUser(d, c), FindUserBySocket(d, c))
         /\ DOMAIN RemoveUser(d, c).rooms = DOMAIN d.rooms
         /\ \A r \in DOMAIN d.rooms :
              RemoveUser(d, c).rooms[r]
                = IF d.users[FindUserBySocket(d, c)].rooms[r] > 0
                  THEN d.rooms[r] \ {d.users[FindUserBySocket(d, c)].name} ELSE d.rooms[r]
<1> DEFINE i == FindUserBySocket(d, c)
           u == d.users[i]
           us == RemoveAt(d.users, i)
           rs == [r \in DOMAIN d.rooms |-> IF u.rooms[r] > 0 THEN d.rooms[r] \ {u.name} ELSE d.rooms[r]]
           e == RemoveUser(d, c)
<1>1. i \in 1..Len(d.users)
  BY FirstOfSocket
<1>2. e = [users |-> us, rooms |-> rs]
  BY Zenon DEF RemoveUser
<1>3. d.users \in Seq(UserRecord) /\ DOMAIN d.rooms \in SUBSET RoomNames
  BY DbFields
<1>4. rs \in [DOMAIN d.rooms -> SUBSET Names]
  BY DbFields
<1> HIDE DEF i
<1>5. /\ us \in Seq(UserRecord) /\ Len(us) = Len(d.users) - 1
      /\ \A j \in 1..(Len(d.users) - 1) : us[j] = d.users[IF j < i THEN j ELSE j + 1]
  BY <1>1, <1>3, RemoveAtFacts, Zenon
<1>6. DOMAIN rs = DOMAIN d.rooms
      /\ \A r \in DOMAIN d.rooms : rs[r] = IF u.rooms[r] > 0 THEN d.rooms[r] \ {u.name} ELSE d.rooms[r]
  OBVIOUS
<1> HIDE DEF u, us, rs, e
<1>7. e \in Db
  BY <1>2, <1>3, <1>4, <1>5, IsDb, Zenon
<1>8. e.users = us /\ e.rooms = rs
  BY <1>2
<1>9. Removed(d, e, i)
  BY <1>5, <1>7, <1>8, Zenon DEF Removed
<1> QED
  BY <1>6, <1>8, <1>9 DEF e, i, u

-----------------------------------------------------------------------------
(* The two lists agree, and each operation keeps them so while names differ. *)
NamesDiffer(d) == \A i, j \in 1..Len(d.users) : d.users[i].name = d.users[j].name => i = j
Member(d, j, r) == IF r \in DOMAIN d.rooms /\ d.users[j].name \in d.rooms[r] THEN 1 ELSE 0
Roster(d) == /\ \A j \in 1..Len(d.users) : \A r \in RoomNames : d.users[j].rooms[r] = Member(d, j, r)
             /\ \A r \in DOMAIN d.rooms : \A n \in d.rooms[r] : \E j \in 1..Len(d.users) : d.users[j].name = n

LEMMA JoinKeepsRoster ==
  ASSUME NEW d \in Db, NEW n \in Names, NEW r \in RoomNames, NamesDiffer(d), Roster(d)
  PROVE  Roster(AddUserToRoom(d, n, r))
<1>1. CASE RoomExists(d, r) /\ FindUserByName(d, n) # 0 /\ n \notin d.rooms[r]
  <2> DEFINE e == AddUserToRoom(d, n, r)
             i == FindUserByName(d, n)
  <2>1. JoinsRoom(d, e, i, n, r)
    BY <1>1, AddUserToRoomSpec, Zenon
  <2>2. i \in 1..Len(d.users) /\ d.users[i].name = n /\ DOMAIN d.rooms \subseteq RoomNames
    BY <1>1, FirstOfName, DbFields
  <2> HIDE DEF e, i
  <2>3. /\ DOMAIN e.rooms = DOMAIN d.rooms
        /\ \A q \in DOMAIN d.rooms : e.rooms[q] = IF q = r THEN d.rooms[q] \cup {n} ELSE d.rooms[q]
        /\ \A q \in RoomNames : e.users[i].rooms[q] = IF q = r THEN d.users[i].rooms[q] + 1 ELSE d.users[i].rooms[q]
    BY <2>1 DEF JoinsRoom
  <2>4. /\ Len(e.users) = Len(d.users)
        /\ \A j \in 1..Len(d.users) : e.users[j].name = d.users[j].name /\ (j # i => e.users[j] = d.users[j])
    BY <2>1 DEF JoinsRoom, OneRecordChanges, RecordChanges, NamesKept
  <2>5. ASSUME NEW j \in 1..Len(d.users), NEW q \in RoomNames
        PROVE  e.users[j].rooms[q] = Member(e, j, q)
    <3>1. d.users[j].rooms[q] = Member(d, j, q)
      BY DEF Roster
    <3>2. CASE j = i
      <4>1. e.users[j].name = n /\ d.users[j].name = n
        BY <2>2, <2>4, <3>2
      <4>2. CASE q = r
        <5>1. d.users[j].rooms[q] = 0
          BY <1>1, <3>1, <4>1, <4>2 DEF Member
        <5>2. Member(e, j, q) = 1
          BY <1>1, <2>3, <4>1, <4>2 DEF Member, RoomExists
        <5>3. e.users[j].rooms[q] = d.users[j].rooms[q] + 1
          BY <2>3, <3>2, <4>2
        <5> QED
          BY <5>1, <5>2, <5>3
      <4>3. CASE q # r
        <5>1. e.users[j].rooms[q] = d.users[j].rooms[q]
          BY <2>3, <3>2, <4>3
        <5>2. Member(e, j, q) = Member(d, j, q)
          BY <2>3, <4>1, <4>3 DEF Member
        <5> QED
          BY <3>1, <5>1, <5>2
      <4> QED
        BY <4>2, <4>3
    <3>3. CASE j # i
      <4>1. d.users[j].name # n
        BY <2>2, <3>3 DEF NamesDiffer
      <4>2. e.users[j] = d.users[j]
        BY <2>4, <3>3
      <4>3. Member(e, j, q) = Member(d, j, q)
        BY <2>3, <4>1, <4>2 DEF Member, RoomExists
      <4> QED
        BY <3>1, <4>2, <4>3
    <3> QED
      BY <3>2, <3>3
  <2>6. ASSUME NEW q \in DOMAIN e.rooms, NEW m \in e.rooms[q]
        PROVE  \E j \in 1..Len(e.users) : e.users[j].name = m
    <3>1. q \in DOMAIN d.rooms /\ (m = n \/ m \in d.rooms[q])
      BY <2>3
    <3>2. \E j \in 1..Len(d.users) : d.users[j].name = m
      BY <2>2, <3>1 DEF Roster
    <3> QED
      BY <2>4, <3>2
  <2>7. Roster(e)
    BY <2>4, <2>5, <2>6 DEF Roster
  <2> QED
    BY <2>7 DEF e
<1>2. CASE ~(RoomExists(d, r) /\ FindUserByName(d, n) # 0 /\ n \notin d.rooms[r])
  <2>1. AddUserToRoom(d, n, r) = d
    BY <1>2, Zenon DEF AddUserToRoom
  <2> QED
    BY <2>1
<1> QED
  BY <1>1, <1>2

LEMMA LeaveKeepsRoster ==
  ASSUME NEW d \in Db, NEW n \in Names, NEW r \in RoomNames, NamesDiffer(d), Roster(d)
  PROVE  Roster(RemoveUserFromRoom(d, n, r))
<1> DEFINE e == RemoveUserFromRoom(d, n, r)
           i == FindUserByName(d, n)
<1>1. OneRecordChanges(d, e, i) /\ e.rooms = Without(d, n, r)
  BY RemoveStrangerFromRoom, RemoveUserFromRoomSpec, Zenon
<1>2. CASE i = 0
  <2>1. e.users = d.users /\ \A j \in 1..Len(d.users) : d.users[j].name # n
    BY <1>2, RemoveStrangerFromRoom, FirstOfName
  <2> HIDE DEF e, i
  <2>2. /\ DOMAIN e.rooms = DOMAIN d.rooms
        /\ \A q \in DOMAIN d.rooms : e.rooms[q] = IF q = r THEN d.rooms[q] \ {n} ELSE d.rooms[q]
    BY <1>1 DEF Without
  <2>3. \A j \in 1..Len(d.users) : \A q \in RoomNames : Member(e, j, q) = Member(d, j, q)
    BY <2>1, <2>2 DEF Member
  <2>4. \A q \in DOMAIN e.rooms : e.rooms[q] \subseteq d.rooms[q]
    BY <2>2
  <2>5. Roster(e)
    BY <2>1, <2>2, <2>3, <2>4 DEF Roster
  <2> QED
    BY <2>5 DEF e
<1>3. CASE i # 0
  <2>1. \A q \in RoomNames : e.users[i].rooms[q] = IF q = r /\ d.users[i].rooms[q] # 0
                                                   THEN d.users[i].rooms[q] - 1 ELSE d.users[i].rooms[q]
    BY <1>3, RemoveUserFromRoomSpec, Zenon
  <2>2. i \in 1..Len(d.users) /\ d.users[i].name = n /\ DOMAIN d.rooms \subseteq RoomNames
    BY <1>3, FirstOfName, DbFields
  <2> HIDE DEF e, i
  <2>3. /\ DOMAIN e.rooms = DOMAIN d.rooms
        /\ \A q \in DOMAIN d.rooms : e.rooms[q] = IF q = r THEN d.rooms[q] \ {n} ELSE d.rooms[q]
    BY <1>1 DEF Without
  <2>4. /\ Len(e.users) = Len(d.users)
        /\ \A j \in 1..Len(d.users) : e.users[j].name = d.users[j].name /\ (j # i => e.users[j] = d.users[j])
    BY <1>1 DEF OneRecordChanges, RecordChanges, NamesKept
  <2>5. ASSUME NEW j \in 1..Len(d.users), NEW q \in RoomNames
        PROVE  e.users[j].rooms[q] = Member(e, j, q)
    <3>1. d.users[j].rooms[q] = Member(d, j, q)
      BY DEF Roster
    <3>2. CASE j = i
      <4>1. e.users[i].rooms[q] = IF q = r /\ d.users[i].rooms[q] # 0
                                  THEN d.users[i].rooms[q] - 1 ELSE d.users[i].rooms[q]
        BY <2>1
      <4>2. e.users[i].name = n /\ d.users[i].name = n
        BY <2>2, <2>4
      <4>3. CASE q = r
        <5>1. e.users[i].rooms[q] = 0
          BY <3>1, <3>2, <4>1, <4>3 DEF Member
        <5>2. Member(e, j, q) = 0
          BY <2>3, <3>2, <4>2, <4>3 DEF Member
        <5> QED
          BY <3>2, <5>1, <5>2
      <4>4. CASE q # r
        BY <2>3, <3>1, <3>2, <4>1, <4>2, <4>4 DEF Member
      <4> QED
        BY <4>3, <4>4
    <3>3. CASE j # i
      <4>1. d.users[j].name # n
        BY <2>2, <3>3 DEF NamesDiffer
      <4>2. e.users[j] = d.users[j]
        BY <2>4, <3>3
      <4>3. Member(e, j, q) = Member(d, j, q)
        BY <2>3, <4>1, <4>2 DEF Member, RoomExists
      <4> QED
        BY <3>1, <4>2, <4>3
    <3> QED
      BY <3>2, <3>3
  <2>6. ASSUME NEW q \in DOMAIN e.rooms, NEW m \in e.rooms[q]
        PROVE  \E j \in 1..Len(e.users) : e.users[j].name = m
    <3>1. q \in DOMAIN d.rooms /\ (m = n \/ m \in d.rooms[q])
      BY <2>3
    <3>2. \E j \in 1..Len(d.users) : d.users[j].name = m
      BY <2>2, <3>1 DEF Roster
    <3> QED
      BY <2>4, <3>2
  <2>7. Roster(e)
    BY <2>4, <2>5, <2>6 DEF Roster
  <2> QED
    BY <2>7 DEF e
<1> QED
  BY <1>2, <1>3

LEMMA RoomsKeptKeepsRoster ==
  ASSUME NEW d \in Db, NEW e, NEW i, OneRecordChanges(d, e, i), RoomsKept(d, e), Roster(d)
  PROVE  Roster(e)
<1>1. /\ Len(e.users) = Len(d.users) /\ e.rooms = d.rooms
      /\ \A j \in 1..Len(d.users) : e.users[j].name = d.users[j].name /\ e.users[j].rooms = d.users[j].rooms
  BY DEF OneRecordChanges, RecordChanges, NamesKept, RoomsKept
<1>2. \A j \in 1..Len(d.users) : \A q \in RoomNames : Member(e, j, q) = Member(d, j, q)
  BY <1>1 DEF Member
<1> QED
  BY <1>1, <1>2 DEF Roster

LEMMA ConnectionsKeepRoster ==
  ASSUME NEW d \in Db, NEW n \in Names, NEW m \in Names, Roster(d)
  PROVE  Roster(AddDirectConnection(d, n, m)) /\ Roster(RemoveDirectConnection(d, n, m))
<1>1. Roster(AddDirectConnection(d, n, m))
  BY AddDirectConnectionChanges, RoomsKeptKeepsRoster, Zenon
<1>2. Roster(RemoveDirectConnection(d, n, m))
  BY RemoveDirectConnectionChanges, RoomsKeptKeepsRoster, Zenon
<1> QED
  BY <1>1, <1>2

LEMMA AddRoomKeepsRoster ==
  ASSUME NEW d \in Db, NEW r \in RoomNames, Roster(d)
  PROVE  Roster(AddRoom(d, r))
<1> DEFINE e == AddRoom(d, r)
<1>1. /\ e.users = d.users /\ DOMAIN e.rooms = DOMAIN d.rooms \cup {r}
      /\ \A q \in RoomNames : q \in DOMAIN e.rooms => e.rooms[q] = IF q \in DOMAIN d.rooms THEN d.rooms[q] ELSE {}
  BY AddRoomIsDb, Zenon
<1>2. DOMAIN d.rooms \subseteq RoomNames
  BY DbFields
<1> HIDE DEF e
<1>3. \A j \in 1..Len(d.users) : \A q \in RoomNames : Member(e, j, q) = Member(d, j, q)
  BY <1>1 DEF Member
<1>4. ASSUME NEW q \in DOMAIN e.rooms, NEW m \in e.rooms[q]
      PROVE  \E j \in 1..Len(e.users) : e.users[j].name = m
  BY <1>1, <1>2 DEF Roster
<1>5. Roster(e)
  BY <1>1, <1>3, <1>4 DEF Roster
<1> QED
  BY <1>5 DEF e

LEMMA AddUserKeepsRoster ==
  ASSUME NEW d \in Db, NEW c \in Fd, NEW n \in Names, NamesDiffer(d), Roster(d),
         \A j \in 1..Len(d.users) : d.users[j].name # n
  PROVE  Roster(AddUser(d, c, n)) /\ NamesDiffer(AddUser(d, c, n))
<1> DEFINE e == AddUser(d, c, n)
<1>1. Prepended(d, e, NewRecord(c, n))
  BY AddUserSpec, Zenon
<1> HIDE DEF e
<1>2. /\ e.rooms = d.rooms /\ Len(e.users) = Len(d.users) + 1 /\ Len(d.users) \in Nat
      /\ e.users[1].name = n /\ e.users[1].rooms = NoRooms
      /\ \A j \in 1..Len(d.users) : e.users[j + 1] = d.users[j]
  BY <1>1, DbFields DEF Prepended, NewRecord
<1>3. \A j \in 1..Len(e.users) : j # 1 => j - 1 \in 1..Len(d.users) /\ e.users[j] = d.users[j - 1]
  BY <1>2
<1>4. NamesDiffer(e)
  <2> SUFFICES ASSUME NEW i \in 1..Len(e.users), NEW j \in 1..Len(e.users), e.users[i].name = e.users[j].name
               PROVE  i = j
    BY DEF NamesDiffer
  <2>1. CASE i = 1 \/ j = 1
    <3>1. \A l \in 1..Len(e.users) : l # 1 => e.users[l].name # n
      <4> SUFFICES ASSUME NEW l \in 1..Len(e.users), l # 1 PROVE e.users[l].name # n
        OBVIOUS
      <4>1. l - 1 \in 1..Len(d.users) /\ e.users[l] = d.users[l - 1]
        BY <1>3
      <4> QED
        BY <4>1
    <3> QED
      BY <1>2, <2>1, <3>1
  <2>2. CASE i # 1 /\ j # 1
    <3>1. i - 1 \in 1..Len(d.users) /\ e.users[i] = d.users[i - 1]
      BY <1>3, <2>2
    <3>2. j - 1 \in 1..Len(d.users) /\ e.users[j] = d.users[j - 1]
      BY <1>3, <2>2
    <3>3. d.users[i - 1].name = d.users[j - 1].name
      BY <3>1, <3>2
    <3>4. i - 1 = j - 1
      BY <3>1, <3>2, <3>3 DEF NamesDiffer
    <3> QED
      BY <1>2, <3>4
  <2> QED
    BY <2>1, <2>2
<1>5. n \notin UNION {d.rooms[r] : r \in DOMAIN d.rooms}
  BY DEF Roster
<1>6. ASSUME NEW j \in 1..Len(e.users), NEW q \in RoomNames
      PROVE  e.users[j].rooms[q] = Member(e, j, q)
  <2>1. CASE j = 1
    BY <1>2, <1>5, <2>1 DEF Member, NoRooms
  <2>2. CASE j # 1
    <3>1. j - 1 \in 1..Len(d.users) /\ e.users[j] = d.users[j - 1]
      BY <1>3, <2>2
    <3>2. d.users[j - 1].rooms[q] = Member(d, j - 1, q)
      BY <3>1 DEF Roster
    <3> QED
      BY <1>2, <3>1, <3>2 DEF Member
  <2> QED
    BY <2>1, <2>2
<1>7. ASSUME NEW q \in DOMAIN e.rooms, NEW m \in e.rooms[q]
      PROVE  \E j \in 1..Len(e.users) : e.users[j].name = m
  <2>1. PICK k \in 1..Len(d.users) : d.users[k].name = m
    BY <1>2 DEF Roster
  <2>2. k + 1 \in 1..Len(e.users) /\ e.users[k + 1].name = m
    BY <1>2, <2>1
  <2> QED
    BY <2>2
<1>8. Roster(e)
  BY <1>6, <1>7 DEF Roster
<1> QED
  BY <1>4, <1>8 DEF e

LEMMA RemoveUserKeepsRoster ==
  ASSUME NEW d \in Db, NEW c, NamesDiffer(d), Roster(d)
  PROVE  Roster(RemoveUser(d, c))
<1> DEFINE e == RemoveUser(d, c)
           i == FindUserBySocket(d, c)
<1>1. CASE i = 0
  BY <1>1 DEF RemoveUser
<1>2. CASE i # 0
  <2>1. /\ Removed(d, e, i) /\ DOMAIN e.rooms = DOMAIN d.rooms
        /\ \A r \in DOMAIN d.rooms :
             e.rooms[r] = IF d.users[i].rooms[r] > 0 THEN d.rooms[r] \ {d.users[i].name} ELSE d.rooms[r]
    BY <1>2, RemoveUserSpec, Zenon
  <2>2. i \in 1..Len(d.users) /\ DOMAIN d.rooms \subseteq RoomNames /\ Len(d.users) \in Nat
    BY <1>2, FirstOfSocket, DbFields
  <2> HIDE DEF e, i
  <2>3. \A r \in DOMAIN d.rooms : e.rooms[r] = d.rooms[r] \ {d.users[i].name}
    <3> SUFFICES ASSUME NEW r \in DOMAIN d.rooms PROVE e.rooms[r] = d.rooms[r] \ {d.users[i].name}
      OBVIOUS
    <3>1. d.users[i].rooms[r] = Member(d, i, r)
      BY <2>2 DEF Roster
    <3>2. CASE d.users[i].name \in d.rooms[r]
      <4>1. d.users[i].rooms[r] = 1
        BY <3>1, <3>2 DEF Member
      <4>2. d.users[i].rooms[r] > 0
        BY <4>1
      <4> QED
        BY <2>1, <4>2, Zenon
    <3>3. CASE d.users[i].name \notin d.rooms[r]
      <4>1. d.users[i].rooms[r] = 0
        BY <3>1, <3>3 DEF Member
      <4>2. ~(d.users[i].rooms[r] > 0)
        BY <4>1
      <4>3. e.rooms[r] = d.rooms[r]
        BY <2>1, <4>2, Zenon
      <4> QED
        BY <3>3, <4>3
    <3> QED
      BY <3>2, <3>3
  <2>4. /\ Len(e.users) = Len(d.users) - 1
        /\ \A j \in 1..(Len(d.users) - 1) : e.users[j] = d.users[IF j < i THEN j ELSE j + 1]
    BY <2>1 DEF Removed
  <2>5. ASSUME NEW j \in 1..Len(e.users), NEW q \in RoomNames
        PROVE  e.users[j].rooms[q] = Member(e, j, q)
    <3>1. PICK k \in 1..Len(d.users) : k # i /\ e.users[j] = d.users[k]
      BY <2>2, <2>4
    <3>2. d.users[k].name # d.users[i].name
      BY <2>2, <3>1 DEF NamesDiffer
    <3>3. d.users[k].rooms[q] = Member(d, k, q)
      BY <3>1 DEF Roster
    <3> QED
      BY <2>1, <2>3, <3>1, <3>2, <3>3 DEF Member
  <2>6. ASSUME NEW q \in DOMAIN e.rooms, NEW m \in e.rooms[q]
        PROVE  \E j \in 1..Len(e.users) : e.users[j].name = m
    <3>1. q \in DOMAIN d.rooms /\ m \in d.rooms[q] /\ m # d.users[i].name
      BY <2>1, <2>3
    <3>2. PICK k \in 1..Len(d.users) : d.users[k].name = m
      BY <3>1 DEF Roster
    <3>3. k # i
      BY <3>1, <3>2
    <3>4. CASE k < i
      BY <2>2, <2>4, <3>2, <3>4
    <3>5. CASE k > i
      <4>1. k - 1 \in 1..Len(e.users) /\ ~(k - 1 < i) /\ (k - 1) + 1 = k
        BY <2>2, <2>4, <3>5
      <4>2. e.users[k - 1] = d.users[k]
        BY <2>4, <4>1
      <4> QED
        BY <3>2, <4>1, <4>2
    <3> QED
      BY <2>2, <3>3, <3>4, <3>5
  <2>7. Roster(e)
    BY <2>5, <2>6 DEF Roster
  <2> QED
    BY <2>7 DEF e
<1> QED
  BY <1>1, <1>2

-----------------------------------------------------------------------------
USE ServerAssumption

-----------------------------------------------------------------------------
(* The lock protocol. *)
LEMMA MainIsNoClient == Main \in Threads /\ ClientThreads \subseteq Threads /\ Main \notin ClientThreads
BY DEF Threads

(* The places of the threads and nothing else decide what step of the protocol  *)
(* a step is.                                                                   *)
PcType == pc \in [Threads -> LockPlaces \cup Elsewhere]

LEMMA InitImplementsLock == Init => L!Init
BY DEF Init, L!Init, lockPc, LockPlaces

(* A thread that moves between places of the protocol moves in lockPc. *)
LEMMA LockPcMoves ==
  ASSUME PcType, NEW t \in Threads, NEW to, pc' = [pc EXCEPT ![t] = to]
  PROVE  /\ lockPc[t] = IF pc[t] \in LockPlaces THEN pc[t] ELSE "idle"
         /\ lockPc' = [lockPc EXCEPT ![t] = IF to \in LockPlaces THEN to ELSE "idle"]
BY DEF PcType, lockPc

(* A thread that does not is a stutter of the protocol. *)
LEMMA MovesElsewhere ==
  ASSUME PcType, NEW t \in Threads, NEW to \in Elsewhere, pc[t] \in Elsewhere,
         pc' = [pc EXCEPT ![t] = to], UNCHANGED lockVars
  PROVE  UNCHANGED L!vars
BY DEF PcType, lockPc, L!vars, LockPlaces, Elsewhere, lockVars

LEMMA MovesToWant ==
  ASSUME PcType, NEW t \in Threads, pc[t] \in Elsewhere,
         NEW to \in {"w_want", "r_want"},
         pc' = [pc EXCEPT ![t] = to], UNCHANGED lockVars
  PROVE  L!Next
<1>1. /\ lockPc[t] = "idle"
      /\ lockPc' = [lockPc EXCEPT ![t] = to]
  BY LockPcMoves DEF LockPlaces, Elsewhere
<1>2. L!WantWrite(t) \/ L!WantRead(t)
  BY <1>1 DEF L!WantWrite, L!WantRead, L!Goto, lockVars
<1> QED
  BY <1>2 DEF L!Next

(* The end of a writer is a step of the protocol. *)
LEMMA CommitImplementsLock ==
  ASSUME PcType, NEW t \in Threads, NEW kind, NEW newDb, NEW next \in {"serving", "closing"},
         Commit(t, kind, newDb, next)
  PROVE  L!Next
<1>1. lockPc[t] = "w_in" /\ lockPc' = [lockPc EXCEPT ![t] = "idle"]
  BY LockPcMoves DEF Commit, Goto, LockPlaces
<1>2. L!EndWrite(t)
  BY <1>1 DEF Commit, L!EndWrite, L!Goto
<1> QED
  BY <1>2 DEF L!Next, L!Proceed

(* The steps of a client thread that are no operation on the lists. *)
LEMMA ClientImplementsLock ==
  ASSUME PcType, NEW t \in ClientThreads,
         Start(t) \/ Receive(t) \/ HangUp(t) \/ Close(t) \/ EndRead(t)
  PROVE  [L!Next]_L!vars
<1>0. t \in Threads
  BY MainIsNoClient
<1>1. CASE Start(t) \/ HangUp(t)
  BY <1>0, <1>1, MovesToWant DEF Start, HangUp, Goto, Elsewhere
<1>2. CASE Receive(t)
  <2>1. PICK c \in Commands : Goto(t, "serving", IF c.kind = "read" THEN "r_want" ELSE "w_want")
    BY <1>2 DEF Receive
  <2>2. PICK to \in {"w_want", "r_want"} : pc[t] = "serving" /\ pc' = [pc EXCEPT ![t] = to]
    BY <2>1 DEF Goto
  <2> QED
    BY <1>0, <1>2, <2>2, MovesToWant DEF Receive, Elsewhere
<1>3. CASE Close(t)
  BY <1>0, <1>3, MovesElsewhere DEF Close, Goto, Elsewhere
<1>4. CASE EndRead(t)
  <2>1. lockPc[t] = "r_in" /\ lockPc' = [lockPc EXCEPT ![t] = "x_want"]
    BY <1>0, <1>4, LockPcMoves DEF EndRead, Goto, LockPlaces
  <2>2. L!EndRead(t)
    BY <1>4, <2>1 DEF EndRead, L!EndRead, L!Goto, lockVars
  <2> QED
    BY <1>0, <2>2 DEF L!Next, L!Proceed
<1> QED
  BY <1>1, <1>2, <1>3, <1>4

(* The steps of main and of the handler, but for its operation on the lists. *)
LEMMA MainImplementsLock ==
  ASSUME PcType, Accept \/ CreateThread \/ Interrupt \/ Exit
  PROVE  [L!Next]_L!vars
<1>1. CASE Accept
  <2>1. PICK to \in Elsewhere : pc[Main] = "accept" /\ pc' = [pc EXCEPT ![Main] = to]
    BY <1>1 DEF Accept, Goto, Elsewhere
  <2> QED
    BY <1>1, <2>1, MainIsNoClient, MovesElsewhere DEF Accept, Elsewhere
<1>2. CASE CreateThread
  <2>1. PICK t \in ClientThreads : /\ pc[t] = "unborn" /\ pc[Main] = "create"
                                   /\ pc' = [pc EXCEPT ![Main] = "accept", ![t] = "born"]
                                   /\ UNCHANGED lockVars
    BY <1>2 DEF CreateThread, Unborn
  <2>2. lockPc' = lockPc
    BY <2>1, MainIsNoClient DEF PcType, lockPc, LockPlaces
  <2> QED
    BY <2>1, <2>2 DEF L!vars, lockVars
<1>3. CASE Interrupt
  BY <1>3, MainIsNoClient, MovesToWant DEF Interrupt, Elsewhere
<1>4. CASE Exit
  BY <1>4, MainIsNoClient, MovesElsewhere DEF Exit, Goto, Elsewhere
<1> QED
  BY <1>1, <1>2, <1>3, <1>4

(* Every operation on the lists ends with a Commit. *)
Operation(t) == \/ Register(t) \/ Create(t) \/ Join(t) \/ Leave(t) \/ Connect(t)
                \/ Disconnect(t) \/ Login(t) \/ Cleanup(t)

LEMMA OperationIsCommit ==
  ASSUME NEW t, Operation(t)
  PROVE  /\ UNCHANGED openFds
         /\ \E kind, newDb : \E next \in {"serving", "closing"} : Commit(t, kind, newDb, next)
BY Zenon DEF Operation, Register, Create, Join, Leave, Connect, Disconnect, Login, Cleanup

LEMMA StepImplementsLock == PcType /\ [Next]_vars => [L!Next]_L!vars
<1> SUFFICES ASSUME PcType, [Next]_vars PROVE [L!Next]_L!vars
  OBVIOUS
<1>1. CASE UNCHANGED vars
  BY <1>1 DEF vars, lockVars, L!vars, lockPc
<1>2. CASE Accept \/ CreateThread \/ Interrupt \/ Exit
  BY <1>2, MainImplementsLock
<1>3. CASE FreeAll
  BY <1>3, MainIsNoClient, CommitImplementsLock DEF FreeAll
<1>4. ASSUME NEW t \in ClientThreads, ClientStep(t) PROVE [L!Next]_L!vars
  <2>1. CASE Operation(t)
    BY <2>1, MainIsNoClient, OperationIsCommit, CommitImplementsLock
  <2>2. CASE Start(t) \/ Receive(t) \/ HangUp(t) \/ Close(t) \/ EndRead(t)
    BY <2>2, ClientImplementsLock
  <2> QED
    BY <1>4, <2>1, <2>2 DEF ClientStep, Operation
<1>5. ASSUME NEW t \in Threads, LockStep(t) PROVE L!Next
  BY <1>5 DEF LockStep, L!Next, L!Proceed
<1> QED
  BY <1>1, <1>2, <1>3, <1>4, <1>5 DEF Next, Quiet

LEMMA StepKeepsPcType == PcType /\ [Next]_vars => PcType'
<1> SUFFICES ASSUME PcType, [Next]_vars PROVE PcType'
  OBVIOUS
<1> USE DEF PcType, Goto
<1>1. CASE UNCHANGED vars
  BY <1>1 DEF vars
<1>2. CASE Accept \/ CreateThread \/ Interrupt \/ Exit
  BY <1>2 DEF Accept, CreateThread, Interrupt, Exit, LockPlaces, Elsewhere
<1>3. CASE FreeAll
  BY <1>3 DEF FreeAll, Commit, Elsewhere
<1>4. ASSUME NEW t \in ClientThreads, ClientStep(t) PROVE PcType'
  <2>1. CASE Operation(t)
    BY <2>1, OperationIsCommit DEF Commit, Elsewhere
  <2>2. CASE Start(t) \/ HangUp(t) \/ Close(t) \/ EndRead(t)
    BY <2>2 DEF Start, HangUp, Close, EndRead, LockPlaces, Elsewhere
  <2>3. CASE Receive(t)
    BY <2>3 DEF Receive, LockPlaces
  <2> QED
    BY <1>4, <2>1, <2>2, <2>3 DEF ClientStep, Operation
<1>5. ASSUME NEW t \in Threads, LockStep(t) PROVE PcType'
  BY <1>5 DEF LockStep, LockPlaces, Elsewhere
<1> QED
  BY <1>1, <1>2, <1>3, <1>4, <1>5 DEF Next, Quiet

LEMMA PcTypeInvariant == Spec => []PcType
<1>1. Init => PcType
  BY DEF Init, PcType, Elsewhere
<1>2. PcType /\ [Next]_vars => PcType'
  BY StepKeepsPcType
<1> QED
  BY <1>1, <1>2, PTL DEF Spec

(* The server takes and leaves its locks by the protocol of ChatLock: every step  *)
(* of main, a client thread or the handler is one step of the protocol or none.   *)
THEOREM ServerImplementsLock == Spec => ImplementsLock
<1>1. Init => L!Init
  BY InitImplementsLock
<1>2. PcType /\ [Next]_vars => [L!Next]_L!vars
  BY StepImplementsLock
<1> QED
  BY <1>1, <1>2, PcTypeInvariant, PTL DEF Spec, ImplementsLock, L!Spec

-----------------------------------------------------------------------------
(* What is proved of the protocol holds of the server.  The theorems of           *)
(* ChatLockProofs are about another instance of the same definitions.             *)
Lock == INSTANCE ChatLockProofs WITH pc <- lockPc

LEMMA LockAssumption == Lock!IsFiniteSet(Threads) /\ NoThread \notin Threads
<1>1. IsFiniteSet(Threads)
  BY FS_AddElement DEF Threads
<1> QED
  BY <1>1 DEF IsFiniteSet, Lock!IsFiniteSet

LEMMA SameInit == L!Init <=> Lock!Init
BY DEF L!Init, Lock!Init

LEMMA SameNext == [L!Next]_L!vars <=> [Lock!Next]_Lock!vars
<1>1. ASSUME NEW t PROVE L!WantWrite(t) \/ L!WantRead(t) <=> Lock!WantWrite(t) \/ Lock!WantRead(t)
  BY DEF L!WantWrite, L!WantRead, L!Goto, Lock!WantWrite, Lock!WantRead, Lock!Goto
<1>2. ASSUME NEW t PROVE L!Proceed(t) <=> Lock!Proceed(t)
  BY DEF L!Proceed, L!BeginWrite, L!EndWrite, L!CountIn, L!FirstReaderLocks, L!BeginRead,
     L!EndRead, L!CountOut, L!LastReaderUnlocks, L!ReleaseMutex, L!Goto,
     Lock!Proceed, Lock!BeginWrite, Lock!EndWrite, Lock!CountIn, Lock!FirstReaderLocks,
     Lock!BeginRead, Lock!EndRead, Lock!CountOut, Lock!LastReaderUnlocks, Lock!ReleaseMutex, Lock!Goto
<1>3. L!Next <=> Lock!Next
  BY <1>1, <1>2 DEF L!Next, Lock!Next
<1> QED
  BY <1>3 DEF L!vars, Lock!vars

LEMMA SameInv == L!LockInv <=> Lock!LockInv
BY DEF L!LockInv, L!TypeOK, L!Places, L!WriterOwnsLock, L!MutexOwner, L!HoldsMutex, L!CountIsExact,
   L!Counted, L!ReadersCovered, L!Covered, L!Writing, L!FirstIsAlone, L!LastIsAlone, L!LockIsWanted,
   L!Cardinality, Lock!Cardinality,
   Lock!LockInv, Lock!TypeOK, Lock!Places, Lock!WriterOwnsLock, Lock!MutexOwner, Lock!HoldsMutex,
   Lock!CountIsExact, Lock!Counted, Lock!ReadersCovered, Lock!Covered, Lock!Writing,
   Lock!FirstIsAlone, Lock!LastIsAlone, Lock!LockIsWanted

LEMMA LockInvHolds == Spec => []L!LockInv
<1>1. Lock!Spec => []Lock!LockInv
  BY LockAssumption, Lock!LockInvariant
<1>2. L!Spec => Lock!Spec
  BY SameInit, SameNext, PTL DEF L!Spec, Lock!Spec
<1> QED
  BY <1>1, <1>2, SameInv, ServerImplementsLock, PTL DEF ImplementsLock

-----------------------------------------------------------------------------
(* The operations. *)
(* What the lists become, by the kind of the operation. *)
Registers(d, e, c) ==
  /\ e \in Db /\ Len(e.users) = Len(d.users) + 1
  /\ e.users[1].sock = c /\ e.users[1].name = Guest[c]
  /\ \A j \in 1..Len(d.users) : e.users[j + 1].sock = d.users[j].sock /\ e.users[j + 1].name = d.users[j].name

Unregisters(d, e, c) ==
  LET i == FindUserBySocket(d, c)
  IN  \/ i = 0 /\ e = d
      \/ i \in 1..Len(d.users) /\ d.users[i].sock = c /\ Removed(d, e, i)

(* A command changes at most the first record with the name of the client's record. *)
Updates(d, e, c) ==
  LET i == FindUserBySocket(d, c)
  IN  \/ e \in Db /\ e.users = d.users
      \/ i \in 1..Len(d.users) /\ OneRecordChanges(d, e, FindUserByName(d, d.users[i].name))

LEMMA GuestIsName == \A c \in Fd : Guest[c] \in Names
BY DEF Names, Fd

LEMMA RegisterEffect ==
  ASSUME NEW d \in Db, NEW c \in Fd
  PROVE  Registers(d, AddUserToRoom(AddUser(d, c, Guest[c]), Guest[c], Lobby), c)
<1> DEFINE n == Guest[c]
           m == AddUser(d, c, n)
           e == AddUserToRoom(m, n, Lobby)
<1>1. n \in Names /\ Lobby \in RoomNames
  BY GuestIsName
<1> HIDE DEF n
<1>2. Prepended(d, m, NewRecord(c, n))
  BY <1>1, AddUserSpec, Zenon
<1>3. m \in Db
  BY <1>2, Zenon DEF Prepended
<1> HIDE DEF m
<1>4. OneRecordChanges(m, e, FindUserByName(m, n))
  BY <1>1, <1>3, AddUserToRoomChanges, Zenon
<1> HIDE DEF e
<1>5. /\ e \in Db /\ Len(e.users) = Len(m.users)
      /\ \A j \in 1..Len(m.users) : e.users[j].sock = m.users[j].sock /\ e.users[j].name = m.users[j].name
  BY <1>4, Zenon DEF OneRecordChanges, RecordChanges, NamesKept
<1>6. /\ Len(m.users) = Len(d.users) + 1 /\ m.users[1].sock = c /\ m.users[1].name = n
      /\ \A j \in 1..Len(d.users) : m.users[j + 1] = d.users[j]
      /\ Len(d.users) \in Nat
  BY <1>2, DbFields DEF Prepended, NewRecord
<1>7. ASSUME NEW j \in 1..Len(d.users)
      PROVE  e.users[j + 1].sock = d.users[j].sock /\ e.users[j + 1].name = d.users[j].name
  <2>1. j + 1 \in 1..Len(m.users)
    BY <1>6
  <2> QED
    BY <1>5, <1>6, <2>1
<1>8. e.users[1].sock = c /\ e.users[1].name = n
  BY <1>5, <1>6
<1>9. Registers(d, e, c)
  BY <1>5, <1>6, <1>7, <1>8 DEF Registers, n
<1> QED
  BY <1>9 DEF e, m, n

LEMMA CleanupEffect ==
  ASSUME NEW d \in Db, NEW c
  PROVE  Unregisters(d, RemoveUser(d, c), c)
<1>1. CASE FindUserBySocket(d, c) = 0
  BY <1>1 DEF Unregisters, RemoveUser
<1>2. CASE FindUserBySocket(d, c) # 0
  <2>1. FindUserBySocket(d, c) \in 1..Len(d.users) /\ d.users[FindUserBySocket(d, c)].sock = c
    BY <1>2, FirstOfSocket
  <2> QED
    BY <1>2, <2>1, RemoveUserSpec, Zenon DEF Unregisters
<1> QED
  BY <1>1, <1>2

UpdateOp(t) == Create(t) \/ Join(t) \/ Leave(t) \/ Connect(t) \/ Disconnect(t)

(* The arguments of an operation are of the right type. *)
LEMMA Arguments ==
  ASSUME TypeOK, NEW t \in Threads
  PROVE  /\ op[t].kind \in {"create", "join", "leave"} => op[t].room \in RoomNames
         /\ op[t].kind \in {"connect", "disconnect", "login"} => op[t].name \in Names
         /\ db \in Db
         /\ t \in ClientThreads => client[t] \in Fd
<1>1. op[t] \in Commands \cup [kind : {"none", "register", "cleanup", "shutdown"}]
  BY DEF TypeOK
<1>2. op[t].kind \in {"create", "join", "leave"} => op[t].room \in RoomNames
  BY <1>1 DEF Commands
<1>3. op[t].kind \in {"connect", "disconnect", "login"} => op[t].name \in Names
  BY <1>1 DEF Commands, Names
<1> QED
  BY <1>2, <1>3 DEF TypeOK

LEMMA MyRecord ==
  ASSUME TypeOK, NEW t \in ClientThreads, Me(t) # 0
  PROVE  Me(t) \in 1..Len(db.users) /\ db.users[Me(t)].sock = client[t] /\ MyName(t) \in Names
<1>1. db \in Db
  BY DEF TypeOK
<1>2. Me(t) \in 1..Len(db.users) /\ db.users[Me(t)].sock = client[t]
  BY <1>1, FirstOfSocket DEF Me
<1>3. db.users[Me(t)] \in UserRecord
  BY <1>1, <1>2, DbFields
<1> QED
  BY <1>2, <1>3 DEF MyName, UserRecord

LEMMA UpdateEffect ==
  ASSUME TypeOK, NEW t \in ClientThreads, UpdateOp(t)
  PROVE  Updates(db, db', client[t])
<1>1. db \in Db /\ t \in Threads
  BY MainIsNoClient DEF TypeOK
<1>2. CASE Create(t)
  <2>1. op[t].room \in RoomNames /\ db' = AddRoom(db, op[t].room)
    BY <1>1, <1>2, Arguments DEF Create, Commit
  <2>2. db' \in Db /\ db'.users = db.users
    BY <1>1, <2>1, AddRoomIsDb
  <2> QED
    BY <2>2 DEF Updates
<1>3. CASE Me(t) = 0 /\ (Join(t) \/ Leave(t) \/ Connect(t) \/ Disconnect(t))
  <2>1. db' = db
    BY <1>3, Zenon DEF Join, Leave, Connect, Disconnect, Commit
  <2> QED
    BY <1>1, <2>1 DEF Updates
<1>4. CASE Me(t) # 0
  <2>1. Me(t) \in 1..Len(db.users) /\ MyName(t) \in Names
    BY <1>4, MyRecord
  <2> SUFFICES ASSUME Join(t) \/ Leave(t) \/ Connect(t) \/ Disconnect(t)
               PROVE  db' = db \/ OneRecordChanges(db, db', FindUserByName(db, MyName(t)))
    BY <1>1, <1>2, <2>1, Zenon DEF Updates, Me, MyName, UpdateOp
  <2>2. CASE Join(t)
    <3>1. op[t].room \in RoomNames /\ (db' = db \/ db' = AddUserToRoom(db, MyName(t), op[t].room))
      BY <1>1, <2>2, Arguments DEF Join, Commit
    <3> QED
      BY <1>1, <2>1, <3>1, AddUserToRoomChanges, Zenon
  <2>3. CASE Leave(t)
    <3>1. op[t].room \in RoomNames /\ (db' = db \/ db' = RemoveUserFromRoom(db, MyName(t), op[t].room))
      BY <1>1, <2>3, Arguments DEF Leave, Commit
    <3> QED
      BY <1>1, <2>1, <3>1, RemoveUserFromRoomChanges, Zenon
  <2>4. CASE Connect(t)
    <3>1. op[t].name \in Names /\ (db' = db \/ db' = AddDirectConnection(db, MyName(t), op[t].name))
      BY <1>1, <2>4, Arguments DEF Connect, Commit
    <3> QED
      BY <1>1, <2>1, <3>1, AddDirectConnectionChanges, Zenon
  <2>5. CASE Disconnect(t)
    <3>1. op[t].name \in Names /\ (db' = db \/ db' = RemoveDirectConnection(db, MyName(t), op[t].name))
      BY <1>1, <2>5, Arguments DEF Disconnect, Commit
    <3> QED
      BY <1>1, <2>1, <3>1, RemoveDirectConnectionChanges, Zenon
  <2> QED
    BY <2>2, <2>3, <2>4, <2>5
<1> QED
  BY <1>2, <1>3, <1>4 DEF UpdateOp

LEMMA OperationEffect ==
  ASSUME TypeOK, NEW t \in ClientThreads, Operation(t)
  PROVE  /\ db' \in Db
         /\ Register(t) => Registers(db, db', client[t])
         /\ UpdateOp(t) => Updates(db, db', client[t])
         /\ Login(t) => RecordChanges(db, db', Me(t))
         /\ Cleanup(t) => Unregisters(db, db', client[t])
<1>1. db \in Db /\ t \in Threads /\ client[t] \in Fd
  BY MainIsNoClient DEF TypeOK
<1>2. Register(t) => Registers(db, db', client[t])
  BY <1>1, RegisterEffect, Zenon DEF Register, Commit
<1>3. UpdateOp(t) => Updates(db, db', client[t])
  BY UpdateEffect
<1>4. Login(t) => RecordChanges(db, db', Me(t))
  <2> SUFFICES ASSUME Login(t) PROVE RecordChanges(db, db', Me(t))
    OBVIOUS
  <2>1. op[t].name \in Names /\ db' = RenameUser(db, client[t], op[t].name)
    BY <1>1, Arguments DEF Login, Commit
  <2> QED
    BY <1>1, <2>1, RenameUserChanges, Zenon DEF Me
<1>5. Cleanup(t) => Unregisters(db, db', client[t])
  BY <1>1, CleanupEffect, Zenon DEF Cleanup, Commit
<1>6. db' \in Db
  <2>1. Registers(db, db', client[t]) => db' \in Db
    BY Zenon DEF Registers
  <2>2. Updates(db, db', client[t]) => db' \in Db
    BY Zenon DEF Updates, OneRecordChanges, RecordChanges
  <2>3. RecordChanges(db, db', Me(t)) => db' \in Db
    BY Zenon DEF RecordChanges
  <2>4. Unregisters(db, db', client[t]) => db' \in Db
    BY <1>1, Zenon DEF Unregisters, Removed
  <2> QED
    BY <1>2, <1>3, <1>4, <1>5, <2>1, <2>2, <2>3, <2>4 DEF Operation, UpdateOp
<1> QED
  BY <1>2, <1>3, <1>4, <1>5, <1>6

-----------------------------------------------------------------------------
LEMMA CommitTypes ==
  ASSUME TypeOK, NEW t \in Threads, NEW kind, NEW newDb, NEW next \in {"serving", "closing"},
         Commit(t, kind, newDb, next), db' \in Db, openFds' \subseteq Fds
  PROVE  TypeOK'
<1>1. pc' \in [Threads -> LockPlaces \cup Elsewhere]
  BY DEF TypeOK, Commit, Goto, Elsewhere
<1>2. op' \in [Threads -> Commands \cup [kind : {"none", "register", "cleanup", "shutdown"}]]
  BY DEF TypeOK, Commit, NoOp
<1>3. renamed' \in BOOLEAN
  BY DEF TypeOK, Commit
<1> QED
  BY <1>1, <1>2, <1>3 DEF TypeOK, Commit

LEMMA AcceptIsFree ==
  ASSUME Accept
  PROVE  newClient' \in Fd /\ newClient' \notin openFds \ {NoFd}
<1>1. CASE Fds \ openFds = {}
  BY <1>1 DEF Accept, AcceptClient, Fd
<1>2. CASE Fds \ openFds # {}
  <2>1. PICK c \in Fds \ openFds : \A d \in Fds \ openFds : c <= d
    BY <1>2, LeastNatural
  <2>2. AcceptClient \in Fds \ openFds
    BY <1>2, <2>1 DEF AcceptClient
  <2> QED
    BY <2>2 DEF Accept, Fd
<1> QED
  BY <1>1, <1>2

LEMMA TypesKept == TypeOK /\ [Next]_vars => TypeOK'
<1> SUFFICES ASSUME TypeOK, [Next]_vars PROVE TypeOK'
  OBVIOUS
<1> USE MainIsNoClient
<1>1. CASE UNCHANGED vars
  BY <1>1 DEF vars, history, TypeOK
<1>2. CASE Accept
  <2>1. newClient' \in Fd /\ openFds' \subseteq Fds
    BY <1>2, AcceptIsFree DEF Accept, TypeOK, Fd
  <2>2. pc' \in [Threads -> LockPlaces \cup Elsewhere]
    BY <1>2 DEF Accept, Goto, TypeOK, Elsewhere
  <2> QED
    BY <1>2, <2>1, <2>2 DEF Accept, TypeOK, history
<1>3. CASE CreateThread
  BY <1>3 DEF CreateThread, TypeOK, Elsewhere, Unborn
<1>4. CASE Interrupt
  BY <1>4 DEF Interrupt, TypeOK, LockPlaces, history
<1>5. CASE FreeAll
  <2>1. db' \in Db /\ openFds' \subseteq Fds
    BY <1>5, EmptyIsDb DEF FreeAll, Commit, TypeOK
  <2> QED
    BY <1>5, <2>1, CommitTypes DEF FreeAll
<1>6. CASE Exit
  BY <1>6 DEF Exit, Goto, TypeOK, Elsewhere, history
<1>7. ASSUME NEW t \in ClientThreads, ClientStep(t) PROVE TypeOK'
  <2>1. CASE Start(t)
    BY <1>7, <2>1 DEF Start, Goto, TypeOK, LockPlaces, history
  <2>2. CASE Receive(t)
    <3>1. PICK c \in Commands : /\ Goto(t, "serving", IF c.kind = "read" THEN "r_want" ELSE "w_want")
                                /\ op' = [op EXCEPT ![t] = c]
      BY <2>2 DEF Receive
    <3>2. pc' \in [Threads -> LockPlaces \cup Elsewhere]
      BY <3>1 DEF Goto, TypeOK, LockPlaces
    <3>3. op' \in [Threads -> Commands \cup [kind : {"none", "register", "cleanup", "shutdown"}]]
      BY <3>1 DEF TypeOK
    <3>4. requests' \in 0..MaxRequests
      BY <2>2 DEF Receive, TypeOK
    <3> QED
      BY <2>2, <3>2, <3>3, <3>4 DEF Receive, TypeOK, history
  <2>3. CASE HangUp(t)
    BY <1>7, <2>3 DEF HangUp, Goto, TypeOK, LockPlaces, history
  <2>4. CASE Operation(t)
    <3>1. db' \in Db /\ openFds' \subseteq Fds
      BY <1>7, <2>4, OperationEffect, OperationIsCommit DEF TypeOK
    <3> QED
      BY <1>7, <2>4, <3>1, OperationIsCommit, CommitTypes
  <2>5. CASE Close(t)
    BY <1>7, <2>5 DEF Close, Goto, TypeOK, Elsewhere, history
  <2>6. CASE EndRead(t)
    BY <1>7, <2>6 DEF EndRead, Goto, TypeOK, LockPlaces, history, NoOp
  <2> QED
    BY <1>7, <2>1, <2>2, <2>3, <2>4, <2>5, <2>6 DEF ClientStep, Operation
<1>8. ASSUME NEW t \in Threads, LockStep(t) PROVE TypeOK'
  <2>1. pc' \in [Threads -> LockPlaces \cup Elsewhere]
    BY <1>8 DEF LockStep, TypeOK, LockPlaces, Elsewhere
  <2> QED
    BY <1>8, <2>1 DEF LockStep, TypeOK, history
<1> QED
  BY <1>1, <1>2, <1>3, <1>4, <1>5, <1>6, <1>7, <1>8 DEF Next, Quiet

(* What a thread serves fits where it is. *)
WriterKinds == {"register", "create", "join", "leave", "connect", "disconnect", "login", "cleanup"}
Fits(t, place, kind) ==
  /\ place \notin {"accept", "create", "exited"}
  /\ kind \in CASE place \in {"w_want", "w_in"} -> WriterKinds
                [] place \in {"r_want", "r_first", "r_entered", "r_in"} -> {"read"}
                [] OTHER -> {"none"}

LEMMA FitsPlace ==
  OpFitsPlace <=>
    /\ pc[Main] \in {"accept", "create", "w_want", "w_in", "closing", "exited"}
    /\ op[Main].kind = IF pc[Main] \in {"w_want", "w_in"} THEN "shutdown" ELSE "none"
    /\ \A t \in ClientThreads : Fits(t, pc[t], op[t].kind)
BY DEF OpFitsPlace, Fits, WriterKinds

MainFits(place, kind) ==
  /\ place \in {"accept", "create", "w_want", "w_in", "closing", "exited"}
  /\ kind = IF place \in {"w_want", "w_in"} THEN "shutdown" ELSE "none"

(* It is enough to look at the thread that moves. *)
LEMMA ClientFits ==
  ASSUME TypeOK, OpFitsPlace, NEW t \in ClientThreads,
         NEW place, pc' = [pc EXCEPT ![t] = place],
         NEW o, NEW kind, o.kind = kind, op' = [op EXCEPT ![t] = o], Fits(t, place, kind)
  PROVE  OpFitsPlace'
<1>1. pc'[Main] = pc[Main] /\ op'[Main] = op[Main]
  BY MainIsNoClient DEF TypeOK
<1>2. \A u \in ClientThreads : Fits(u, pc'[u], op'[u].kind)
  <2> SUFFICES ASSUME NEW u \in ClientThreads PROVE Fits(u, pc'[u], op'[u].kind)
    OBVIOUS
  <2>1. CASE u = t
    BY <2>1, MainIsNoClient DEF TypeOK
  <2>2. CASE u # t
    <3>1. pc'[u] = pc[u] /\ op'[u] = op[u]
      BY <2>2, MainIsNoClient DEF TypeOK
    <3>2. Fits(u, pc[u], op[u].kind)
      BY FitsPlace
    <3> QED
      BY <3>1, <3>2
  <2> QED
    BY <2>1, <2>2
<1> QED
  BY <1>1, <1>2 DEF OpFitsPlace, Fits, WriterKinds

LEMMA MainKeepsFit ==
  ASSUME TypeOK, OpFitsPlace, NEW place, pc' = [pc EXCEPT ![Main] = place],
         NEW o, NEW kind, o.kind = kind, op' = [op EXCEPT ![Main] = o], MainFits(place, kind)
  PROVE  OpFitsPlace'
<1>1. pc'[Main] = place /\ op'[Main] = o
  BY MainIsNoClient DEF TypeOK
<1>2. \A u \in ClientThreads : Fits(u, pc'[u], op'[u].kind)
  <2> SUFFICES ASSUME NEW u \in ClientThreads PROVE Fits(u, pc'[u], op'[u].kind)
    OBVIOUS
  <2>1. pc'[u] = pc[u] /\ op'[u] = op[u]
    BY MainIsNoClient DEF TypeOK
  <2>2. Fits(u, pc[u], op[u].kind)
    BY FitsPlace
  <2> QED
    BY <2>1, <2>2
<1> QED
  BY <1>1, <1>2 DEF OpFitsPlace, Fits, WriterKinds, MainFits

LEMMA SameOp == ASSUME TypeOK, NEW t \in Threads PROVE op = [op EXCEPT ![t] = op[t]]
BY DEF TypeOK

LEMMA CommandKind ==
  ASSUME NEW c \in Commands
  PROVE  c.kind = "read" \/ c.kind \in WriterKinds
BY DEF Commands, WriterKinds

(* The places between which a step of the protocol takes a thread. *)
LockMove(from, to) ==
  \/ from = "w_want" /\ to = "w_in"
  \/ from = "r_want" /\ to \in {"r_first", "r_entered"}
  \/ from = "r_first" /\ to = "r_entered"
  \/ from = "r_entered" /\ to = "r_in"
  \/ from = "x_want" /\ to \in {"x_last", "x_exit"}
  \/ from = "x_last" /\ to = "x_exit"
  \/ from = "x_exit" /\ to = "serving"

LEMMA LockStepMoves ==
  ASSUME NEW t \in Threads, LockStep(t)
  PROVE  \E place : pc' = [pc EXCEPT ![t] = place] /\ LockMove(pc[t], place)
<1> USE DEF LockMove
<1>0. lockPc[t] \in LockPlaces => lockPc[t] = pc[t]
  BY DEF lockPc, LockPlaces
<1>1. CASE pc' = [pc EXCEPT ![t] = "w_in"] /\ L!BeginWrite(t)
  BY <1>0, <1>1 DEF L!BeginWrite, L!Goto, LockPlaces
<1>2. CASE pc' = [pc EXCEPT ![t] = "r_first"] /\ L!CountIn(t)
  BY <1>0, <1>2 DEF L!CountIn, L!Goto, LockPlaces
<1>3. CASE pc' = [pc EXCEPT ![t] = "r_entered"] /\ L!CountIn(t)
  BY <1>0, <1>3 DEF L!CountIn, L!Goto, LockPlaces
<1>4. CASE pc' = [pc EXCEPT ![t] = "r_entered"] /\ L!FirstReaderLocks(t)
  BY <1>0, <1>4 DEF L!FirstReaderLocks, L!Goto, LockPlaces
<1>5. CASE pc' = [pc EXCEPT ![t] = "r_in"] /\ L!BeginRead(t)
  BY <1>0, <1>5 DEF L!BeginRead, L!Goto, LockPlaces
<1>6. CASE pc' = [pc EXCEPT ![t] = "x_last"] /\ L!CountOut(t)
  BY <1>0, <1>6 DEF L!CountOut, L!Goto, LockPlaces
<1>7. CASE pc' = [pc EXCEPT ![t] = "x_exit"] /\ L!CountOut(t)
  BY <1>0, <1>7 DEF L!CountOut, L!Goto, LockPlaces
<1>8. CASE pc' = [pc EXCEPT ![t] = "x_exit"] /\ L!LastReaderUnlocks(t)
  BY <1>0, <1>8 DEF L!LastReaderUnlocks, L!Goto, LockPlaces
<1>9. CASE pc' = [pc EXCEPT ![t] = "serving"] /\ L!ReleaseMutex(t)
  BY <1>0, <1>9 DEF L!ReleaseMutex, L!Goto, LockPlaces
<1> QED
  BY <1>1, <1>2, <1>3, <1>4, <1>5, <1>6, <1>7, <1>8, <1>9 DEF LockStep

LEMMA FitKept == TypeOK /\ OpFitsPlace /\ [Next]_vars => OpFitsPlace'
<1> SUFFICES ASSUME TypeOK, OpFitsPlace, [Next]_vars PROVE OpFitsPlace'
  OBVIOUS
<1> USE MainIsNoClient
<1>0. /\ pc \in [Threads -> LockPlaces \cup Elsewhere]
      /\ MainFits(pc[Main], op[Main].kind) /\ \A t \in ClientThreads : Fits(t, pc[t], op[t].kind)
  BY FitsPlace DEF MainFits, TypeOK
<1>1. CASE UNCHANGED vars
  BY <1>1 DEF vars, OpFitsPlace
<1>2. CASE Accept
  <2>1. PICK place \in {"accept", "create"} : pc[Main] = "accept" /\ pc' = [pc EXCEPT ![Main] = place]
    BY <1>2 DEF Accept, Goto
  <2>2. op' = [op EXCEPT ![Main] = op[Main]]
    BY <1>2, SameOp DEF Accept
  <2>3. MainFits(place, op[Main].kind)
    BY <1>0, <2>1 DEF MainFits
  <2> QED
    BY <2>1, <2>2, <2>3, MainKeepsFit
<1>3. CASE CreateThread
  <2>1. PICK t \in ClientThreads : /\ pc[t] = "unborn" /\ pc[Main] = "create" /\ op' = op
                                   /\ pc' = [pc EXCEPT ![Main] = "accept", ![t] = "born"]
    BY <1>3 DEF CreateThread, Unborn
  <2>2. pc'[Main] = "accept" /\ pc'[t] = "born" /\ \A u \in ClientThreads \ {t} : pc'[u] = pc[u]
    BY <1>0, <2>1
  <2>3. MainFits("accept", op[Main].kind) /\ Fits(t, "born", op[t].kind)
    BY <1>0, <2>1 DEF MainFits, Fits
  <2>4. \A u \in ClientThreads : Fits(u, pc'[u], op'[u].kind)
    BY <1>0, <2>1, <2>2, <2>3
  <2>5. MainFits(pc'[Main], op'[Main].kind)
    BY <2>1, <2>2, <2>3
  <2> QED
    BY <2>4, <2>5 DEF OpFitsPlace, Fits, WriterKinds, MainFits
<1>4. CASE Interrupt
  <2>1. MainFits("w_want", "shutdown")
    BY DEF MainFits
  <2> QED
    BY <1>4, <2>1, MainKeepsFit DEF Interrupt
<1>5. CASE FreeAll
  <2>1. MainFits("closing", "none")
    BY DEF MainFits
  <2> QED
    BY <1>5, <2>1, MainKeepsFit DEF FreeAll, Commit, Goto, NoOp
<1>6. CASE Exit
  <2>1. MainFits("exited", op[Main].kind)
    BY <1>0, <1>6 DEF MainFits, Exit, Goto
  <2>2. op' = [op EXCEPT ![Main] = op[Main]]
    BY <1>6, SameOp DEF Exit
  <2> QED
    BY <1>6, <2>1, <2>2, MainKeepsFit DEF Exit, Goto
<1>7. ASSUME NEW t \in ClientThreads, ClientStep(t) PROVE OpFitsPlace'
  <2>1. CASE Start(t)
    <3>1. Fits(t, "w_want", "register")
      BY DEF Fits, WriterKinds
    <3> QED
      BY <2>1, <3>1, ClientFits DEF Start, Goto
  <2>2. CASE Receive(t)
    <3>1. PICK c \in Commands : /\ Goto(t, "serving", IF c.kind = "read" THEN "r_want" ELSE "w_want")
                                /\ op' = [op EXCEPT ![t] = c]
      BY <2>2 DEF Receive
    <3>2. Fits(t, IF c.kind = "read" THEN "r_want" ELSE "w_want", c.kind)
      BY CommandKind DEF Fits, WriterKinds
    <3> QED
      BY <3>1, <3>2, ClientFits DEF Goto
  <2>3. CASE HangUp(t)
    <3>1. Fits(t, "w_want", "cleanup")
      BY DEF Fits, WriterKinds
    <3> QED
      BY <2>3, <3>1, ClientFits DEF HangUp, Goto
  <2>4. CASE Operation(t)
    <3>1. Fits(t, "serving", "none") /\ Fits(t, "closing", "none")
      BY DEF Fits
    <3> QED
      BY <2>4, <3>1, OperationIsCommit, ClientFits DEF Commit, Goto, NoOp
  <2>5. CASE Close(t)
    <3>1. Fits(t, "done", op[t].kind)
      BY <1>0, <2>5 DEF Close, Goto, Fits
    <3>2. op' = [op EXCEPT ![t] = op[t]]
      BY <2>5, SameOp DEF Close
    <3> QED
      BY <2>5, <3>1, <3>2, ClientFits DEF Close, Goto
  <2>6. CASE EndRead(t)
    <3>1. Fits(t, "x_want", "none")
      BY DEF Fits
    <3> QED
      BY <2>6, <3>1, ClientFits DEF EndRead, Goto, NoOp
  <2> QED
    BY <1>7, <2>1, <2>2, <2>3, <2>4, <2>5, <2>6 DEF ClientStep, Operation
<1>8. ASSUME NEW t \in Threads, LockStep(t) PROVE OpFitsPlace'
  <2>1. op' = [op EXCEPT ![t] = op[t]]
    BY <1>8, SameOp DEF LockStep
  <2>3. PICK place : pc' = [pc EXCEPT ![t] = place] /\ LockMove(pc[t], place)
    BY <1>8, LockStepMoves
  <2>4. CASE t = Main
    <3>1. MainFits(place, op[Main].kind)
      BY <1>0, <2>3, <2>4 DEF MainFits, LockMove
    <3> QED
      BY <2>1, <2>3, <2>4, <3>1, MainKeepsFit
  <2>5. CASE t \in ClientThreads
    <3>1. Fits(t, place, op[t].kind)
      BY <1>0, <2>3, <2>5 DEF Fits, LockMove
    <3> QED
      BY <2>1, <2>3, <2>5, <3>1, ClientFits
  <2> QED
    BY <2>4, <2>5 DEF Threads
<1> QED
  BY <1>1, <1>2, <1>3, <1>4, <1>5, <1>6, <1>7, <1>8 DEF Next, Quiet

-----------------------------------------------------------------------------
(* Once a thread has read its descriptor, it keeps it. *)
Settled(t) == pc[t] \notin {"unborn", "born"}

LEMMA SettledForGood ==
  ASSUME TypeOK, [Next]_vars, NEW u \in ClientThreads, Settled(u)
  PROVE  Settled(u)' /\ client'[u] = client[u] /\ given'[u] = given[u]
<1> USE MainIsNoClient DEF Settled, Goto
<1>0. pc \in [Threads -> LockPlaces \cup Elsewhere] /\ client \in [ClientThreads -> Fd] /\ given \in [ClientThreads -> Fd]
  BY DEF TypeOK
<1>1. CASE UNCHANGED vars
  BY <1>1 DEF vars, history
<1>2. CASE Accept
  BY <1>0, <1>2 DEF Accept, history
<1>3. CASE CreateThread
  BY <1>0, <1>3 DEF CreateThread, Unborn
<1>4. CASE Interrupt
  BY <1>0, <1>4 DEF Interrupt, history
<1>5. CASE FreeAll
  BY <1>0, <1>5 DEF FreeAll, Commit
<1>6. CASE Exit
  BY <1>0, <1>6 DEF Exit, history
<1>7. ASSUME NEW t \in ClientThreads, ClientStep(t) PROVE Settled(u)' /\ client'[u] = client[u] /\ given'[u] = given[u]
  <2>1. CASE Start(t)
    BY <1>0, <2>1 DEF Start, history
  <2>2. CASE Receive(t)
    BY <1>0, <2>2 DEF Receive, history
  <2>3. CASE HangUp(t)
    BY <1>0, <2>3 DEF HangUp, history
  <2>4. CASE Operation(t)
    BY <1>0, <2>4, OperationIsCommit DEF Commit
  <2>5. CASE Close(t)
    BY <1>0, <2>5 DEF Close, history
  <2>6. CASE EndRead(t)
    BY <1>0, <2>6 DEF EndRead, history
  <2> QED
    BY <1>7, <2>1, <2>2, <2>3, <2>4, <2>5, <2>6 DEF ClientStep, Operation
<1>8. ASSUME NEW t \in Threads, LockStep(t) PROVE Settled(u)' /\ client'[u] = client[u] /\ given'[u] = given[u]
  BY <1>0, <1>8 DEF LockStep, history
<1> QED
  BY <1>1, <1>2, <1>3, <1>4, <1>5, <1>6, <1>7, <1>8 DEF Next, Quiet

(* A misread descriptor stays misread, and a changed name changed. *)
LEMMA MisreadForGood == TypeOK /\ [Next]_vars /\ NobodyMisread' => NobodyMisread
<1> SUFFICES ASSUME TypeOK, [Next]_vars, NobodyMisread', NEW t \in ClientThreads, Settled(t)
             PROVE  client[t] = given[t]
  BY DEF NobodyMisread, Settled
<1>1. Settled(t)' /\ client'[t] = client[t] /\ given'[t] = given[t]
  BY SettledForGood
<1> QED
  BY <1>1 DEF NobodyMisread, Settled

LEMMA RenamedForGood == [Next]_vars /\ ~renamed' => ~renamed
<1> SUFFICES ASSUME [Next]_vars, ~renamed' PROVE ~renamed
  OBVIOUS
<1>1. ASSUME NEW t, ClientStep(t) PROVE ~renamed
  <2>1. CASE Operation(t)
    BY <2>1, OperationIsCommit DEF Commit
  <2> QED
    BY <1>1, <2>1 DEF ClientStep, Operation, Start, Receive, HangUp, Close, EndRead, history
<1>2. CASE FreeAll
  BY <1>2 DEF FreeAll, Commit
<1>3. CASE Accept \/ CreateThread \/ Interrupt \/ Exit \/ UNCHANGED vars
  BY <1>3 DEF Accept, CreateThread, Interrupt, Exit, vars, history
<1>4. ASSUME NEW t, LockStep(t) PROVE ~renamed
  BY <1>4 DEF LockStep, history
<1> QED
  BY <1>1, <1>2, <1>3, <1>4 DEF Next, Quiet

-----------------------------------------------------------------------------
(* The part a thread plays depends on its place and its operation. *)
AliveAt(place) == place \notin {"unborn", "done"}
ComingAt(place, kind) == AliveAt(place) /\ (place = "born" \/ kind = "register")
RegisteredAt(place, kind) == place \in LockPlaces \cup {"serving"} /\ kind # "register"
SamePart(place, kind, place2, kind2) ==
  /\ AliveAt(place) <=> AliveAt(place2)
  /\ ComingAt(place, kind) <=> ComingAt(place2, kind2)
  /\ RegisteredAt(place, kind) <=> RegisteredAt(place2, kind2)

KeepsPart(t) == SamePart(pc'[t], op'[t].kind, pc[t], op[t].kind)

LEMMA Parts ==
  ASSUME NEW t \in ClientThreads
  PROVE  /\ t \in Alive <=> AliveAt(pc[t])
         /\ t \in Coming <=> ComingAt(pc[t], op[t].kind)
         /\ Registered(t) <=> RegisteredAt(pc[t], op[t].kind)
BY DEF Alive, Coming, Registered, AliveAt, ComingAt, RegisteredAt

LEMMA ClientKeepsParts ==
  ASSUME TypeOK, NEW t \in ClientThreads, NEW place, pc' = [pc EXCEPT ![t] = place],
         NEW o, NEW kind, o.kind = kind, op' = [op EXCEPT ![t] = o], 
         SamePart(place, kind, pc[t], op[t].kind)
  PROVE  (\A u \in ClientThreads : KeepsPart(u)) /\ pc'[Main] = pc[Main]
<1>1. pc \in [Threads -> LockPlaces \cup Elsewhere] /\ DOMAIN op = Threads
  BY DEF TypeOK
<1>2. pc'[Main] = pc[Main] /\ pc'[t] = place /\ op'[t] = o
  BY <1>1, MainIsNoClient
<1>3. ASSUME NEW u \in ClientThreads PROVE KeepsPart(u)
  <2>1. CASE u = t
    BY <1>2, <2>1 DEF KeepsPart
  <2>2. CASE u # t
    <3>1. pc'[u] = pc[u] /\ op'[u] = op[u]
      BY <1>1, <2>2, MainIsNoClient
    <3> QED
      BY <3>1 DEF KeepsPart, SamePart
  <2> QED
    BY <2>1, <2>2
<1> QED
  BY <1>2, <1>3

LEMMA MainKeepsParts ==
  ASSUME TypeOK, NEW place, pc' = [pc EXCEPT ![Main] = place],
         op' = op \/ \E o : op' = [op EXCEPT ![Main] = o]
  PROVE  (\A u \in ClientThreads : KeepsPart(u)) /\ pc'[Main] = place
<1>1. pc \in [Threads -> LockPlaces \cup Elsewhere] /\ DOMAIN op = Threads
  BY DEF TypeOK
<1>2. \A u \in ClientThreads : pc'[u] = pc[u] /\ op'[u] = op[u]
  BY <1>1, MainIsNoClient
<1> QED
  BY <1>1, <1>2, MainIsNoClient DEF KeepsPart, SamePart

SocketsKept(d, e) == /\ Len(e.users) = Len(d.users)
                     /\ \A j \in 1..Len(d.users) : e.users[j].sock = d.users[j].sock

(* Most steps change nobody's part, no descriptor and no socket in the list. *)
Quietly == /\ \A u \in ClientThreads : KeepsPart(u)
           /\ UNCHANGED <<given, openFds, newClient>>
           /\ Freed' <=> Freed
           /\ pc'[Main] = "create" => pc[Main] = "create"
           /\ SocketsKept(db, db')

LEMMA UpdatesQuietly ==
  ASSUME TypeOK, NEW t \in ClientThreads, UpdateOp(t) \/ Login(t)
  PROVE  SocketsKept(db, db')
<1>1. CASE UpdateOp(t)
  <2>1. Updates(db, db', client[t])
    BY <1>1, OperationEffect DEF UpdateOp, Operation
  <2> QED
    BY <2>1 DEF Updates, SocketsKept, OneRecordChanges, RecordChanges
<1>2. CASE Login(t)
  <2>1. RecordChanges(db, db', Me(t))
    BY <1>2, OperationEffect DEF Operation
  <2> QED
    BY <2>1 DEF SocketsKept, RecordChanges
<1> QED
  BY <1>1, <1>2

LEMMA ThreadsQuietly ==
  ASSUME TypeOK, OpFitsPlace, NEW t \in ClientThreads,
         Start(t) \/ Receive(t) \/ HangUp(t) \/ EndRead(t) \/ UpdateOp(t) \/ Login(t)
  PROVE  Quietly
<1>0. Fits(t, pc[t], op[t].kind)
  BY FitsPlace
<1>1. CASE Start(t)
  <2>1. SamePart("w_want", "register", pc[t], op[t].kind)
    BY <1>0, <1>1 DEF Start, Goto, Fits, SamePart, AliveAt, ComingAt, RegisteredAt, LockPlaces
  <2>2. (\A u \in ClientThreads : KeepsPart(u)) /\ pc'[Main] = pc[Main]
    BY <1>1, <2>1, ClientKeepsParts DEF Start, Goto
  <2> QED
    BY <1>1, <2>2 DEF Start, Quietly, Freed, SocketsKept, history
<1>2. CASE Receive(t)
  <2>1. PICK c \in Commands : /\ Goto(t, "serving", IF c.kind = "read" THEN "r_want" ELSE "w_want")
                              /\ op' = [op EXCEPT ![t] = c]
    BY <1>2 DEF Receive
  <2>2. SamePart(IF c.kind = "read" THEN "r_want" ELSE "w_want", c.kind, pc[t], op[t].kind)
    <3>1. c.kind # "register"
      BY DEF Commands
    <3> QED
      BY <1>0, <2>1, <3>1 DEF Goto, Fits, SamePart, AliveAt, ComingAt, RegisteredAt, LockPlaces
  <2>3. (\A u \in ClientThreads : KeepsPart(u)) /\ pc'[Main] = pc[Main]
    BY <2>1, <2>2, ClientKeepsParts DEF Goto
  <2> QED
    BY <1>2, <2>3 DEF Receive, Quietly, Freed, SocketsKept, history
<1>3. CASE HangUp(t)
  <2>1. SamePart("w_want", "cleanup", pc[t], op[t].kind)
    BY <1>0, <1>3 DEF HangUp, Goto, Fits, SamePart, AliveAt, ComingAt, RegisteredAt, LockPlaces
  <2>2. (\A u \in ClientThreads : KeepsPart(u)) /\ pc'[Main] = pc[Main]
    BY <1>3, <2>1, ClientKeepsParts DEF HangUp, Goto
  <2> QED
    BY <1>3, <2>2 DEF HangUp, Quietly, Freed, SocketsKept, history
<1>4. CASE EndRead(t)
  <2>1. SamePart("x_want", "none", pc[t], op[t].kind)
    BY <1>0, <1>4 DEF EndRead, Goto, Fits, SamePart, AliveAt, ComingAt, RegisteredAt, LockPlaces
  <2>2. (\A u \in ClientThreads : KeepsPart(u)) /\ pc'[Main] = pc[Main]
    BY <1>4, <2>1, ClientKeepsParts DEF EndRead, Goto, NoOp
  <2> QED
    BY <1>4, <2>2 DEF EndRead, Quietly, Freed, SocketsKept, history
<1>5. CASE UpdateOp(t) \/ Login(t)
  <2>1. PICK kind \in {"create", "join", "leave", "connect", "disconnect", "login"} :
           \E newDb : Commit(t, kind, newDb, "serving")
    BY <1>5, Zenon DEF UpdateOp, Create, Join, Leave, Connect, Disconnect, Login
  <2>2. SamePart("serving", "none", pc[t], op[t].kind)
    BY <2>1 DEF Commit, Goto, SamePart, AliveAt, ComingAt, RegisteredAt, LockPlaces
  <2>3. (\A u \in ClientThreads : KeepsPart(u)) /\ pc'[Main] = pc[Main]
    BY <2>1, <2>2, ClientKeepsParts DEF Commit, Goto, NoOp
  <2>4. UNCHANGED openFds
    BY <1>5, OperationIsCommit DEF UpdateOp, Operation
  <2> QED
    BY <1>5, <2>1, <2>3, <2>4, UpdatesQuietly DEF Commit, Quietly, Freed
<1> QED
  BY <1>1, <1>2, <1>3, <1>4, <1>5

LEMMA OthersQuietly ==
  ASSUME TypeOK, OpFitsPlace,
         UNCHANGED vars \/ Interrupt \/ Exit \/ \E t \in Threads : LockStep(t)
  PROVE  Quietly
<1>1. CASE UNCHANGED vars
  BY <1>1 DEF vars, history, Quietly, KeepsPart, SamePart, Freed, SocketsKept
<1>2. CASE Interrupt
  <2>1. (\A u \in ClientThreads : KeepsPart(u)) /\ pc'[Main] = "w_want"
    BY <1>2, MainKeepsParts DEF Interrupt
  <2> QED
    BY <1>2, <2>1 DEF Interrupt, Quietly, Freed, SocketsKept, history
<1>3. CASE Exit
  <2>1. (\A u \in ClientThreads : KeepsPart(u)) /\ pc'[Main] = "exited"
    BY <1>3, MainKeepsParts DEF Exit, Goto
  <2> QED
    BY <1>3, <2>1 DEF Exit, Goto, Quietly, Freed, SocketsKept, history
<1>4. ASSUME NEW t \in Threads, LockStep(t) PROVE Quietly
  <2>1. PICK place : pc' = [pc EXCEPT ![t] = place] /\ LockMove(pc[t], place)
    BY <1>4, LockStepMoves
  <2>2. UNCHANGED <<op, given, openFds, newClient, db>>
    BY <1>4 DEF LockStep, history
  <2>3. CASE t = Main
    <3>1. (\A u \in ClientThreads : KeepsPart(u)) /\ pc'[Main] = place
      BY <2>1, <2>2, <2>3, MainKeepsParts
    <3>2. pc[Main] = "w_want" /\ place = "w_in"
      BY <2>1, <2>3, FitsPlace DEF LockMove
    <3> QED
      BY <2>2, <3>1, <3>2 DEF Quietly, Freed, SocketsKept
  <2>4. CASE t \in ClientThreads
    <3>1. SamePart(place, op[t].kind, pc[t], op[t].kind)
      BY <2>1 DEF LockMove, SamePart, AliveAt, ComingAt, RegisteredAt, LockPlaces
    <3>2. op' = [op EXCEPT ![t] = op[t]]
      BY <2>2, SameOp, MainIsNoClient
    <3>3. (\A u \in ClientThreads : KeepsPart(u)) /\ pc'[Main] = pc[Main]
      BY <2>1, <2>4, <3>1, <3>2, ClientKeepsParts
    <3> QED
      BY <2>2, <3>3 DEF Quietly, Freed, SocketsKept
  <2> QED
    BY <2>3, <2>4 DEF Threads
<1> QED
  BY <1>1, <1>2, <1>3, <1>4

(* Every step is quiet but these. *)
LEMMA QuietSteps ==
  ASSUME TypeOK, OpFitsPlace, [Next]_vars
  PROVE  \/ Quietly
         \/ Accept \/ CreateThread \/ FreeAll
         \/ \E t \in ClientThreads : Register(t) \/ Cleanup(t) \/ Close(t)
<1>1. ASSUME NEW t \in ClientThreads, ClientStep(t), ~(Register(t) \/ Cleanup(t) \/ Close(t))
      PROVE  Quietly
  BY <1>1, ThreadsQuietly DEF ClientStep, UpdateOp
<1> QED
  BY <1>1, OthersQuietly DEF Next, Quiet

-----------------------------------------------------------------------------
(* The invariants over the list of users, by its positions. *)
Us == 1..Len(db.users)

LEMMA ListOfUsers ==
  ASSUME TypeOK
  PROVE  /\ Len(db.users) \in Nat /\ DOMAIN db.users = Us
         /\ \A u : u \in Users <=> \E i \in Us : u = db.users[i]
         /\ \A i \in Us : db.users[i] \in UserRecord
BY DbFields DEF TypeOK, Us, Users, ToSet

(* Who has which descriptor: OwnDescriptors and LiveSockets of one state. *)
Descriptors ==
  /\ \A t, u \in Alive : given[t] = given[u] => t = u
  /\ \A t \in Alive : ~Freed \/ t \in Coming => given[t] \in openFds
  /\ pc[Main] = "create" => newClient \in openFds /\ \A t \in Alive : given[t] # newClient
  /\ \A i \in Us : \E t \in ClientThreads : Registered(t) /\ given[t] = db.users[i].sock
  /\ \A i \in Us : db.users[i].sock \in openFds
  /\ \A i, j \in Us : db.users[i].sock = db.users[j].sock => i = j

LEMMA RegisteredSettled ==
  ASSUME OpFitsPlace, NEW t \in ClientThreads, Registered(t)
  PROVE  Settled(t) /\ t \in Alive /\ t \notin Coming
BY DEF Registered, Settled, Alive, Coming, LockPlaces

LEMMA DescriptorsAre ==
  TypeOK /\ OpFitsPlace => ((OwnDescriptors /\ LiveSockets) <=> (NobodyMisread => Descriptors))
<1> SUFFICES ASSUME TypeOK, OpFitsPlace, NobodyMisread PROVE (OwnDescriptors /\ LiveSockets) <=> Descriptors
  BY DEF OwnDescriptors, LiveSockets
<1>1. \A t \in ClientThreads : Registered(t) => client[t] = given[t]
  BY RegisteredSettled DEF NobodyMisread, Settled
<1>2. (\A u \in Users : \E t \in ClientThreads : Registered(t) /\ client[t] = u.sock)
        <=> \A i \in Us : \E t \in ClientThreads : Registered(t) /\ given[t] = db.users[i].sock
  BY <1>1, ListOfUsers
<1>3. (\A u \in Users : u.sock \in openFds) <=> \A i \in Us : db.users[i].sock \in openFds
  BY ListOfUsers
<1>4. (\A t \in IF Freed THEN Coming ELSE Alive : given[t] \in openFds)
        <=> \A t \in Alive : ~Freed \/ t \in Coming => given[t] \in openFds
  BY DEF Coming
<1>5. DOMAIN db.users = Us
  BY ListOfUsers
<1> QED
  BY <1>2, <1>3, <1>4, <1>5 DEF OwnDescriptors, LiveSockets, Descriptors

LEMMA QuietKeepsDescriptors ==
  ASSUME Quietly, Descriptors
  PROVE  Descriptors'
<1>1. /\ Alive' = Alive /\ Coming' = Coming
      /\ \A t \in ClientThreads : Registered(t)' <=> Registered(t)
  BY DEF Quietly, KeepsPart, SamePart, AliveAt, ComingAt, RegisteredAt, Alive, Coming, Registered
<1>2. Us' = Us /\ \A i \in Us : db'.users[i].sock = db.users[i].sock
  BY DEF Quietly, SocketsKept, Us
<1> QED
  BY <1>1, <1>2 DEF Quietly, Descriptors

LEMMA AcceptKeepsDescriptors ==
  ASSUME TypeOK, OpFitsPlace, Descriptors, Accept
  PROVE  Descriptors'
<1>1. PICK place \in {"accept", "create"} :
        /\ pc[Main] = "accept" /\ pc' = [pc EXCEPT ![Main] = place]
        /\ place = "create" => newClient' # NoFd
  BY DEF Accept, Goto
<1>2. (\A u \in ClientThreads : KeepsPart(u)) /\ pc'[Main] = place
  BY <1>1, MainKeepsParts DEF Accept
<1>3. /\ Alive' = Alive /\ Coming' = Coming
      /\ \A t \in ClientThreads : Registered(t)' <=> Registered(t)
  BY <1>2 DEF KeepsPart, SamePart, AliveAt, ComingAt, RegisteredAt, Alive, Coming, Registered
<1>4. ~Freed
  BY <1>1 DEF Freed
<1>5. UNCHANGED <<db, given>> /\ Us' = Us
  BY DEF Accept, history, Us
<1>6. openFds' = openFds \cup ({newClient'} \ {NoFd}) /\ newClient' \notin openFds \ {NoFd}
  BY AcceptIsFree DEF Accept
<1>7. openFds \subseteq Fds /\ NoFd \notin Fds
  BY DEF TypeOK, NoFd
<1>8. pc'[Main] = "create" => newClient' \in openFds' /\ \A t \in Alive : given[t] # newClient'
  BY <1>1, <1>2, <1>4, <1>6, <1>7 DEF Descriptors
<1> QED
  BY <1>3, <1>4, <1>5, <1>6, <1>8 DEF Descriptors

LEMMA CreateKeepsDescriptors ==
  ASSUME TypeOK, OpFitsPlace, Descriptors, CreateThread
  PROVE  Descriptors'
<1>1. PICK t \in ClientThreads :
        /\ pc[t] = "unborn" /\ pc[Main] = "create"
        /\ pc' = [pc EXCEPT ![Main] = "accept", ![t] = "born"]
        /\ given' = [given EXCEPT ![t] = newClient]
        /\ UNCHANGED <<op, openFds, newClient, db>>
  BY DEF CreateThread, Unborn
<1>2. pc'[Main] = "accept" /\ pc'[t] = "born" /\ given'[t] = newClient
      /\ \A u \in ClientThreads \ {t} : pc'[u] = pc[u] /\ given'[u] = given[u]
  BY <1>1, MainIsNoClient DEF TypeOK
<1>3. Alive' = Alive \cup {t} /\ t \notin Alive
  BY <1>1, <1>2 DEF Alive
<1>4. \A u \in ClientThreads : Registered(u)' <=> Registered(u)
  BY <1>1, <1>2 DEF Registered, LockPlaces
<1>5. ~Registered(t)
  BY <1>1 DEF Registered, LockPlaces
<1>6. Us' = Us
  BY <1>1 DEF Us
<1>7. \A u \in Alive : u \in ClientThreads /\ u # t /\ given'[u] = given[u]
  BY <1>2, <1>3 DEF Alive
<1>8. ~Freed
  BY <1>1 DEF Freed
<1>9. newClient \in openFds /\ \A u \in Alive : given[u] # newClient
  BY <1>1 DEF Descriptors
<1>10. \A u, v \in Alive' : given'[u] = given'[v] => u = v
  BY <1>2, <1>3, <1>7, <1>9 DEF Descriptors
<1>11. \A u \in Alive' : given'[u] \in openFds
  BY <1>2, <1>3, <1>7, <1>8, <1>9 DEF Descriptors
<1>12. \A i \in Us : \E u \in ClientThreads : Registered(u)' /\ given'[u] = db.users[i].sock
  <2> SUFFICES ASSUME NEW i \in Us PROVE \E u \in ClientThreads : Registered(u)' /\ given'[u] = db.users[i].sock
    OBVIOUS
  <2>1. PICK u \in ClientThreads : Registered(u) /\ given[u] = db.users[i].sock
    BY DEF Descriptors
  <2> QED
    BY <1>2, <1>4, <1>5, <2>1
<1> QED
  BY <1>1, <1>2, <1>6, <1>10, <1>11, <1>12 DEF Descriptors

LEMMA FreeAllKeepsDescriptors ==
  ASSUME TypeOK, OpFitsPlace, Descriptors, FreeAll
  PROVE  Descriptors'
<1>1. /\ pc[Main] = "w_in" /\ pc' = [pc EXCEPT ![Main] = "closing"]
      /\ op' = [op EXCEPT ![Main] = NoOp]
      /\ db' = EmptyDb /\ UNCHANGED <<given, newClient>>
      /\ openFds' = openFds \ {u.sock : u \in Users}
  BY DEF FreeAll, Commit, Goto, Users
<1>2. (\A u \in ClientThreads : KeepsPart(u)) /\ pc'[Main] = "closing"
  BY <1>1, MainKeepsParts
<1>3. /\ Alive' = Alive /\ Coming' = Coming
      /\ \A t \in ClientThreads : Registered(t)' <=> Registered(t)
  BY <1>2 DEF KeepsPart, SamePart, AliveAt, ComingAt, RegisteredAt, Alive, Coming, Registered
<1>4. Us' = {} /\ Freed' /\ ~Freed
  BY <1>1, <1>2 DEF Us, EmptyDb, Freed
<1>5. ASSUME NEW t \in Coming PROVE given[t] \in openFds'
  <2>1. t \in Alive /\ t \in ClientThreads /\ ~Registered(t)
    BY RegisteredSettled DEF Coming, Alive
  <2>2. given[t] \in openFds
    BY <1>4, <2>1 DEF Descriptors
  <2>3. ASSUME NEW i \in Us, db.users[i].sock = given[t] PROVE FALSE
    <3>1. PICK u \in ClientThreads : Registered(u) /\ given[u] = given[t]
      BY <2>3 DEF Descriptors
    <3>2. u = t
      BY <2>1, <3>1, RegisteredSettled DEF Descriptors
    <3> QED
      BY <2>1, <3>1, <3>2
  <2> QED
    BY <1>1, <2>2, <2>3, ListOfUsers
<1> QED
  BY <1>1, <1>2, <1>3, <1>4, <1>5 DEF Descriptors, Coming

LEMMA CloseKeepsDescriptors ==
  ASSUME TypeOK, OpFitsPlace, Descriptors, NEW t \in ClientThreads, Close(t), client[t] = given[t]
  PROVE  Descriptors'
<1>1. /\ pc[t] = "closing" /\ pc' = [pc EXCEPT ![t] = "done"]
      /\ openFds' = openFds \ {given[t]} /\ UNCHANGED <<op, newClient, db, given>>
  BY DEF Close, Goto, history
<1>2. pc'[t] = "done" /\ pc'[Main] = pc[Main] /\ \A u \in ClientThreads \ {t} : pc'[u] = pc[u]
  BY <1>1, MainIsNoClient DEF TypeOK
<1>3. Alive' = Alive \ {t} /\ t \in Alive
  BY <1>1, <1>2 DEF Alive
<1>4. Coming' \subseteq Coming
  BY <1>1, <1>2, <1>3 DEF Coming
<1>5. \A u \in ClientThreads : Registered(u)' <=> Registered(u)
  BY <1>1, <1>2 DEF Registered, LockPlaces
<1>6. ~Registered(t)
  BY <1>1 DEF Registered, LockPlaces
<1>7. Us' = Us /\ (Freed' <=> Freed)
  BY <1>1, <1>2 DEF Us, Freed
<1>8. \A u \in Alive : u # t => given[u] # given[t]
  BY <1>3 DEF Descriptors
<1>9. ASSUME NEW i \in Us PROVE db.users[i].sock # given[t]
  <2>1. PICK u \in ClientThreads : Registered(u) /\ given[u] = db.users[i].sock
    BY DEF Descriptors
  <2> QED
    BY <1>6, <1>8, <2>1, RegisteredSettled
<1> QED
  BY <1>1, <1>2, <1>3, <1>4, <1>5, <1>7, <1>8, <1>9 DEF Descriptors

LEMMA RegisterMoves ==
  ASSUME TypeOK, OpFitsPlace, NEW t \in ClientThreads, Register(t)
  PROVE  /\ t \in Coming /\ Alive' = Alive /\ Coming' = Coming \ {t}
         /\ ~Registered(t) /\ Registered(t)' /\ \A u \in ClientThreads \ {t} : Registered(u)' <=> Registered(u)
         /\ pc'[Main] = pc[Main] /\ UNCHANGED <<given, openFds, newClient, client>>
         /\ Settled(t)
<1>1. /\ pc[t] = "w_in" /\ pc' = [pc EXCEPT ![t] = "serving"]
      /\ op[t].kind = "register" /\ op' = [op EXCEPT ![t] = NoOp]
      /\ UNCHANGED <<given, openFds, newClient, client>>
  BY DEF Register, Commit, Goto
<1>2. /\ pc'[t] = "serving" /\ op'[t].kind = "none" /\ pc'[Main] = pc[Main]
      /\ \A u \in ClientThreads \ {t} : pc'[u] = pc[u] /\ op'[u] = op[u]
  BY <1>1, MainIsNoClient DEF TypeOK, NoOp
<1>3. Alive' = Alive /\ t \in Alive
  BY <1>1, <1>2 DEF Alive
<1>4. Coming' = Coming \ {t} /\ t \in Coming
  BY <1>1, <1>2, <1>3 DEF Coming
<1> QED
  BY <1>1, <1>2, <1>3, <1>4 DEF Registered, LockPlaces, Settled

LEMMA RegisterKeepsDescriptors ==
  ASSUME TypeOK, OpFitsPlace, Descriptors, NEW t \in ClientThreads, Register(t), client[t] = given[t]
  PROVE  Descriptors'
<1>1. /\ t \in Coming /\ Alive' = Alive /\ Coming' = Coming \ {t} /\ t \in Alive
      /\ ~Registered(t) /\ Registered(t)' /\ \A u \in ClientThreads \ {t} : Registered(u)' <=> Registered(u)
      /\ pc'[Main] = pc[Main] /\ UNCHANGED <<given, openFds, newClient>>
  BY RegisterMoves DEF Coming
<1>2. Registers(db, db', given[t])
  BY OperationEffect DEF Operation
<1>3. /\ Len(db.users) \in Nat /\ Len(db'.users) = Len(db.users) + 1 /\ db'.users[1].sock = given[t]
      /\ \A j \in Us : db'.users[j + 1].sock = db.users[j].sock
  BY <1>2, ListOfUsers DEF Registers, Us
<1>4. \A j \in Us' : j = 1 \/ (j - 1 \in Us /\ db'.users[j].sock = db.users[j - 1].sock)
  BY <1>3 DEF Us
<1>5. ASSUME NEW j \in Us PROVE db.users[j].sock # given[t]
  <2>1. PICK u \in ClientThreads : Registered(u) /\ given[u] = db.users[j].sock
    BY DEF Descriptors
  <2> QED
    BY <1>1, <2>1, RegisteredSettled DEF Descriptors
<1>6. given[t] \in openFds
  BY <1>1 DEF Descriptors
<1>7. ASSUME NEW j \in Us'
      PROVE  /\ db'.users[j].sock \in openFds
             /\ \E u \in ClientThreads : Registered(u)' /\ given[u] = db'.users[j].sock
  <2>1. CASE j = 1
    BY <1>1, <1>3, <1>6, <2>1
  <2>2. CASE j # 1
    <3>1. j - 1 \in Us /\ db'.users[j].sock = db.users[j - 1].sock
      BY <1>4, <2>2
    <3>2. PICK u \in ClientThreads : Registered(u) /\ given[u] = db.users[j - 1].sock
      BY <3>1 DEF Descriptors
    <3> QED
      BY <1>1, <3>1, <3>2 DEF Descriptors
  <2> QED
    BY <2>1, <2>2
<1>8. ASSUME NEW i \in Us', NEW j \in Us', db'.users[i].sock = db'.users[j].sock
      PROVE  i = j
  <2>1. CASE i = 1 \/ j = 1
    BY <1>3, <1>4, <1>5, <1>8, <2>1
  <2>2. CASE i # 1 /\ j # 1
    <3>1. i - 1 \in Us /\ j - 1 \in Us /\ db.users[i - 1].sock = db.users[j - 1].sock
      BY <1>4, <1>8, <2>2
    <3>2. i - 1 = j - 1
      BY <3>1 DEF Descriptors
    <3> QED
      BY <1>3, <3>2 DEF Us
  <2> QED
    BY <2>1, <2>2
<1>9. Freed' <=> Freed
  BY <1>1 DEF Freed
<1> QED
  BY <1>1, <1>7, <1>8, <1>9 DEF Descriptors

LEMMA CleanupMoves ==
  ASSUME TypeOK, OpFitsPlace, NEW t \in ClientThreads, Cleanup(t)
  PROVE  /\ Alive' = Alive /\ Coming' = Coming
         /\ Registered(t) /\ ~Registered(t)' /\ \A u \in ClientThreads \ {t} : Registered(u)' <=> Registered(u)
         /\ pc'[Main] = pc[Main] /\ UNCHANGED <<given, openFds, newClient, client>>
<1>1. /\ pc[t] = "w_in" /\ pc' = [pc EXCEPT ![t] = "closing"]
      /\ op[t].kind = "cleanup" /\ op' = [op EXCEPT ![t] = NoOp]
      /\ UNCHANGED <<given, openFds, newClient, client>>
  BY DEF Cleanup, Commit, Goto
<1>2. /\ pc'[t] = "closing" /\ op'[t].kind = "none" /\ pc'[Main] = pc[Main]
      /\ \A u \in ClientThreads \ {t} : pc'[u] = pc[u] /\ op'[u] = op[u]
  BY <1>1, MainIsNoClient DEF TypeOK, NoOp
<1>3. Alive' = Alive
  BY <1>1, <1>2 DEF Alive
<1>4. Coming' = Coming
  BY <1>1, <1>2, <1>3 DEF Coming
<1> QED
  BY <1>1, <1>2, <1>3, <1>4 DEF Registered, LockPlaces

LEMMA CleanupKeepsDescriptors ==
  ASSUME TypeOK, OpFitsPlace, Descriptors, NEW t \in ClientThreads, Cleanup(t), client[t] = given[t]
  PROVE  Descriptors'
<1>1. /\ Alive' = Alive /\ Coming' = Coming
      /\ Registered(t) /\ ~Registered(t)' /\ \A u \in ClientThreads \ {t} : Registered(u)' <=> Registered(u)
      /\ pc'[Main] = pc[Main] /\ UNCHANGED <<given, openFds, newClient>>
  BY CleanupMoves
<1>2. Unregisters(db, db', given[t])
  BY OperationEffect DEF Operation
<1>3. Len(db.users) \in Nat /\ db \in Db
  BY ListOfUsers DEF TypeOK
<1>4. ASSUME NEW j \in Us'
      PROVE  \E k \in Us : /\ db'.users[j] = db.users[k] /\ db.users[k].sock # given[t]
                           /\ LET i == FindUserBySocket(db, given[t])
                              IN  k = IF i = 0 \/ j < i THEN j ELSE j + 1
  <2> DEFINE i == FindUserBySocket(db, given[t])
  <2>1. CASE i = 0
    <3>1. db' = db /\ \A k \in Us : db.users[k].sock # given[t]
      BY <1>2, <1>3, <2>1, FirstOfSocket DEF Unregisters, Us
    <3> QED
      BY <2>1, <3>1 DEF Us
  <2>2. CASE i # 0
    <3>1. i \in Us /\ db.users[i].sock = given[t] /\ Removed(db, db', i)
      BY <1>2, <2>2 DEF Unregisters, Us
    <3> HIDE DEF i
    <3>2. j \in 1..(Len(db.users) - 1) /\ db'.users[j] = db.users[IF j < i THEN j ELSE j + 1]
      BY <3>1 DEF Removed, Us
    <3>3. PICK k \in Us : k = IF j < i THEN j ELSE j + 1
      BY <1>3, <3>2 DEF Us
    <3>4. k # i /\ db'.users[j] = db.users[k]
      BY <3>1, <3>2, <3>3 DEF Us
    <3>5. db.users[k].sock # given[t]
      BY <3>1, <3>4 DEF Descriptors
    <3> QED
      BY <2>2, <3>3, <3>4, <3>5 DEF i
  <2> QED
    BY <2>1, <2>2
<1>5. ASSUME NEW j \in Us'
      PROVE  /\ db'.users[j].sock \in openFds
             /\ \E u \in ClientThreads : Registered(u)' /\ given[u] = db'.users[j].sock
  <2>1. PICK k \in Us : db'.users[j] = db.users[k] /\ db.users[k].sock # given[t]
    BY <1>4
  <2>2. PICK u \in ClientThreads : Registered(u) /\ given[u] = db.users[k].sock
    BY DEF Descriptors
  <2> QED
    BY <1>1, <2>1, <2>2 DEF Descriptors
<1>6. ASSUME NEW i \in Us', NEW j \in Us', db'.users[i].sock = db'.users[j].sock
      PROVE  i = j
  <2> DEFINE f == FindUserBySocket(db, given[t])
  <2>1. PICK k \in Us : db'.users[i] = db.users[k] /\ k = IF f = 0 \/ i < f THEN i ELSE i + 1
    BY <1>4
  <2>2. PICK m \in Us : db'.users[j] = db.users[m] /\ m = IF f = 0 \/ j < f THEN j ELSE j + 1
    BY <1>4
  <2>3. k = m
    BY <1>6, <2>1, <2>2 DEF Descriptors
  <2>4. f = 0 \/ f \in Us
    BY <1>3, FirstOfSocket DEF Us
  <2> HIDE DEF f
  <2> QED
    BY <1>3, <2>1, <2>2, <2>3, <2>4 DEF Us
<1>7. Freed' <=> Freed
  BY <1>1 DEF Freed
<1> QED
  BY <1>1, <1>5, <1>6, <1>7 DEF Descriptors

(* What a step does to the list of users: nothing, or one of these. *)
LEMMA ListSteps ==
  ASSUME TypeOK, [Next]_vars
  PROVE  \/ UNCHANGED db
         \/ FreeAll /\ db' = EmptyDb
         \/ \E t \in ClientThreads :
              \/ Register(t) /\ Registers(db, db', client[t])
              \/ UpdateOp(t) /\ Updates(db, db', client[t])
              \/ Login(t) /\ RecordChanges(db, db', Me(t))
              \/ Cleanup(t) /\ Unregisters(db, db', client[t])
<1>1. ASSUME NEW t \in ClientThreads, ClientStep(t), ~UNCHANGED db
      PROVE  \/ Register(t) /\ Registers(db, db', client[t])
             \/ UpdateOp(t) /\ Updates(db, db', client[t])
             \/ Login(t) /\ RecordChanges(db, db', Me(t))
             \/ Cleanup(t) /\ Unregisters(db, db', client[t])
  <2>1. Operation(t)
    BY <1>1 DEF ClientStep, Operation, Start, Receive, HangUp, Close, EndRead
  <2> QED
    BY <2>1, OperationEffect DEF Operation, UpdateOp
<1>2. CASE Accept \/ CreateThread \/ Interrupt \/ Exit \/ UNCHANGED vars
  BY <1>2 DEF Accept, CreateThread, Interrupt, Exit, vars
<1>3. ASSUME NEW t, LockStep(t) PROVE UNCHANGED db
  BY <1>3 DEF LockStep
<1>4. FreeAll => db' = EmptyDb
  BY DEF FreeAll, Commit
<1> QED
  BY <1>1, <1>2, <1>3, <1>4 DEF Next, Quiet

LEMMA GuestNamesAre == TypeOK => (GuestNames <=> (~renamed => \A i \in Us : db.users[i].name = Guest[db.users[i].sock]))
BY ListOfUsers DEF GuestNames

LEMMA GuestNamesKept == TypeOK /\ GuestNames /\ [Next]_vars => GuestNames'
<1>0. (TypeOK => (GuestNames <=> (~renamed => \A i \in Us : db.users[i].name = Guest[db.users[i].sock])))'
  BY GuestNamesAre, PTL
<1> SUFFICES ASSUME TypeOK, GuestNames, [Next]_vars, ~renamed'
             PROVE  \A i \in Us' : db'.users[i].name = Guest[db'.users[i].sock]
  BY <1>0, TypesKept
<1>1. \A i \in Us : db.users[i].name = Guest[db.users[i].sock]
  BY RenamedForGood, GuestNamesAre
<1>2. CASE UNCHANGED db
  BY <1>1, <1>2 DEF Us
<1>3. CASE db' = EmptyDb
  BY <1>3 DEF EmptyDb, Us
<1>4. ASSUME NEW t \in ClientThreads, Registers(db, db', client[t])
      PROVE  \A i \in Us' : db'.users[i].name = Guest[db'.users[i].sock]
  <2>1. /\ Len(db.users) \in Nat /\ Len(db'.users) = Len(db.users) + 1
        /\ db'.users[1].name = Guest[db'.users[1].sock]
        /\ \A j \in Us : db'.users[j + 1].sock = db.users[j].sock /\ db'.users[j + 1].name = db.users[j].name
    BY <1>4, ListOfUsers DEF Registers, Us
  <2>2. \A i \in Us' : i = 1 \/ (i - 1 \in Us /\ db'.users[i].sock = db.users[i - 1].sock
                                             /\ db'.users[i].name = db.users[i - 1].name)
    BY <2>1 DEF Us
  <2> QED
    BY <1>1, <2>1, <2>2
<1>5. ASSUME NEW t \in ClientThreads, UpdateOp(t), Updates(db, db', client[t])
      PROVE  \A i \in Us' : db'.users[i].name = Guest[db'.users[i].sock]
  BY <1>1, <1>5 DEF Updates, OneRecordChanges, RecordChanges, NamesKept, Us
<1>6. ASSUME NEW t \in ClientThreads, Login(t) PROVE UNCHANGED db
  BY <1>6 DEF Login, Commit
<1>7. ASSUME NEW t \in ClientThreads, Unregisters(db, db', client[t])
      PROVE  \A i \in Us' : db'.users[i].name = Guest[db'.users[i].sock]
  <2> DEFINE f == FindUserBySocket(db, client[t])
  <2>1. Len(db.users) \in Nat
    BY ListOfUsers
  <2>2. CASE f = 0
    BY <1>1, <1>7, <2>2 DEF Unregisters, Us
  <2>3. CASE f # 0
    <3>1. f \in Us /\ Removed(db, db', f)
      BY <1>7, <2>3 DEF Unregisters, Us
    <3> HIDE DEF f
    <3>2. ASSUME NEW i \in Us' PROVE \E k \in Us : db'.users[i] = db.users[k]
      <4>1. i \in 1..(Len(db.users) - 1) /\ db'.users[i] = db.users[IF i < f THEN i ELSE i + 1]
        BY <3>1 DEF Removed, Us
      <4>2. i \in Us /\ i + 1 \in Us
        BY <2>1, <4>1 DEF Us
      <4> QED
        BY <4>1, <4>2
    <3> QED
      BY <1>1, <3>2
  <2> QED
    BY <2>2, <2>3
<1> QED
  BY <1>2, <1>3, <1>4, <1>5, <1>6, <1>7, ListSteps

(* The inductive invariant without the lock's part, which is proved already. *)
Inv == TypeOK /\ OpFitsPlace /\ OwnDescriptors /\ LiveSockets /\ GuestNames

LEMMA InitInv == Init => Inv
<1> SUFFICES ASSUME Init PROVE Inv
  OBVIOUS
<1> USE MainIsNoClient
<1>1. db \in Db /\ db.users = <<>>
  BY EmptyIsDb, AddRoomIsDb DEF Init, EmptyDb
<1>2. TypeOK
  <2>1. pc \in [Threads -> LockPlaces \cup Elsewhere]
    BY DEF Init, Elsewhere
  <2>2. op \in [Threads -> Commands \cup [kind : {"none", "register", "cleanup", "shutdown"}]]
    BY DEF Init, NoOp
  <2>3. client \in [ClientThreads -> Fd] /\ given \in [ClientThreads -> Fd] /\ newClient \in Fd
    BY DEF Init, Fd, NoFd
  <2>4. openFds \subseteq Fds /\ requests \in 0..MaxRequests /\ renamed \in BOOLEAN
    <3>1. openFds = {} /\ requests = 0 /\ renamed = FALSE
      BY DEF Init
    <3>2. 0 \in 0..MaxRequests
      BY ServerAssumption
    <3> QED
      BY <3>1, <3>2
  <2> QED
    BY <1>1, <2>1, <2>2, <2>3, <2>4 DEF TypeOK
<1>3. OpFitsPlace
  BY DEF Init, OpFitsPlace, NoOp
<1>4. Alive = {} /\ Users = {} /\ DOMAIN db.users = {}
  BY <1>1 DEF Init, Alive, Users, ToSet
<1> QED
  BY <1>1, <1>2, <1>3, <1>4 DEF Inv, OwnDescriptors, LiveSockets, GuestNames, Coming, Init

LEMMA NextInv == Inv /\ [Next]_vars => Inv'
<1> SUFFICES ASSUME Inv, [Next]_vars PROVE Inv'
  OBVIOUS
<1>1. TypeOK /\ OpFitsPlace /\ TypeOK' /\ OpFitsPlace' /\ GuestNames'
  BY TypesKept, FitKept, GuestNamesKept DEF Inv
<1>2. ASSUME NobodyMisread' PROVE Descriptors'
  <2>1. NobodyMisread /\ Descriptors
    BY <1>1, <1>2, MisreadForGood, DescriptorsAre DEF Inv
  <2>2. ASSUME NEW t \in ClientThreads, Register(t) \/ Cleanup(t) \/ Close(t) PROVE client[t] = given[t]
    BY <2>1, <2>2 DEF NobodyMisread, Register, Cleanup, Close, Commit, Goto
  <2> QED
    BY <1>1, <2>1, <2>2, QuietSteps, QuietKeepsDescriptors, AcceptKeepsDescriptors, CreateKeepsDescriptors,
       FreeAllKeepsDescriptors, RegisterKeepsDescriptors, CleanupKeepsDescriptors, CloseKeepsDescriptors
<1>3. (TypeOK /\ OpFitsPlace => ((OwnDescriptors /\ LiveSockets) <=> (NobodyMisread => Descriptors)))'
  BY DescriptorsAre, PTL
<1> QED
  BY <1>1, <1>2, <1>3 DEF Inv

LEMMA InvHolds == Spec => []Inv
BY InitInv, NextInv, PTL DEF Spec

(* What ServerInv says holds in every state: the protocol's own invariant, the     *)
(* values, and who has which descriptor and which record.                          *)
THEOREM ServerInvariant == Spec => []ServerInv
<1>1. L!LockInv /\ Inv => ServerInv
  BY DEF ServerInv, Inv
<1> QED
  BY <1>1, LockInvHolds, InvHolds, PTL

(* A record names an open descriptor of its own as long as every thread found its  *)
(* own: messages go to live sockets, because Close comes after Cleanup.            *)
THEOREM SocketsAreLive == Spec => []LiveSockets
<1>1. Inv => LiveSockets
  BY DEF Inv
<1> QED
  BY <1>1, InvHolds, PTL

-----------------------------------------------------------------------------
(* A name is given to a record of another name only if no record has it. *)
IsRenamed(d, e, i, n) == /\ i \in 1..Len(d.users) /\ e.users[i].name = n
                         /\ \A j \in 1..Len(d.users) : d.users[j].name # n

LEMMA RenameUserIsUnique ==
  ASSUME NEW d \in Db, NEW c, NEW n \in Names, RenameUser(d, c, n) # d
  PROVE  IsRenamed(d, RenameUser(d, c, n), FindUserBySocket(d, c), n)
<1> DEFINE i == FindUserBySocket(d, c)
           u == WithName(d.users[i], n)
<1>1. FindUserByName(d, n) = 0 /\ i # 0
  BY DEF RenameUser
<1>2. i \in 1..Len(d.users) /\ d.users[i] \in UserRecord
  BY <1>1, FirstOfSocket, DbFields
<1>3. \A j \in 1..Len(d.users) : d.users[j].name # n
  BY <1>1, FirstOfName
<1>4. RenameUser(d, c, n) = With(d, i, u, d.rooms)
  BY <1>1, RenameUserIsWith, Zenon
<1>5. u \in UserRecord /\ u.name = n
  BY <1>2, NameOfRecord DEF UserRecord, WithName
<1>6. d.rooms \in RoomLists(d)
  BY DbFields DEF RoomLists
<1> HIDE DEF u
<1>7. Replaces(d, With(d, i, u, d.rooms), i, u, d.rooms)
  BY <1>2, <1>5, <1>6, DbChanges, Zenon
<1> QED
  BY <1>2, <1>3, <1>4, <1>5, <1>7, Zenon DEF Replaces, IsRenamed

GuestInFront(d) == \A i, j \in 1..Len(d.users) :
                     i < j /\ d.users[i].name = d.users[j].name => d.users[i].name = Guest[d.users[i].sock]

(* New guests come in front, and any other record has a name of its own from then *)
(* on; what leaves does not change the order.                                     *)
LEMMA GuestInFrontKept == TypeOK /\ GuestInFront(db) /\ [Next]_vars => GuestInFront(db')
<1> SUFFICES ASSUME TypeOK, GuestInFront(db), [Next]_vars PROVE GuestInFront(db')
  OBVIOUS
<1>0. Len(db.users) \in Nat /\ db \in Db
  BY ListOfUsers DEF TypeOK
<1>1. CASE UNCHANGED db
  BY <1>1 DEF GuestInFront
<1>2. CASE db' = EmptyDb
  BY <1>2 DEF EmptyDb, GuestInFront
<1>3. ASSUME NEW t \in ClientThreads, Registers(db, db', client[t]) PROVE GuestInFront(db')
  <2>1. /\ Len(db'.users) = Len(db.users) + 1
        /\ db'.users[1].name = Guest[db'.users[1].sock]
        /\ \A j \in 1..Len(db.users) : /\ db'.users[j + 1].sock = db.users[j].sock
                                       /\ db'.users[j + 1].name = db.users[j].name
    BY <1>3 DEF Registers
  <2>2. \A i \in 1..Len(db'.users) : i = 1 \/ (i - 1 \in 1..Len(db.users) /\ (i - 1) + 1 = i)
    BY <1>0, <2>1
  <2>3. ASSUME NEW i \in 1..Len(db'.users), NEW j \in 1..Len(db'.users), i < j, i # 1,
               db'.users[i].name = db'.users[j].name
        PROVE  db'.users[i].name = Guest[db'.users[i].sock]
    <3>1. /\ i - 1 \in 1..Len(db.users) /\ j - 1 \in 1..Len(db.users) /\ i - 1 < j - 1
          /\ (i - 1) + 1 = i /\ (j - 1) + 1 = j
      BY <1>0, <2>1, <2>2, <2>3
    <3>2. /\ db'.users[i].sock = db.users[i - 1].sock /\ db'.users[i].name = db.users[i - 1].name
          /\ db'.users[j].name = db.users[j - 1].name
      BY <2>1, <3>1
    <3> QED
      BY <2>3, <3>1, <3>2 DEF GuestInFront
  <2> QED
    BY <2>1, <2>3 DEF GuestInFront
<1>4. ASSUME NEW t \in ClientThreads, Updates(db, db', client[t]) PROVE GuestInFront(db')
  BY <1>4 DEF Updates, OneRecordChanges, RecordChanges, NamesKept, GuestInFront
<1>5. ASSUME NEW t \in ClientThreads, Login(t), RecordChanges(db, db', Me(t)), ~UNCHANGED db
      PROVE  GuestInFront(db')
  <2> DEFINE k == Me(t)
             n == op[t].name
  <2>1. n \in Names /\ db' = RenameUser(db, client[t], n)
    BY <1>5, MainIsNoClient, Arguments DEF Login, Commit
  <2>2. k \in 1..Len(db.users) /\ db'.users[k].name = n /\ \A j \in 1..Len(db.users) : db.users[j].name # n
    <3>1. IsRenamed(db, RenameUser(db, client[t], n), k, n)
      BY <1>0, <1>5, <2>1, RenameUserIsUnique DEF Me
    <3> QED
      BY <2>1, <3>1, Zenon DEF IsRenamed
  <2>3. Len(db'.users) = Len(db.users) /\ \A j \in 1..Len(db.users) : j # k => db'.users[j] = db.users[j]
    BY <1>5, Zenon DEF RecordChanges
  <2> HIDE DEF k, n
  <2> QED
    BY <1>0, <2>2, <2>3 DEF GuestInFront
<1>6. ASSUME NEW t \in ClientThreads, Unregisters(db, db', client[t]) PROVE GuestInFront(db')
  <2> DEFINE f == FindUserBySocket(db, client[t])
  <2>1. CASE db' = db
    BY <2>1 DEF GuestInFront
  <2>2. CASE db' # db
    <3>1. f \in 1..Len(db.users) /\ Removed(db, db', f)
      BY <1>6, <2>2 DEF Unregisters
    <3> HIDE DEF f
    <3> DEFINE at(i) == IF i < f THEN i ELSE i + 1
    <3>2. /\ Len(db'.users) = Len(db.users) - 1
          /\ \A i \in 1..Len(db'.users) : at(i) \in 1..Len(db.users) /\ db'.users[i] = db.users[at(i)]
      BY <1>0, <3>1 DEF Removed
    <3>3. \A i, j \in 1..Len(db'.users) : i < j => at(i) < at(j)
      BY <1>0, <3>1, <3>2
    <3> HIDE DEF at
    <3>4. ASSUME NEW i \in 1..Len(db'.users), NEW j \in 1..Len(db'.users), i < j,
                 db'.users[i].name = db'.users[j].name
          PROVE  db'.users[i].name = Guest[db'.users[i].sock]
      <4>1. /\ at(i) \in 1..Len(db.users) /\ at(j) \in 1..Len(db.users) /\ at(i) < at(j)
            /\ db'.users[i] = db.users[at(i)] /\ db'.users[j] = db.users[at(j)]
        BY <3>2, <3>3, <3>4, Zenon
      <4>2. db.users[at(i)].name = db.users[at(j)].name
        BY <3>4, <4>1, Zenon
      <4>3. db.users[at(i)].name = Guest[db.users[at(i)].sock]
        BY <4>1, <4>2, Zenon DEF GuestInFront
      <4> QED
        BY <4>1, <4>3, Zenon
    <3> QED
      BY <3>4, Zenon DEF GuestInFront
  <2> QED
    BY <2>1, <2>2
<1> QED
  BY <1>1, <1>2, <1>3, <1>4, <1>5, <1>6, ListSteps

(* Two users have one name only if the later one came as the guest of that number: *)
(* a login never takes a name that is in use.                                      *)
THEOREM NamesAreTakenOnce == Spec => []GuestFoundFirst
<1>1. Init => GuestInFront(db)
  <2>1. Init => db.users = <<>>
    BY DEF Init, AddRoom, EmptyDb
  <2> QED
    BY <2>1 DEF GuestInFront
<1>2. Inv => TypeOK /\ (GuestFoundFirst <=> GuestInFront(db))
  BY ListOfUsers DEF Inv, GuestFoundFirst, GuestInFront, Us
<1>3. Inv /\ GuestInFront(db) /\ [Next]_vars => GuestInFront(db)'
  BY <1>2, GuestInFrontKept
<1> QED
  BY <1>1, <1>2, <1>3, InvHolds, PTL DEF Spec

-----------------------------------------------------------------------------
(* One record for each registered thread: records and threads are counted by socket. *)
Slots(d, c) == {i \in 1..Len(d.users) : d.users[i].sock = c}
Servants(c) == {t \in ClientThreads : Registered(t) /\ client[t] = c}

LEMMA SlotsFinite ==
  ASSUME NEW d \in Db, NEW c
  PROVE  IsFiniteSet(Slots(d, c)) /\ Cardinality(Slots(d, c)) \in Nat
<1>1. IsFiniteSet(1..Len(d.users))
  <2>1. Len(d.users) \in Int /\ 1 \in Int
    BY DbFields
  <2> QED
    BY <2>1, FS_Interval, Zenon
<1>2. Slots(d, c) \in SUBSET (1..Len(d.users))
  BY DEF Slots
<1> QED
  BY <1>1, <1>2, FS_Subset, FS_CardinalityType

LEMMA SlotsPrepended ==
  ASSUME NEW d \in Db, NEW e, NEW c0, NEW c, Registers(d, e, c0)
  PROVE  Cardinality(Slots(e, c)) = IF c = c0 THEN Cardinality(Slots(d, c)) + 1 ELSE Cardinality(Slots(d, c))
<1> DEFINE S == Slots(d, c)
           T == Slots(e, c) \ {1}
           f == [i \in S |-> i + 1]
<1>1. /\ Len(d.users) \in Nat /\ Len(e.users) = Len(d.users) + 1 /\ e.users[1].sock = c0 /\ e \in Db
      /\ \A j \in 1..Len(d.users) : e.users[j + 1].sock = d.users[j].sock
  BY DbFields DEF Registers
<1>2. ASSUME NEW i \in S PROVE i \in Nat /\ i # 0 /\ i + 1 \in T
  <2>1. i \in 1..Len(d.users) /\ d.users[i].sock = c
    BY DEF Slots
  <2> QED
    BY <1>1, <2>1 DEF Slots
<1>3. \A j \in T : j - 1 \in S /\ (j - 1) + 1 = j
  <2> SUFFICES ASSUME NEW j \in T PROVE j - 1 \in S /\ (j - 1) + 1 = j
    OBVIOUS
  <2>1. j \in 1..Len(e.users) /\ j # 1 /\ e.users[j].sock = c
    BY DEF Slots
  <2>2. j - 1 \in 1..Len(d.users) /\ (j - 1) + 1 = j
    BY <1>1, <2>1
  <2>3. e.users[(j - 1) + 1].sock = d.users[j - 1].sock
    BY <1>1, <2>2
  <2> QED
    BY <2>1, <2>2, <2>3 DEF Slots
<1> HIDE DEF S, T
<1>4. f \in Bijection(S, T)
  <2>1. f \in [S -> T] /\ \A a, b \in S : f[a] = f[b] => a = b
    BY <1>2
  <2>2. \A j \in T : \E i \in S : f[i] = j
    <3> SUFFICES ASSUME NEW j \in T PROVE \E i \in S : f[i] = j
      OBVIOUS
    <3>1. j - 1 \in S /\ f[j - 1] = j
      BY <1>3
    <3> QED
      BY <3>1
  <2> HIDE DEF f
  <2> QED
    BY <2>1, <2>2 DEF Bijection, Injection, Surjection, IsInjective
<1>5. Cardinality(T) = Cardinality(S) /\ IsFiniteSet(T)
  <2>1. IsFiniteSet(S) /\ ExistsBijection(S, T)
    BY <1>4, SlotsFinite DEF S, ExistsBijection
  <2> QED
    BY <2>1, FS_Bijection
<1>6. CASE c = c0
  <2>1. Slots(e, c) = T \cup {1} /\ 1 \notin T
    BY <1>1, <1>6 DEF T, Slots
  <2> QED
    BY <1>5, <1>6, <2>1, FS_AddElement DEF S
<1>7. CASE c # c0
  <2>1. Slots(e, c) = T
    BY <1>1, <1>7 DEF T, Slots
  <2> QED
    BY <1>5, <1>7, <2>1 DEF S
<1> QED
  BY <1>6, <1>7

LEMMA SlotsRemoved ==
  ASSUME NEW d \in Db, NEW e, NEW k \in 1..Len(d.users), NEW c, Removed(d, e, k)
  PROVE  Cardinality(Slots(e, c))
           = IF c = d.users[k].sock THEN Cardinality(Slots(d, c)) - 1 ELSE Cardinality(Slots(d, c))
<1> DEFINE T == Slots(e, c)
           S == Slots(d, c) \ {k}
           f == [j \in T |-> IF j < k THEN j ELSE j + 1]
<1>1. /\ Len(d.users) \in Nat /\ Len(e.users) = Len(d.users) - 1 /\ e \in Db
      /\ \A j \in 1..(Len(d.users) - 1) : e.users[j] = d.users[IF j < k THEN j ELSE j + 1]
  BY DbFields DEF Removed
<1>2. \A j \in T : j \in Nat /\ (IF j < k THEN j ELSE j + 1) \in S
  <2> SUFFICES ASSUME NEW j \in T PROVE j \in Nat /\ (IF j < k THEN j ELSE j + 1) \in S
    OBVIOUS
  <2>1. j \in 1..(Len(d.users) - 1) /\ e.users[j].sock = c
    BY <1>1 DEF Slots
  <2>2. (IF j < k THEN j ELSE j + 1) \in 1..Len(d.users) /\ (IF j < k THEN j ELSE j + 1) # k
    BY <1>1, <2>1
  <2>3. d.users[IF j < k THEN j ELSE j + 1].sock = c
    BY <1>1, <2>1
  <2> QED
    BY <2>1, <2>2, <2>3 DEF Slots
<1>3. \A i \in S : \E j \in T : i = IF j < k THEN j ELSE j + 1
  <2> SUFFICES ASSUME NEW i \in S PROVE \E j \in T : i = IF j < k THEN j ELSE j + 1
    OBVIOUS
  <2>1. i \in 1..Len(d.users) /\ i # k /\ d.users[i].sock = c
    BY DEF Slots
  <2>2. PICK j \in 1..(Len(d.users) - 1) : i = IF j < k THEN j ELSE j + 1
    <3>1. CASE i < k
      BY <1>1, <2>1, <3>1
    <3>2. CASE i > k
      <4>1. i - 1 \in 1..(Len(d.users) - 1) /\ ~(i - 1 < k) /\ i = (i - 1) + 1
        BY <1>1, <2>1, <3>2
      <4> QED
        BY <4>1
    <3> QED
      BY <1>1, <2>1, <3>1, <3>2
  <2>3. e.users[j] = d.users[i]
    BY <1>1, <2>2
  <2>4. j \in T
    BY <1>1, <2>1, <2>2, <2>3 DEF Slots
  <2> QED
    BY <2>2, <2>4
<1> HIDE DEF S, T
<1>4. f \in Bijection(T, S)
  <2>1. f \in [T -> S] /\ \A a, b \in T : f[a] = f[b] => a = b
    BY <1>2
  <2>2. \A i \in S : \E j \in T : f[j] = i
    BY <1>3
  <2> HIDE DEF f
  <2> QED
    BY <2>1, <2>2 DEF Bijection, Injection, Surjection, IsInjective
<1>5. Cardinality(T) = Cardinality(S)
  <2>1. IsFiniteSet(T) /\ ExistsBijection(T, S)
    BY <1>1, <1>4, SlotsFinite DEF T, ExistsBijection
  <2> QED
    BY <2>1, FS_Bijection
<1>6. IsFiniteSet(Slots(d, c)) /\ (k \in Slots(d, c) <=> c = d.users[k].sock)
  BY SlotsFinite DEF Slots
<1>7. Cardinality(S) = IF k \in Slots(d, c) THEN Cardinality(Slots(d, c)) - 1 ELSE Cardinality(Slots(d, c))
  BY <1>6, FS_RemoveElement DEF S
<1> QED
  BY <1>5, <1>6, <1>7 DEF T

LEMMA ServantsFinite == \A c : IsFiniteSet(Servants(c)) /\ Cardinality(Servants(c)) \in Nat
<1> SUFFICES ASSUME NEW c PROVE IsFiniteSet(Servants(c)) /\ Cardinality(Servants(c)) \in Nat
  OBVIOUS
<1>1. Servants(c) \in SUBSET ClientThreads
  BY DEF Servants
<1> QED
  BY <1>1, FS_Subset, FS_CardinalityType

Paired == \A c \in Fd : Cardinality(Slots(db, c)) = Cardinality(Servants(c))

LEMMA PairedIs == TypeOK => (OneRecordPerThread <=> (~Freed => Paired))
<1> SUFFICES ASSUME TypeOK PROVE OneRecordPerThread <=> (~Freed => Paired)
  OBVIOUS
<1>1. \A c \in Fd : Slots(db, c) = {i \in DOMAIN db.users : db.users[i].sock = c}
  BY ListOfUsers DEF Slots, Us
<1> QED
  BY <1>1 DEF OneRecordPerThread, Paired, Servants

LEMMA ServantsKept ==
  ASSUME TypeOK, OpFitsPlace, [Next]_vars, \A u \in ClientThreads : Registered(u)' <=> Registered(u)
  PROVE  \A c : Servants(c)' = Servants(c)
<1>1. \A u \in ClientThreads : Registered(u) => client'[u] = client[u]
  BY RegisteredSettled, SettledForGood
<1> QED
  BY <1>1 DEF Servants

LEMMA SlotsKept ==
  ASSUME SocketsKept(db, db')
  PROVE  \A c : Slots(db', c) = Slots(db, c)
BY DEF SocketsKept, Slots

LEMMA PairedKept == Inv /\ Inv' /\ (~Freed => Paired) /\ [Next]_vars => (~Freed' => Paired')
<1> SUFFICES ASSUME Inv, ~Freed => Paired, [Next]_vars, ~Freed' PROVE Paired'
  OBVIOUS
<1>0. TypeOK /\ OpFitsPlace /\ db \in Db
  BY DEF Inv, TypeOK
<1>1. CASE Quietly
  <2>1. \A u \in ClientThreads : Registered(u)' <=> Registered(u)
    BY <1>1 DEF Quietly, KeepsPart, SamePart, RegisteredAt, Registered
  <2>2. Paired /\ SocketsKept(db, db')
    BY <1>1 DEF Quietly
  <2> QED
    BY <1>0, <2>1, <2>2, ServantsKept, SlotsKept DEF Paired
<1>2. CASE Accept
  <2>1. \A u \in ClientThreads : KeepsPart(u)
    BY <1>0, <1>2, MainKeepsParts DEF Accept, Goto
  <2>2. \A u \in ClientThreads : Registered(u)' <=> Registered(u)
    BY <2>1 DEF KeepsPart, SamePart, RegisteredAt, Registered
  <2>3. Paired /\ db' = db
    BY <1>2 DEF Accept, Goto, Freed
  <2> QED
    BY <1>0, <2>2, <2>3, ServantsKept DEF Paired
<1>3. CASE CreateThread
  <2>1. PICK t \in ClientThreads :
          /\ pc[t] = "unborn" /\ pc[Main] = "create"
          /\ pc' = [pc EXCEPT ![Main] = "accept", ![t] = "born"]
          /\ UNCHANGED <<op, db>>
    BY <1>3 DEF CreateThread, Unborn
  <2>2. pc'[t] = "born" /\ \A u \in ClientThreads \ {t} : pc'[u] = pc[u]
    BY <1>0, <2>1, MainIsNoClient DEF TypeOK
  <2>3. \A u \in ClientThreads : Registered(u)' <=> Registered(u)
    BY <2>1, <2>2 DEF Registered, LockPlaces
  <2>4. Paired
    BY <2>1 DEF Freed
  <2> QED
    BY <1>0, <2>1, <2>3, <2>4, ServantsKept DEF Paired
<1>4. CASE FreeAll
  <2>1. pc'[Main] = "closing"
    BY <1>0, <1>4, MainIsNoClient DEF FreeAll, Commit, Goto, TypeOK
  <2> QED
    BY <2>1 DEF Freed
<1>5. ASSUME NEW t \in ClientThreads, Close(t) PROVE Paired'
  <2>1. /\ pc[t] = "closing" /\ pc' = [pc EXCEPT ![t] = "done"] /\ UNCHANGED <<op, db>>
    BY <1>5 DEF Close, Goto
  <2>2. pc'[t] = "done" /\ pc'[Main] = pc[Main] /\ \A u \in ClientThreads \ {t} : pc'[u] = pc[u]
    BY <1>0, <2>1, MainIsNoClient DEF TypeOK
  <2>3. \A u \in ClientThreads : Registered(u)' <=> Registered(u)
    BY <2>1, <2>2 DEF Registered, LockPlaces
  <2>4. Paired
    BY <2>2 DEF Freed
  <2> QED
    BY <1>0, <2>1, <2>3, <2>4, ServantsKept DEF Paired
<1>6. ASSUME NEW t \in ClientThreads, Register(t) PROVE Paired'
  <2>1. /\ ~Registered(t) /\ Registered(t)' /\ \A u \in ClientThreads \ {t} : Registered(u)' <=> Registered(u)
        /\ pc'[Main] = pc[Main] /\ UNCHANGED client
    BY <1>0, <1>6, RegisterMoves
  <2>2. Registers(db, db', client[t])
    BY <1>0, <1>6, OperationEffect DEF Operation
  <2>3. Paired
    BY <2>1 DEF Freed
  <2>4. ASSUME NEW c \in Fd PROVE Cardinality(Slots(db', c)) = Cardinality(Servants(c)')
    <3>1. Cardinality(Slots(db', c)) = IF c = client[t] THEN Cardinality(Slots(db, c)) + 1 ELSE Cardinality(Slots(db, c))
      BY <1>0, <2>2, SlotsPrepended
    <3>2. Cardinality(Slots(db, c)) = Cardinality(Servants(c))
      BY <2>3 DEF Paired
    <3>3. CASE c = client[t]
      <4>1. Servants(c)' = Servants(c) \cup {t} /\ t \notin Servants(c)
        BY <2>1, <3>3 DEF Servants
      <4>2. Cardinality(Servants(c) \cup {t}) = Cardinality(Servants(c)) + 1
        BY <4>1, ServantsFinite, FS_AddElement
      <4> QED
        BY <3>1, <3>2, <3>3, <4>1, <4>2
    <3>4. CASE c # client[t]
      <4>1. Servants(c)' = Servants(c)
        BY <2>1, <3>4 DEF Servants
      <4> QED
        BY <3>1, <3>2, <3>4, <4>1
    <3> QED
      BY <3>3, <3>4
  <2> QED
    BY <2>4 DEF Paired
<1>7. ASSUME NEW t \in ClientThreads, Cleanup(t) PROVE Paired'
  <2>1. /\ Registered(t) /\ ~Registered(t)' /\ \A u \in ClientThreads \ {t} : Registered(u)' <=> Registered(u)
        /\ pc'[Main] = pc[Main] /\ UNCHANGED client
    BY <1>0, <1>7, CleanupMoves
  <2>2. Unregisters(db, db', client[t])
    BY <1>0, <1>7, OperationEffect DEF Operation
  <2>3. Paired /\ client[t] \in Fd
    BY <1>0, <2>1 DEF Freed, TypeOK
  <2> DEFINE k == FindUserBySocket(db, client[t])
  <2>4. k \in 1..Len(db.users) /\ db.users[k].sock = client[t] /\ Removed(db, db', k)
    <3>1. t \in Servants(client[t])
      BY <2>1 DEF Servants
    <3>2. Cardinality(Slots(db, client[t])) # 0
      <4>1. Cardinality(Servants(client[t])) # 0
        BY <3>1, ServantsFinite, FS_EmptySet
      <4> QED
        BY <2>3, <4>1 DEF Paired
    <3>3. Slots(db, client[t]) # {}
      BY <3>2, FS_EmptySet
    <3>4. k # 0
      BY <1>0, <3>3, FirstOfSocket DEF Slots
    <3> QED
      BY <2>2, <3>4, Zenon DEF Unregisters
  <2> HIDE DEF k
  <2>5. ASSUME NEW c \in Fd PROVE Cardinality(Slots(db', c)) = Cardinality(Servants(c)')
    <3>1. Cardinality(Slots(db', c)) = IF c = db.users[k].sock THEN Cardinality(Slots(db, c)) - 1 ELSE Cardinality(Slots(db, c))
      BY <1>0, <2>4, SlotsRemoved
    <3>2. Cardinality(Slots(db, c)) = Cardinality(Servants(c))
      BY <2>3 DEF Paired
    <3>3. CASE c = client[t]
      <4>1. Servants(c)' = Servants(c) \ {t} /\ t \in Servants(c)
        BY <2>1, <3>3 DEF Servants
      <4>2. Cardinality(Servants(c) \ {t}) = Cardinality(Servants(c)) - 1
        BY <4>1, ServantsFinite, FS_RemoveElement
      <4> QED
        BY <2>4, <3>1, <3>2, <3>3, <4>1, <4>2
    <3>4. CASE c # client[t]
      <4>1. Servants(c)' = Servants(c)
        BY <2>1, <3>4 DEF Servants
      <4> QED
        BY <2>4, <3>1, <3>2, <3>4, <4>1
    <3> QED
      BY <3>3, <3>4
  <2> QED
    BY <2>5 DEF Paired
<1> QED
  BY <1>0, <1>1, <1>2, <1>3, <1>4, <1>5, <1>6, <1>7, QuietSteps

LEMMA InitPaired == Init => Paired
<1> SUFFICES ASSUME Init, NEW c \in Fd PROVE Cardinality(Slots(db, c)) = Cardinality(Servants(c))
  BY DEF Paired
<1>1. db.users = <<>>
  BY EmptyIsDb, AddRoomIsDb DEF Init, EmptyDb
<1>2. Slots(db, c) = {}
  BY <1>1 DEF Slots
<1>3. Servants(c) = {}
  BY MainIsNoClient DEF Init, Servants, Registered, LockPlaces
<1> QED
  BY <1>2, <1>3

(* Every registered thread has one record under its descriptor, and there are no   *)
(* others: AddUser and removeUser are called once for each, under the lock.        *)
THEOREM OneRecordEach == Spec => []OneRecordPerThread
<1>1. Inv => (OneRecordPerThread <=> (~Freed => Paired))
  BY PairedIs DEF Inv
<1> QED
  BY <1>1, InvHolds, InitPaired, PairedKept, PTL DEF Spec

-----------------------------------------------------------------------------
(* The two lists agree. *)
Agreement == NobodyMisread /\ ~renamed => Roster(db)

LEMMA RosterAgreesIs ==
  TypeOK => (RosterAgrees <=> Agreement)
<1> SUFFICES ASSUME TypeOK, NobodyMisread, ~renamed PROVE RosterAgrees <=> Roster(db)
  BY DEF RosterAgrees, Agreement
<1>1. db \in Db /\ DOMAIN db.rooms \subseteq RoomNames
  BY DbFields DEF TypeOK
<1>2. /\ \A u : u \in Users <=> \E i \in 1..Len(db.users) : u = db.users[i]
      /\ db.rooms \in [DOMAIN db.rooms -> SUBSET Names]
  BY <1>1, ListOfUsers, DbFields DEF Us
<1>3. (\A u \in Users, r \in RoomNames :
         u.rooms[r] = IF RoomExists(db, r) /\ u.name \in db.rooms[r] THEN 1 ELSE 0)
      <=> \A j \in 1..Len(db.users) : \A r \in RoomNames : db.users[j].rooms[r] = Member(db, j, r)
  BY <1>2 DEF Member, RoomExists
<1>4. (\A r \in DOMAIN db.rooms : db.rooms[r] \subseteq {u.name : u \in Users})
      <=> \A r \in DOMAIN db.rooms : \A n \in db.rooms[r] : \E j \in 1..Len(db.users) : db.users[j].name = n
  BY <1>2
<1> QED
  BY <1>3, <1>4 DEF RosterAgrees, Roster

LEMMA GuestsDiffer == \A c, d \in Fd : Guest[c] = Guest[d] => c = d
BY DEF Fd

LEMMA NamesDifferHolds ==
  ASSUME TypeOK, Descriptors, GuestNames, ~renamed
  PROVE  NamesDiffer(db)
<1> SUFFICES ASSUME NEW i \in Us, NEW j \in Us, db.users[i].name = db.users[j].name PROVE i = j
  BY DEF NamesDiffer, Us
<1>1. db.users[i].name = Guest[db.users[i].sock] /\ db.users[j].name = Guest[db.users[j].sock]
  BY GuestNamesAre
<1>2. db.users[i].sock \in Fd /\ db.users[j].sock \in Fd
  BY ListOfUsers DEF UserRecord
<1>3. db.users[i].sock = db.users[j].sock
  BY <1>1, <1>2, GuestsDiffer
<1> QED
  BY <1>3 DEF Descriptors

LEMMA EmptyRoster == Roster(EmptyDb)
BY DEF Roster, EmptyDb

LEMMA UpdateKeepsRoster ==
  ASSUME TypeOK, NamesDiffer(db), Roster(db), NEW t \in ClientThreads, UpdateOp(t)
  PROVE  Roster(db')
<1>1. db \in Db /\ t \in Threads
  BY MainIsNoClient DEF TypeOK
<1>2. CASE db' = db
  BY <1>2
<1>3. CASE Create(t)
  <2>1. op[t].room \in RoomNames /\ db' = AddRoom(db, op[t].room)
    BY <1>1, <1>3, Arguments DEF Create, Commit
  <2> QED
    BY <1>1, <2>1, AddRoomKeepsRoster, Zenon
<1>4. CASE Me(t) # 0
  <2>1. MyName(t) \in Names
    BY <1>4, MyRecord
  <2>2. CASE Join(t)
    <3>1. op[t].room \in RoomNames /\ (db' = db \/ db' = AddUserToRoom(db, MyName(t), op[t].room))
      BY <1>1, <2>2, Arguments DEF Join, Commit
    <3> QED
      BY <1>1, <2>1, <3>1, JoinKeepsRoster, Zenon
  <2>3. CASE Leave(t)
    <3>1. op[t].room \in RoomNames /\ (db' = db \/ db' = RemoveUserFromRoom(db, MyName(t), op[t].room))
      BY <1>1, <2>3, Arguments DEF Leave, Commit
    <3> QED
      BY <1>1, <2>1, <3>1, LeaveKeepsRoster, Zenon
  <2>4. CASE Connect(t) \/ Disconnect(t)
    <3>1. /\ op[t].kind \in {"connect", "disconnect"}
          /\ \/ db' = db
             \/ db' = AddDirectConnection(db, MyName(t), op[t].name)
             \/ db' = RemoveDirectConnection(db, MyName(t), op[t].name)
      BY <2>4, Zenon DEF Connect, Disconnect, Commit
    <3>2. op[t].name \in Names
      BY <1>1, <3>1, Arguments
    <3>3. /\ Roster(AddDirectConnection(db, MyName(t), op[t].name))
          /\ Roster(RemoveDirectConnection(db, MyName(t), op[t].name))
      BY <1>1, <2>1, <3>2, ConnectionsKeepRoster, Zenon
    <3> QED
      BY <3>1, <3>3
  <2> QED
    BY <1>3, <2>2, <2>3, <2>4, Zenon DEF UpdateOp
<1>5. CASE Me(t) = 0 /\ (Join(t) \/ Leave(t) \/ Connect(t) \/ Disconnect(t))
  BY <1>2, <1>5, Zenon DEF Join, Leave, Connect, Disconnect, Commit
<1> QED
  BY <1>3, <1>4, <1>5 DEF UpdateOp

LEMMA RegisterKeepsRoster ==
  ASSUME TypeOK, OpFitsPlace, Descriptors, GuestNames, ~renamed, Roster(db),
         NEW t \in ClientThreads, Register(t), client[t] = given[t]
  PROVE  Roster(db')
<1> DEFINE c == client[t]
           n == Guest[c]
           m == AddUser(db, c, n)
<1>1. db \in Db /\ c \in Fd /\ n \in Names /\ Lobby \in RoomNames
  BY GuestIsName DEF TypeOK
<1>2. NamesDiffer(db)
  BY NamesDifferHolds
<1>3. ASSUME NEW j \in 1..Len(db.users) PROVE db.users[j].name # n
  <2>1. PICK u \in ClientThreads : Registered(u) /\ given[u] = db.users[j].sock
    BY DEF Descriptors, Us
  <2>2. ~Registered(t) /\ t \in Alive
    BY RegisterMoves DEF Coming
  <2>3. db.users[j].sock # c
    BY <2>1, <2>2, RegisteredSettled DEF Descriptors
  <2>4. db.users[j].name = Guest[db.users[j].sock] /\ db.users[j].sock \in Fd
    BY GuestNamesAre, ListOfUsers DEF Us, UserRecord
  <2> QED
    BY <1>1, <2>3, <2>4, GuestsDiffer
<1>4. db' = AddUserToRoom(m, n, Lobby)
  BY Zenon DEF Register, Commit
<1> HIDE DEF n, c
<1>5. Roster(m) /\ NamesDiffer(m)
  BY <1>1, <1>2, <1>3, AddUserKeepsRoster, Zenon
<1>6. m \in Db
  <2>1. Prepended(db, m, NewRecord(c, n))
    BY <1>1, AddUserSpec, Zenon
  <2> QED
    BY <2>1, Zenon DEF Prepended
<1> HIDE DEF m
<1> QED
  BY <1>1, <1>4, <1>5, <1>6, JoinKeepsRoster, Zenon

LEMMA RosterKept == Inv /\ Agreement /\ [Next]_vars => Agreement'
<1> SUFFICES ASSUME Inv, NobodyMisread /\ ~renamed => Roster(db), [Next]_vars, NobodyMisread', ~renamed'
             PROVE  Roster(db')
  BY DEF Agreement
<1>1. /\ TypeOK /\ OpFitsPlace /\ GuestNames
      /\ NobodyMisread /\ ~renamed /\ Descriptors /\ Roster(db) /\ db \in Db
  BY MisreadForGood, RenamedForGood, DescriptorsAre DEF Inv, TypeOK
<1>2. NamesDiffer(db)
  BY <1>1, NamesDifferHolds
<1>3. ASSUME NEW t \in ClientThreads, Register(t) PROVE Roster(db')
  <2>1. client[t] = given[t]
    BY <1>1, <1>3, RegisterMoves DEF NobodyMisread, Settled
  <2> QED
    BY <1>1, <1>3, <2>1, RegisterKeepsRoster
<1>4. ASSUME NEW t \in ClientThreads, UpdateOp(t) PROVE Roster(db')
  BY <1>1, <1>2, <1>4, UpdateKeepsRoster
<1>5. ASSUME NEW t \in ClientThreads, Login(t) PROVE Roster(db')
  <2>1. db' = db
    BY <1>5 DEF Login, Commit
  <2> QED
    BY <1>1, <2>1
<1>6. ASSUME NEW t \in ClientThreads, Cleanup(t) PROVE Roster(db')
  <2>1. db' = RemoveUser(db, client[t])
    BY <1>6, Zenon DEF Cleanup, Commit
  <2> QED
    BY <1>1, <1>2, <2>1, RemoveUserKeepsRoster, Zenon
<1> QED
  BY <1>1, <1>3, <1>4, <1>5, <1>6, EmptyRoster, ListSteps

LEMMA InitRoster == Init => Roster(db)
<1> SUFFICES ASSUME Init PROVE Roster(db)
  OBVIOUS
<1>1. db = AddRoom(EmptyDb, Lobby) /\ Lobby \in RoomNames
  BY DEF Init
<1> QED
  BY <1>1, EmptyIsDb, EmptyRoster, AddRoomKeepsRoster, Zenon

LEMMA RosterHolds == Spec => []Agreement
<1>1. Init => Agreement
  BY InitRoster DEF Agreement
<1> QED
  BY <1>1, InvHolds, RosterKept, PTL DEF Spec

(* A user's list of rooms and the rooms' lists of users say the same as long as    *)
(* nobody has logged in and every thread found its own descriptor.                 *)
THEOREM RostersAgree == Spec => []RosterAgrees
<1>1. Inv => (RosterAgrees <=> Agreement)
  BY RosterAgreesIs DEF Inv
<1> QED
  BY <1>1, InvHolds, RosterHolds, PTL

LEMMA RosterDeliversMessages == Inv /\ Agreement => MessagesReachRoomMates
<1> SUFFICES ASSUME Inv, Roster(db), NEW i \in DOMAIN db.users
             PROVE  BroadcastTo(db, i) =
                      {u.sock : u \in {v \in Users :
                          /\ v.sock # db.users[i].sock
                          /\ \/ v.name \in db.users[i].dms
                             \/ \E r \in DOMAIN db.rooms : {db.users[i].name, v.name} \subseteq db.rooms[r]}}
  BY DEF MessagesReachRoomMates, Agreement
<1>1. db \in Db /\ DOMAIN db.rooms \subseteq RoomNames /\ i \in 1..Len(db.users)
  BY ListOfUsers, DbFields DEF Inv, TypeOK, Us
<1>2. ASSUME NEW j \in 1..Len(db.users)
      PROVE  SharesRoom(db.users[i], db.users[j])
               <=> \E r \in DOMAIN db.rooms : {db.users[i].name, db.users[j].name} \subseteq db.rooms[r]
  <2>1. \A r \in RoomNames : \A k \in {i, j} :
           db.users[k].rooms[r] > 0 <=> r \in DOMAIN db.rooms /\ db.users[k].name \in db.rooms[r]
    <3> SUFFICES ASSUME NEW r \in RoomNames, NEW k \in {i, j}
                 PROVE  db.users[k].rooms[r] > 0 <=> r \in DOMAIN db.rooms /\ db.users[k].name \in db.rooms[r]
      OBVIOUS
    <3>1. db.users[k].rooms[r] = Member(db, k, r)
      BY <1>1 DEF Roster
    <3> QED
      BY <3>1 DEF Member
  <2>2. SharesRoom(db.users[i], db.users[j])
          <=> \E r \in RoomNames : db.users[i].rooms[r] > 0 /\ db.users[j].rooms[r] > 0
    BY DEF SharesRoom
  <2> QED
    BY <1>1, <2>1, <2>2
<1>3. ASSUME NEW v \in Users
      PROVE  SharesRoom(db.users[i], v)
               <=> \E r \in DOMAIN db.rooms : {db.users[i].name, v.name} \subseteq db.rooms[r]
  BY <1>2, ListOfUsers DEF Inv, Us
<1>4. BroadcastTo(db, i) = {v.sock : v \in {w \in Users : /\ w.sock # db.users[i].sock
                                                          /\ \/ w.name \in db.users[i].dms
                                                             \/ SharesRoom(db.users[i], w)}}
  BY Zenon DEF BroadcastTo, Users
<1> QED
  BY <1>3, <1>4

(* Then broadcastMessage, which goes by the user's list, reaches the users in a    *)
(* room with the sender and the users it is connected to, and nobody else.         *)
THEOREM MessagesReach == Spec => []MessagesReachRoomMates
BY InvHolds, RosterHolds, RosterDeliversMessages, PTL

-----------------------------------------------------------------------------
(* A command changes no record but its client's. *)
LEMMA OthersAre ==
  ASSUME NEW d \in Db, NEW t
  PROVE  \A u : u \in OthersOf(t, d) <=> \E j \in 1..Len(d.users) : u = d.users[j] /\ u.sock # client[t]
<1>1. DOMAIN d.users = 1..Len(d.users)
  BY DbFields
<1> QED
  BY <1>1 DEF OthersOf, ToSet

LEMMA SameOthers ==
  ASSUME NEW d \in Db, NEW e \in Db, NEW t,
         \A j \in 1..Len(d.users) : d.users[j].sock # client[t]
           => \E l \in 1..Len(e.users) : e.users[l] = d.users[j],
         \A l \in 1..Len(e.users) : e.users[l].sock # client[t]
           => \E j \in 1..Len(d.users) : d.users[j] = e.users[l]
  PROVE  OthersOf(t, e) = OthersOf(t, d)
<1>1. ASSUME NEW u \in OthersOf(t, d) PROVE u \in OthersOf(t, e)
  <2>1. PICK j \in 1..Len(d.users) : u = d.users[j] /\ u.sock # client[t]
    BY <1>1, OthersAre
  <2>2. PICK l \in 1..Len(e.users) : e.users[l] = d.users[j]
    BY <2>1
  <2> QED
    BY <2>1, <2>2, OthersAre
<1>2. ASSUME NEW u \in OthersOf(t, e) PROVE u \in OthersOf(t, d)
  <2>1. PICK l \in 1..Len(e.users) : u = e.users[l] /\ u.sock # client[t]
    BY <1>2, OthersAre
  <2>2. PICK j \in 1..Len(d.users) : d.users[j] = e.users[l]
    BY <2>1
  <2> QED
    BY <2>1, <2>2, OthersAre
<1> QED
  BY <1>1, <1>2

LEMMA ChangeOfMine ==
  ASSUME NEW d \in Db, NEW e, NEW i, NEW t, RecordChanges(d, e, i),
         i \in 1..Len(d.users) => d.users[i].sock = client[t]
  PROVE  OthersOf(t, e) = OthersOf(t, d)
<1>1. /\ e \in Db /\ Len(e.users) = Len(d.users)
      /\ \A j \in 1..Len(d.users) : e.users[j].sock = d.users[j].sock /\ (j # i => e.users[j] = d.users[j])
  BY DEF RecordChanges
<1>2. \A j \in 1..Len(d.users) : e.users[j].sock # client[t] => e.users[j] = d.users[j]
  BY <1>1
<1>3. \A u : u \in OthersOf(t, e) <=> u \in OthersOf(t, d)
  BY <1>1, <1>2, OthersAre
<1> QED
  BY <1>3

LEMMA UpdateOfMine ==
  ASSUME TypeOK, GuestNames, ~renamed, NEW t \in ClientThreads, Updates(db, db', client[t])
  PROVE  OthersOf(t, db') = OthersOf(t, db)
<1> DEFINE k == FindUserBySocket(db, client[t])
           i == FindUserByName(db, db.users[k].name)
<1>1. CASE db'.users = db.users
  BY <1>1 DEF OthersOf
<1>2. CASE db'.users # db.users
  <2>1. k \in 1..Len(db.users) /\ OneRecordChanges(db, db', i)
    BY <1>2, Zenon DEF Updates
  <2>2. db \in Db /\ client[t] \in Fd
    BY DEF TypeOK
  <2>3. db.users[k].sock = client[t]
    BY <2>1, <2>2, FirstOfSocket
  <2>4. i \in 1..Len(db.users) => db.users[i].name = db.users[k].name
    BY <2>2, FirstOfName
  <2> HIDE DEF k, i
  <2>5. ASSUME i \in 1..Len(db.users) PROVE db.users[i].sock = client[t]
    <3>1. \A j \in 1..Len(db.users) : db.users[j].name = Guest[db.users[j].sock] /\ db.users[j].sock \in Fd
      BY GuestNamesAre, ListOfUsers DEF Us, UserRecord
    <3>2. Guest[db.users[i].sock] = Guest[db.users[k].sock]
      BY <2>1, <2>4, <2>5, <3>1
    <3> QED
      BY <2>1, <2>3, <2>5, <3>1, <3>2, GuestsDiffer
  <2>6. RecordChanges(db, db', i)
    BY <2>1 DEF OneRecordChanges
  <2> QED
    BY <2>2, <2>5, <2>6, ChangeOfMine
<1> QED
  BY <1>1, <1>2

LEMMA RegisterOfMine ==
  ASSUME TypeOK, GuestNames, ~renamed, NEW t \in ClientThreads, Register(t)
  PROVE  OthersOf(t, db') = OthersOf(t, db)
<1> DEFINE c == client[t]
           n == Guest[c]
           m == AddUser(db, c, n)
           i == FindUserByName(m, n)
<1>1. db \in Db /\ c \in Fd /\ n \in Names /\ Lobby \in RoomNames
  BY GuestIsName DEF TypeOK
<1>2. db' = AddUserToRoom(m, n, Lobby)
  BY Zenon DEF Register, Commit
<1> HIDE DEF n
<1>3. Prepended(db, m, NewRecord(c, n)) /\ NewRecord(c, n) \in UserRecord
  BY <1>1, AddUserSpec, Zenon
<1> HIDE DEF m
<1>4. m \in Db
  BY <1>3, Zenon DEF Prepended
<1>5. RecordChanges(m, db', i)
  BY <1>1, <1>2, <1>4, AddUserToRoomChanges, Zenon DEF OneRecordChanges
<1>6. /\ Len(db.users) \in Nat /\ Len(m.users) = Len(db.users) + 1
      /\ m.users[1].sock = c /\ m.users[1].name = n
      /\ \A j \in 1..Len(db.users) : m.users[j + 1] = db.users[j]
  BY <1>3, ListOfUsers DEF Prepended, NewRecord
<1>7. \A j \in 1..Len(m.users) : j = 1 \/ (j - 1 \in 1..Len(db.users) /\ m.users[j] = db.users[j - 1])
  BY <1>6
<1>8. ASSUME NEW j \in 1..Len(m.users)
      PROVE  m.users[j].name = Guest[m.users[j].sock] /\ m.users[j].sock \in Fd
  <2>1. \A l \in 1..Len(db.users) : db.users[l].name = Guest[db.users[l].sock] /\ db.users[l].sock \in Fd
    BY GuestNamesAre, ListOfUsers DEF Us, UserRecord
  <2>2. n = Guest[c]
    BY DEF n
  <2>3. CASE j = 1
    BY <1>1, <1>6, <2>2, <2>3, Zenon
  <2>4. CASE j - 1 \in 1..Len(db.users) /\ m.users[j] = db.users[j - 1]
    BY <2>1, <2>4
  <2> QED
    BY <1>7, <2>3, <2>4
<1>9. i \in 1..Len(m.users) => m.users[i].name = n
  BY <1>4, FirstOfName
<1> HIDE DEF i
<1>10. i \in 1..Len(m.users) => m.users[i].sock = client[t]
  BY <1>1, <1>8, <1>9, GuestsDiffer DEF n
<1>11. OthersOf(t, db') = OthersOf(t, m)
  BY <1>4, <1>5, <1>10, ChangeOfMine
<1>12. OthersOf(t, m) = OthersOf(t, db)
  <2>1. \A j \in 1..Len(db.users) : j + 1 \in 1..Len(m.users)
    BY <1>6
  <2>2. \A j \in 1..Len(db.users) : \E l \in 1..Len(m.users) : m.users[l] = db.users[j]
    BY <1>6, <2>1
  <2>3. \A l \in 1..Len(m.users) : m.users[l].sock # client[t]
          => \E j \in 1..Len(db.users) : db.users[j] = m.users[l]
    BY <1>6, <1>7 DEF c
  <2> QED
    BY <1>1, <1>4, <2>2, <2>3, SameOthers
<1> QED
  BY <1>11, <1>12

LEMMA CleanupOfMine ==
  ASSUME TypeOK, NEW t \in ClientThreads, Unregisters(db, db', client[t])
  PROVE  OthersOf(t, db') = OthersOf(t, db)
<1> DEFINE k == FindUserBySocket(db, client[t])
<1>1. Len(db.users) \in Nat /\ db \in Db
  BY ListOfUsers DEF TypeOK
<1>0. db' = db \/ (k \in 1..Len(db.users) /\ db.users[k].sock = client[t] /\ Removed(db, db', k))
  BY Zenon DEF Unregisters
<1>2. CASE db' = db
  BY <1>2 DEF OthersOf
<1>3. CASE db' # db
  <2>1. k \in 1..Len(db.users) /\ db.users[k].sock = client[t] /\ Removed(db, db', k)
    BY <1>0, <1>3, Zenon
  <2> HIDE DEF k
  <2>2. /\ db' \in Db /\ Len(db'.users) = Len(db.users) - 1
        /\ \A j \in 1..(Len(db.users) - 1) : db'.users[j] = db.users[IF j < k THEN j ELSE j + 1]
    BY <2>1 DEF Removed
  <2>3. \A j \in 1..Len(db'.users) : \E i \in 1..Len(db.users) : db'.users[j] = db.users[i]
    BY <1>1, <2>2
  <2>4. ASSUME NEW i \in 1..Len(db.users), i # k
        PROVE  \E j \in 1..Len(db'.users) : db'.users[j] = db.users[i]
    <3>1. CASE i < k
      BY <1>1, <2>1, <2>2, <3>1
    <3>2. CASE i > k
      <4>1. i - 1 \in 1..Len(db'.users) /\ ~(i - 1 < k) /\ (i - 1) + 1 = i
        BY <1>1, <2>1, <2>2, <3>2
      <4>2. db'.users[i - 1] = db.users[i]
        BY <2>2, <4>1
      <4> QED
        BY <4>1, <4>2
    <3> QED
      BY <2>1, <2>4, <3>1, <3>2
  <2>5. \A i \in 1..Len(db.users) : db.users[i].sock # client[t]
          => \E j \in 1..Len(db'.users) : db'.users[j] = db.users[i]
    BY <2>1, <2>4
  <2>6. \A j \in 1..Len(db'.users) : db'.users[j].sock # client[t]
          => \E i \in 1..Len(db.users) : db.users[i] = db'.users[j]
    BY <2>3
  <2> QED
    BY <1>1, <2>2, <2>5, <2>6, SameOthers
<1> QED
  BY <1>2, <1>3

OnlyOwnStep == ~renamed => \A t \in ClientThreads : pc[t] = "w_in" /\ pc'[t] # "w_in"
                              => OthersOf(t, db') = OthersOf(t, db)

(* Only a thread's own operation takes it out of the lock's writing place. *)
LEMMA OwnOperation ==
  ASSUME TypeOK, OpFitsPlace, [Next]_vars, NEW t \in ClientThreads, pc[t] = "w_in", pc'[t] # "w_in"
  PROVE  Operation(t)
<1>0. pc \in [Threads -> LockPlaces \cup Elsewhere] /\ t \in Threads /\ t # Main
  BY MainIsNoClient DEF TypeOK
<1> USE DEF Goto
<1>1. ~UNCHANGED vars /\ ~Accept /\ ~Interrupt /\ ~Exit /\ ~CreateThread
  BY <1>0 DEF vars, Accept, Interrupt, Exit, CreateThread, Unborn
<1>2. ~FreeAll
  BY <1>0 DEF FreeAll, Commit
<1>3. ASSUME NEW u \in ClientThreads, ClientStep(u) PROVE Operation(t)
  <2>1. CASE u = t
    BY <1>3, <2>1 DEF ClientStep, Operation, Start, Receive, HangUp, Close, EndRead
  <2>2. CASE u # t
    <3>1. ~(Start(u) \/ Receive(u) \/ HangUp(u) \/ Close(u) \/ EndRead(u))
      BY <1>0, <2>2 DEF Start, Receive, HangUp, Close, EndRead
    <3>2. ~Operation(u)
      BY <1>0, <2>2, OperationIsCommit DEF Commit
    <3> QED
      BY <1>3, <3>1, <3>2 DEF ClientStep, Operation
  <2> QED
    BY <2>1, <2>2
<1>4. ASSUME NEW u \in Threads, LockStep(u) PROVE FALSE
  <2>1. PICK place : pc' = [pc EXCEPT ![u] = place] /\ LockMove(pc[u], place)
    BY <1>4, LockStepMoves
  <2> QED
    BY <1>0, <2>1 DEF LockMove
<1> QED
  BY <1>1, <1>2, <1>3, <1>4 DEF Next, Quiet

LEMMA OnlyOwn == Inv /\ [Next]_vars => OnlyOwnStep
<1> SUFFICES ASSUME Inv, [Next]_vars, ~renamed, NEW t \in ClientThreads, pc[t] = "w_in", pc'[t] # "w_in"
             PROVE  OthersOf(t, db') = OthersOf(t, db)
  BY DEF OnlyOwnStep
<1>1. TypeOK /\ OpFitsPlace /\ GuestNames /\ db \in Db
  BY DEF Inv, TypeOK
<1>2. Operation(t)
  BY <1>1, OwnOperation
<1>3. CASE Register(t)
  BY <1>1, <1>3, RegisterOfMine
<1>4. CASE UpdateOp(t)
  BY <1>1, <1>2, <1>4, OperationEffect, UpdateOfMine
<1>5. CASE Login(t)
  <2>1. RecordChanges(db, db', Me(t))
    BY <1>1, <1>2, <1>5, OperationEffect
  <2>2. Me(t) \in 1..Len(db.users) => db.users[Me(t)].sock = client[t]
    BY <1>1, FirstOfSocket DEF Me
  <2> QED
    BY <1>1, <2>1, <2>2, ChangeOfMine
<1>6. CASE Cleanup(t)
  BY <1>1, <1>2, <1>6, OperationEffect, CleanupOfMine
<1> QED
  BY <1>2, <1>3, <1>4, <1>5, <1>6 DEF Operation, UpdateOp

(* A command changes its client's record and no other as long as nobody has logged *)
(* in: the names by which the operations look for a record are then different.     *)
THEOREM OnlyOwnRecordChanges == Spec => OnlyOwnRecord
<1>1. Inv /\ [Next]_vars => [OnlyOwnStep]_vars
  BY OnlyOwn
<1>2. OnlyOwnRecord <=> [][OnlyOwnStep]_vars
  BY PTL DEF OnlyOwnRecord, OnlyOwnStep
<1> QED
  BY <1>1, <1>2, InvHolds, PTL DEF Spec
=============================================================================
