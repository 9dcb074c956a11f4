----------------------------- MODULE ChatServer -----------------------------
(***************************************************************************)
(* The chat server of project 3: the accept loop of main, one thread of    *)
(* client_receive per connection, and the SIGINT handler, over the lists   *)
(* of ChatRegistry under the lock of ChatLock.                             *)
(*                                                                         *)
(* What clients send is arbitrary: any command with any argument from the  *)
(* constants, or the end of the connection, at any time.  SIGINT may come  *)
(* at any time once main is in its accept loop; the kernel gives it to the *)
(* main thread.  Commands that touch no shared state (help, an empty line) *)
(* do not appear.                                                          *)
(***************************************************************************)
EXTENDS ChatRegistry

CONSTANTS ClientThreads,  \* the threads main can create, one per connection
          Main,           \* the main thread
          NoThread,
          Fds,            \* the descriptors left to connections
          Guest,          \* Guest[c]: the name "guest<c>" a thread starts with
          LoginNames,     \* the names clients log in with
          MaxRequests     \* bound: commands that clients send in all

NoFd == -1
Threads == ClientThreads \cup {Main}
Names == {Guest[c] : c \in Fds \cup {NoFd}} \cup LoginNames

ASSUME ServerAssumption ==
  /\ IsFiniteSet(ClientThreads) /\ Fds \subseteq Nat /\ Fds # {}
  /\ NoThread \notin Threads /\ Main \notin ClientThreads
  /\ Lobby \in RoomNames
  /\ MaxRequests \in Nat
  /\ \A c, d \in Fds \cup {NoFd} : Guest[c] = Guest[d] => c = d

VARIABLES mutex, rwLock, numReaders,  \* as in ChatLock
          pc,         \* where each thread is
          op,         \* the command each thread is serving
          client,     \* the local variable client of each thread
          newClient,  \* the variable new_client of main, whose address the threads get
          openFds,    \* the descriptors of connections that are open
          db,         \* the user list and the room list
          requests,   \* the commands received so far
          given,      \* history: the descriptor each thread was created for
          renamed     \* history: some login has changed a name

lockVars == <<mutex, rwLock, numReaders>>
history == <<given, renamed>>
vars == <<mutex, rwLock, numReaders, pc, op, client, newClient, openFds, db, requests, history>>

LockPlaces == {"w_want", "w_in", "r_want", "r_first", "r_entered", "r_in", "x_want",
               "x_last", "x_exit"}

(* The protocol of ChatLock; elsewhere a thread is idle as far as the lock goes. *)
lockPc == [t \in Threads |-> IF pc[t] \in LockPlaces THEN pc[t] ELSE "idle"]
L == INSTANCE ChatLock WITH pc <- lockPc

NoOp == [kind |-> "none"]
Commands == [kind : {"create", "join", "leave"}, room : RoomNames]
            \cup [kind : {"connect", "disconnect"}, name : {Guest[c] : c \in Fds} \cup LoginNames]
            \cup [kind : {"login"}, name : LoginNames]
            \cup [kind : {"read"}]

Init == /\ mutex = NoThread /\ rwLock = NoThread /\ numReaders = 0
        /\ pc = [t \in Threads |-> IF t = Main THEN "accept" ELSE "unborn"]
        /\ op = [t \in Threads |-> NoOp]
        /\ client = [t \in ClientThreads |-> NoFd]
        /\ newClient = NoFd
        /\ openFds = {}
        /\ db = AddRoom(EmptyDb, Lobby)
        /\ requests = 0
        /\ given = [t \in ClientThreads |-> NoFd] /\ renamed = FALSE

Running == pc[Main] # "exited"
Goto(t, from, to) == Running /\ pc[t] = from /\ pc' = [pc EXCEPT ![t] = to]
Unborn == {t \in ClientThreads : pc[t] = "unborn"}

-----------------------------------------------------------------------------
(* accept returns the lowest free descriptor, or fails when none is left. *)
AcceptClient == LET free == Fds \ openFds
                IN IF free = {} THEN NoFd ELSE CHOOSE c \in free : \A d \in free : c <= d

(* main.  Either result of accept is in new_client.  The variable is declared *)
(* in the loop, but every turn of the loop finds it in the same place.      *)
Accept == /\ Unborn # {}
          /\ newClient' = AcceptClient
          /\ Goto(Main, "accept", IF newClient' = NoFd THEN "accept" ELSE "create")
          /\ openFds' = openFds \cup ({newClient'} \ {NoFd})
          /\ UNCHANGED <<lockVars, op, client, db, requests, history>>

CreateThread == \E t \in Unborn :
                  /\ Running /\ pc[Main] = "create"
                  /\ pc' = [pc EXCEPT ![Main] = "accept", ![t] = "born"]
                  /\ given' = [given EXCEPT ![t] = newClient]
                  /\ UNCHANGED <<lockVars, op, client, newClient, openFds, db, requests, renamed>>

-----------------------------------------------------------------------------
(* client_receive, up to the lock.  The thread reads its descriptor through *)
(* the pointer it was given: whatever new_client holds by then.             *)
Start(t) == /\ Goto(t, "born", "w_want")
            /\ client' = [client EXCEPT ![t] = newClient]
            /\ op' = [op EXCEPT ![t] = [kind |-> "register"]]
            /\ UNCHANGED <<lockVars, newClient, openFds, db, requests, history>>

(* read() returns a command; "read" is a list or a message. *)
Receive(t) == /\ requests < MaxRequests
              /\ client[t] \in openFds
              /\ \E c \in Commands :
                   /\ Goto(t, "serving", IF c.kind = "read" THEN "r_want" ELSE "w_want")
                   /\ op' = [op EXCEPT ![t] = c]
              /\ requests' = requests + 1
              /\ UNCHANGED <<lockVars, client, newClient, openFds, db, history>>

(* Faults: the socket is closed before the record goes; the record goes without *)
(* the lock.                                                                    *)
HangUpClosing(t) == /\ Goto(t, "serving", "w_want")
                    /\ op' = [op EXCEPT ![t] = [kind |-> "cleanup"]]
                    /\ openFds' = openFds \ {client[t]}
                    /\ UNCHANGED <<lockVars, client, newClient, db, requests, history>>

HangUpUnlocked(t) == /\ Goto(t, "serving", "w_in")
                     /\ op' = [op EXCEPT ![t] = [kind |-> "cleanup"]]
                     /\ UNCHANGED <<lockVars, client, newClient, openFds, db, requests, history>>

(* read() fails or finds the end of the connection, or the command is exit. *)
HangUp(t) == /\ Goto(t, "serving", "w_want")
             /\ op' = [op EXCEPT ![t] = [kind |-> "cleanup"]]
             /\ UNCHANGED <<lockVars, client, newClient, openFds, db, requests, history>>

(* Taking and leaving the lock: the steps of ChatLock, on the pc of this module. *)
LockStep(t) == /\ Running
               /\ \/ pc' = [pc EXCEPT ![t] = "w_in"] /\ L!BeginWrite(t)
                  \/ pc' = [pc EXCEPT ![t] = "r_first"] /\ L!CountIn(t)
                  \/ pc' = [pc EXCEPT ![t] = "r_entered"] /\ L!CountIn(t)
                  \/ pc' = [pc EXCEPT ![t] = "r_entered"] /\ L!FirstReaderLocks(t)
                  \/ pc' = [pc EXCEPT ![t] = "r_in"] /\ L!BeginRead(t)
                  \/ pc' = [pc EXCEPT ![t] = "x_last"] /\ L!CountOut(t)
                  \/ pc' = [pc EXCEPT ![t] = "x_exit"] /\ L!CountOut(t)
                  \/ pc' = [pc EXCEPT ![t] = "x_exit"] /\ L!LastReaderUnlocks(t)
                  \/ pc' = [pc EXCEPT ![t] = "serving"] /\ L!ReleaseMutex(t)
               /\ UNCHANGED <<op, client, newClient, openFds, db, requests, history>>

(* The end of a writer: the lists change and rw_lock is unlocked. *)
Commit(t, kind, newDb, next) ==
  /\ op[t].kind = kind
  /\ Goto(t, "w_in", next)
  /\ rwLock' = NoThread
  /\ db' = newDb
  /\ op' = [op EXCEPT ![t] = NoOp]
  /\ renamed' = (renamed \/ (kind = "login" /\ newDb # db))
  /\ UNCHANGED <<mutex, numReaders, client, newClient, requests, given>>

Me(t) == FindUserBySocket(db, client[t])
MyName(t) == db.users[Me(t)].name

Register(t) ==
  /\ LET name == Guest[client[t]]
     IN Commit(t, "register", AddUserToRoom(AddUser(db, client[t], name), name, Lobby), "serving")
  /\ UNCHANGED openFds

Create(t) == Commit(t, "create", AddRoom(db, op[t].room), "serving") /\ UNCHANGED openFds

Join(t) == /\ Commit(t, "join",
                     IF Me(t) # 0 /\ RoomExists(db, op[t].room)
                     THEN AddUserToRoom(db, MyName(t), op[t].room) ELSE db, "serving")
           /\ UNCHANGED openFds

Leave(t) == /\ Commit(t, "leave",
                      IF Me(t) # 0 THEN RemoveUserFromRoom(db, MyName(t), op[t].room) ELSE db,
                      "serving")
            /\ UNCHANGED openFds

Connect(t) == /\ Commit(t, "connect",
                        IF Me(t) # 0 /\ FindUserByName(db, op[t].name) # 0
                        THEN AddDirectConnection(db, MyName(t), op[t].name) ELSE db, "serving")
              /\ UNCHANGED openFds

Disconnect(t) == /\ Commit(t, "disconnect",
                           IF Me(t) # 0 THEN RemoveDirectConnection(db, MyName(t), op[t].name)
                           ELSE db, "serving")
                 /\ UNCHANGED openFds

Login(t) == Commit(t, "login", RenameUser(db, client[t], op[t].name), "serving") /\ UNCHANGED openFds

Cleanup(t) == Commit(t, "cleanup", RemoveUser(db, client[t]), "closing") /\ UNCHANGED openFds

(* Outside the lock.  A descriptor that is closed already is left alone. *)
Close(t) == /\ t \in ClientThreads
            /\ Goto(t, "closing", "done")
            /\ openFds' = openFds \ {client[t]}
            /\ UNCHANGED <<lockVars, op, client, newClient, db, requests, history>>

(* The end of a reader's operation.  What it sends changes no state; the    *)
(* message goes to BroadcastTo(db, Me(t)), to nobody when Me(t) is 0.       *)
EndRead(t) == /\ Goto(t, "r_in", "x_want")
              /\ op' = [op EXCEPT ![t] = NoOp]
              /\ UNCHANGED <<lockVars, client, newClient, openFds, db, requests, history>>

-----------------------------------------------------------------------------
(* sigintHandler.  It interrupts main and never returns to it. *)
Interrupt == /\ pc[Main] \in {"accept", "create"}
             /\ pc' = [pc EXCEPT ![Main] = "w_want"]
             /\ op' = [op EXCEPT ![Main] = [kind |-> "shutdown"]]
             /\ UNCHANGED <<lockVars, client, newClient, openFds, db, requests, history>>

(* freeAllUsers closes the sockets in the user list. *)
FreeAll == /\ Commit(Main, "shutdown", EmptyDb, "closing")
           /\ openFds' = openFds \ {u.sock : u \in ToSet(db.users)}

(* close(chat_serv_sock_fd); exit(0). *)
Exit == /\ Goto(Main, "closing", "exited")
        /\ UNCHANGED <<lockVars, op, client, newClient, openFds, db, requests, history>>

(* Nothing is left to do: the process is gone, or every connection this     *)
(* instance has threads for has come and gone.                              *)
Quiet == /\ ~Running \/ \A t \in ClientThreads : pc[t] = "done"
         /\ UNCHANGED vars

ClientStep(t) == \/ Start(t) \/ Receive(t) \/ HangUp(t)
                 \/ Register(t) \/ Create(t) \/ Join(t) \/ Leave(t) \/ Connect(t)
                 \/ Disconnect(t) \/ Login(t) \/ Cleanup(t) \/ Close(t) \/ EndRead(t)

Next == \/ Accept \/ CreateThread \/ Interrupt \/ FreeAll \/ Exit
        \/ \E t \in ClientThreads : ClientStep(t)
        \/ \E t \in Threads : LockStep(t)
        \/ Quiet

Spec == Init /\ [][Next]_vars

-----------------------------------------------------------------------------
Users == ToSet(db.users)
Fd == Fds \cup {NoFd}

UserRecord == [sock : Fd, name : Names, rooms : [RoomNames -> Nat], dms : SUBSET Names]
Db == [users : Seq(UserRecord), rooms : UNION {[R -> SUBSET Names] : R \in SUBSET RoomNames}]

Elsewhere == {"accept", "create", "exited", "unborn", "born", "serving", "closing", "done"}

(* The values of the variables; in particular no room stands in a user's list a  *)
(* negative number of times, and sockets and names come from the constants.      *)
TypeOK == /\ pc \in [Threads -> LockPlaces \cup Elsewhere]
          /\ op \in [Threads -> Commands \cup [kind : {"none", "register", "cleanup", "shutdown"}]]
          /\ client \in [ClientThreads -> Fd] /\ newClient \in Fd /\ openFds \subseteq Fds
          /\ db \in Db
          /\ requests \in 0..MaxRequests
          /\ given \in [ClientThreads -> Fd] /\ renamed \in BOOLEAN

(* What a thread serves fits where it is.  Only the handler, on main's thread,   *)
(* shuts down, and main is never a reader.                                       *)
OpFitsPlace ==
  /\ pc[Main] \in {"accept", "create", "w_want", "w_in", "closing", "exited"}
  /\ op[Main].kind = IF pc[Main] \in {"w_want", "w_in"} THEN "shutdown" ELSE "none"
  /\ \A t \in ClientThreads :
       /\ pc[t] \notin {"accept", "create", "exited"}
       /\ op[t].kind \in CASE pc[t] \in {"w_want", "w_in"} ->
                                {"register", "create", "join", "leave", "connect", "disconnect",
                                 "login", "cleanup"}
                           [] pc[t] \in {"r_want", "r_first", "r_entered", "r_in"} -> {"read"}
                           [] OTHER -> {"none"}

(* The server takes its locks by the protocol of ChatLock; what is proved of the *)
(* protocol holds of the server.                                                 *)
ImplementsLock == L!Spec

(* The handler has freed the lists. *)
Freed == pc[Main] \in {"closing", "exited"}

Registered(t) == pc[t] \in LockPlaces \cup {"serving"} /\ op[t].kind # "register"

(* Every thread between its registration and its cleanup has a record under its  *)
(* descriptor, and there are no others, even when two threads got the same       *)
(* descriptor: so findUserBySocket never fails while the server runs, and the    *)
(* sender == NULL branch of client_receive is only for a server shutting down.   *)
OneRecordPerThread ==
  ~Freed => \A c \in Fd :
              Cardinality({i \in DOMAIN db.users : db.users[i].sock = c})
                = Cardinality({t \in ClientThreads : Registered(t) /\ client[t] = c})

(* Nobody has read newClient after the next accept overwrote it.                 *)
NobodyMisread == \A t \in ClientThreads : pc[t] \notin {"unborn", "born"} => client[t] = given[t]

(* As long as every thread found its own descriptor:                             *)
(* A record names an open descriptor of its own: broadcastMessage never sends to *)
(* a closed socket or to a stranger who was given the number again.  Close comes *)
(* after Cleanup for this reason.                                                *)
LiveSockets ==
  NobodyMisread =>
  /\ \A u \in Users : u.sock \in openFds
  /\ \A i, j \in DOMAIN db.users : db.users[i].sock = db.users[j].sock => i = j

(* What that rests on.  The threads that have a connection have one each; it is  *)
(* open until the thread or the handler closes it, and the handler closes those  *)
(* in the list only.  A record belongs to a registered thread.                   *)
Alive == {t \in ClientThreads : pc[t] \notin {"unborn", "done"}}
Coming == {t \in Alive : pc[t] = "born" \/ op[t].kind = "register"}
OwnDescriptors ==
  NobodyMisread =>
  /\ \A t, u \in Alive : given[t] = given[u] => t = u
  /\ \A t \in IF Freed THEN Coming ELSE Alive : given[t] \in openFds
  /\ pc[Main] = "create" => newClient \in openFds /\ \A t \in Alive : given[t] # newClient
  /\ \A u \in Users : \E t \in ClientThreads : Registered(t) /\ client[t] = u.sock

(* A name that no login has changed is the guest's name.                         *)
GuestNames == ~renamed => \A u \in Users : u.name = Guest[u.sock]

(* What holds between any two steps of main, the threads and the handler: the    *)
(* inductive invariant.                                                          *)
ServerInv == /\ L!LockInv
             /\ TypeOK
             /\ OpFitsPlace
             /\ OwnDescriptors
             /\ LiveSockets
             /\ GuestNames

(* The room lists of the users and the user lists of the rooms say the same.  It *)
(* holds as long as nobody changes names and every thread serves its own client. *)
RosterAgrees ==
  (NobodyMisread /\ ~renamed) =>
  /\ \A u \in Users, r \in RoomNames :
       u.rooms[r] = IF RoomExists(db, r) /\ u.name \in db.rooms[r] THEN 1 ELSE 0
  /\ \A r \in DOMAIN db.rooms : db.rooms[r] \subseteq {u.name : u \in Users}

(* A message reaches those who are in a room with its sender by the rooms' own   *)
(* lists, and those the sender is connected to, and nobody else; under the same  *)
(* conditions.                                                                    *)
MessagesReachRoomMates ==
  (NobodyMisread /\ ~renamed) =>
  \A i \in DOMAIN db.users :
    LET me == db.users[i]
    IN BroadcastTo(db, i) =
         {u.sock : u \in {v \in Users : /\ v.sock # me.sock
                                        /\ \/ v.name \in me.dms
                                           \/ \E r \in DOMAIN db.rooms : {me.name, v.name} \subseteq db.rooms[r]}}

OthersOf(t, database) == {u \in ToSet(database.users) : u.sock # client[t]}

(* A command changes nobody's record but the record of the client that sent it,  *)
(* even when descriptors are misread, until a login lets two users share a name.  *)
OnlyOwnRecord ==
  [][~renamed => \A t \in ClientThreads : pc[t] = "w_in" /\ pc'[t] # "w_in"
        => OthersOf(t, db') = OthersOf(t, db)]_vars

(* The comment of removeUser, "Remove user from all rooms they are in" (server.c *)
(* 269): once everybody has left, no room has a member.                          *)
DesertedRoomsAreEmpty == db.users = <<>> => \A r \in DOMAIN db.rooms : db.rooms[r] = {}

(* renameUser looks whether a name is free ("Ensure name uniqueness", server.c    *)
(* 251), addUser does not.  So if two users have one name, the one nearer to the  *)
(* front, whom findUserByName finds, is the guest of that number, and the other   *)
(* had the name before it came; even when descriptors are misread.                *)
GuestFoundFirst ==
  \A i, j \in DOMAIN db.users :
    i < j /\ db.users[i].name = db.users[j].name => db.users[i].name = Guest[db.users[i].sock]
=============================================================================
