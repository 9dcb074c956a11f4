----------------------------- MODULE ListServer -----------------------------
(***************************************************************************)
(* The client and the server of lab 4 (cli.c, serv.c) over the list of     *)
(* LinkedList.  The server accepts one connection and serves it until the  *)
(* client sends exit; it never accepts another, though the backlog of its  *)
(* socket lets others connect, send a command and wait.  Client and server *)
(* take turns, and connections are local: a command or an answer arrives   *)
(* as a whole.                                                             *)
(*                                                                         *)
(* A client may be killed or find the end of its input at any time.  A     *)
(* command whose argument is missing ends the server (atoi of NULL).       *)
(***************************************************************************)
EXTENDS LinkedList

CONSTANTS Clients, NoClient,
          Values, Indices,  \* the arguments that clients type
          MaxCommands       \* bound: the commands that each client sends

ASSUME ListServerAssumption == /\ NoClient \notin Clients /\ Values \subseteq Int /\ Indices \subseteq Int
                               /\ MaxCommands \in [Clients -> Nat]

Command(name, index, value) == [name |-> name, index |-> index, value |-> value]

(* "other" is anything the server does not know, such as menu. *)
ListCommands ==
  {Command(name, 0, 0) : name \in {"get_length", "print", "remove_front", "remove_back", "other"}}
  \cup {Command(name, 0, v) : name \in {"add_front", "add_back"}, v \in Values}
  \cup {Command("add_position", i, v) : i \in Indices, v \in Values}
  \cup {Command(name, i, 0) : name \in {"get", "remove_position"}, i \in Indices}

Exit == Command("exit", 0, 0)
Incomplete == Command("incomplete", 0, 0)
Commands == ListCommands \cup {Exit, Incomplete}

NoCommand == Command("none", 0, 0)
NoReply == [name |-> "none", result |-> <<>>]

VARIABLES server,    \* accepting, receiving, executing or ended
          clientSocket, \* the client it serves
          backlog,   \* the connections that wait to be accepted
          mylist, buf, sbuf,
          pc,        \* of each client: outside, prompt, awaiting or gone
          inbox,     \* what a client has sent and the server has not received
          outbox,    \* what the server has sent and the client has not received
          shown,     \* responeData of each client: what the response it printed last answers
          asked,     \* history: the name of the last command of each client
          sent       \* the commands each client has sent

vars == <<server, clientSocket, backlog, mylist, buf, sbuf, pc, inbox, outbox, shown, asked, sent>>
serverVars == <<server, clientSocket, mylist, buf, sbuf>>
clientVars == <<pc, shown, asked, sent>>

Init == /\ server = "accepting" /\ clientSocket = NoClient /\ backlog = <<>>
        /\ mylist = EmptyList /\ buf = NoCommand /\ sbuf = NoReply
        /\ pc = [c \in Clients |-> "outside"]
        /\ inbox = [c \in Clients |-> <<>>] /\ outbox = [c \in Clients |-> <<>>]
        /\ shown = [c \in Clients |-> "none"] /\ asked = [c \in Clients |-> "none"]
        /\ sent = [c \in Clients |-> 0]

Goto(c, from, to) == pc[c] = from /\ pc' = [pc EXCEPT ![c] = to]

-----------------------------------------------------------------------------
(* cli.c.  Without a server connect fails and the client ends. *)
Connect(c) == /\ Goto(c, "outside", IF server = "ended" THEN "gone" ELSE "prompt")
              /\ backlog' = IF server = "ended" THEN backlog ELSE Append(backlog, c)
              /\ UNCHANGED <<serverVars, inbox, outbox, shown, asked, sent>>

SendThen(c, next(_)) ==
  /\ sent[c] < MaxCommands[c] /\ server # "ended"
  /\ \E command \in Commands :
       /\ Goto(c, "prompt", next(command))
       /\ inbox' = [inbox EXCEPT ![c] = Append(@, command)]
       /\ asked' = [asked EXCEPT ![c] = command.name]
  /\ sent' = [sent EXCEPT ![c] = @ + 1]
  /\ UNCHANGED <<serverVars, backlog, outbox, shown>>

(* Fault: the client does not wait for the response to menu. *)
SendMenuAndGoOn(c) ==
  SendThen(c, LAMBDA command : IF command = Exit THEN "gone"
                               ELSE IF command.name = "other" THEN "prompt" ELSE "awaiting")

(* A command is sent before it is looked at: after exit the client ends,    *)
(* after anything else it waits for a response.                             *)
Send(c) == SendThen(c, LAMBDA command : IF command = Exit THEN "gone" ELSE "awaiting")

(* The server has ended: what is sent is lost, or SIGPIPE kills the client. *)
SendToNobody(c) == /\ sent[c] < MaxCommands[c] /\ server = "ended"
                   /\ \E to \in {"awaiting", "gone"} : Goto(c, "prompt", to)
                   /\ sent' = [sent EXCEPT ![c] = @ + 1]
                   /\ UNCHANGED <<serverVars, backlog, inbox, outbox, shown, asked>>

Receive(c) == /\ outbox[c] # <<>>
              /\ Goto(c, "awaiting", "prompt")
              /\ shown' = [shown EXCEPT ![c] = Head(outbox[c]).name]
              /\ outbox' = [outbox EXCEPT ![c] = Tail(@)]
              /\ UNCHANGED <<serverVars, backlog, inbox, asked, sent>>

(* recv finds the connection closed.  Its result is not looked at: the last   *)
(* response is printed once more.                                             *)
ReceiveNothing(c) == /\ outbox[c] = <<>> /\ server = "ended"
                     /\ Goto(c, "awaiting", "prompt")
                     /\ UNCHANGED <<serverVars, backlog, inbox, outbox, shown, asked, sent>>

(* The client is killed, or at the end of its input. *)
Quit(c) == /\ \E from \in {"prompt", "awaiting"} : Goto(c, from, "gone")
           /\ outbox' = [outbox EXCEPT ![c] = <<>>]
           /\ shown' = [shown EXCEPT ![c] = "none"] /\ asked' = [asked EXCEPT ![c] = "none"]
           /\ UNCHANGED <<serverVars, backlog, inbox, sent>>

-----------------------------------------------------------------------------
(* serv.c.  accept is called once. *)
Accept == /\ server = "accepting" /\ backlog # <<>>
          /\ server' = "receiving"
          /\ clientSocket' = Head(backlog) /\ backlog' = Tail(backlog)
          /\ UNCHANGED <<mylist, buf, sbuf, inbox, outbox, clientVars>>

(* recv returns a command. *)
Recv == /\ server = "receiving" /\ inbox[clientSocket] # <<>>
        /\ server' = "executing"
        /\ buf' = Head(inbox[clientSocket])
        /\ inbox' = [inbox EXCEPT ![clientSocket] = Tail(@)]
        /\ UNCHANGED <<clientSocket, backlog, mylist, sbuf, outbox, clientVars>>

(* recv returns 0 or less, at once and for ever: the client has gone. *)
Spin == /\ server = "receiving" /\ inbox[clientSocket] = <<>> /\ pc[clientSocket] = "gone"
        /\ UNCHANGED vars

(* The list function, sprintf and send of a command.  What is sent to a client *)
(* that has gone is lost.                                                      *)
Respond(name, list, result) ==
  /\ server = "executing" /\ buf.name = name
  /\ server' = "receiving"
  /\ mylist' = list
  /\ sbuf' = [name |-> name, result |-> result]
  /\ outbox' = IF pc[clientSocket] = "gone" THEN outbox
               ELSE [outbox EXCEPT ![clientSocket] = Append(@, sbuf')]
  /\ buf' = NoCommand
  /\ UNCHANGED <<clientSocket, backlog, inbox, clientVars>>

AddFront    == Respond("add_front", AddToFront(mylist, buf.value), <<buf.value>>)
AddBack     == Respond("add_back", AddToBack(mylist, buf.value), <<buf.value>>)
(* Acknowledged whether or not the index exists. *)
AddPosition == Respond("add_position", AddAtIndex(mylist, buf.index, buf.value), <<buf.value>>)

Remove(name, result) == Respond(name, result.list, <<result.value>>)
RemoveFront    == Remove("remove_front", RemoveFromFront(mylist))
RemoveBack     == Remove("remove_back", RemoveFromBack(mylist))
RemovePosition == Remove("remove_position", RemoveAtIndex(mylist, buf.index))

Get       == Respond("get", mylist, <<GetElemAt(mylist, buf.index)>>)
GetLength == Respond("get_length", mylist, <<mylist.length>>)
PrintList == Respond("print", mylist, Elements(mylist))

(* Fault: no response to a command that the server does not know. *)
UnknownUnanswered == /\ server = "executing" /\ buf.name = "other"
                     /\ server' = "receiving" /\ buf' = NoCommand
                     /\ UNCHANGED <<clientSocket, backlog, mylist, sbuf, inbox, outbox, clientVars>>

Unknown == Respond("other", mylist, <<>>)

(* exit, or the fault that a missing argument causes: the process is gone,  *)
(* and with it every connection, accepted or not.                           *)
End == /\ server = "executing" /\ buf \in {Exit, Incomplete}
       /\ server' = "ended"
       /\ mylist' = EmptyList /\ buf' = NoCommand /\ sbuf' = NoReply
       /\ backlog' = <<>>
       /\ inbox' = [c \in Clients |-> <<>>]
       /\ UNCHANGED <<clientSocket, outbox, clientVars>>

-----------------------------------------------------------------------------
ServerStep == \/ Accept \/ Recv \/ AddFront \/ AddBack \/ AddPosition \/ RemoveFront \/ RemoveBack
              \/ RemovePosition \/ Get \/ GetLength \/ PrintList \/ Unknown \/ End

(* Nothing is left to do. *)
Ended == /\ server = "ended" /\ \A c \in Clients : pc[c] = "gone"
         /\ UNCHANGED vars

Next == \/ ServerStep \/ Spin \/ Ended
        \/ \E c \in Clients : \/ Connect(c) \/ Send(c) \/ SendToNobody(c) \/ Receive(c)
                              \/ ReceiveNothing(c) \/ Quit(c)

Spec == Init /\ [][Next]_vars

(* The programs go on; whether users type, connect or quit is theirs. *)
FairSpec == Spec /\ WF_vars(ServerStep)
            /\ \A c \in Clients : WF_vars(Receive(c)) /\ WF_vars(ReceiveNothing(c))

-----------------------------------------------------------------------------
Names == {command.name : command \in Commands \cup {NoCommand}}
Replies == [name : Names, result : Seq(Int)]

(* Where a client's last command is.                                             *)
Executing(c) == server = "executing" /\ clientSocket = c

(* Nowhere: it has been answered, and the client has printed the answer; or the  *)
(* server has ended without one.                                                 *)
Quiet(c) == /\ inbox[c] = <<>> /\ outbox[c] = <<>> /\ ~Executing(c)
            /\ server # "ended" => pc[c] # "awaiting"
            /\ server # "ended" /\ pc[c] \in {"outside", "prompt"} => shown[c] = asked[c]

Sent(c) == /\ server # "ended" /\ pc[c] \in {"awaiting", "gone"} /\ ~Executing(c)
           /\ outbox[c] = <<>>
           /\ \E m \in Commands : inbox[c] = <<m>> /\ (pc[c] = "awaiting" => m.name = asked[c])

Served(c) == /\ Executing(c) /\ pc[c] \in {"awaiting", "gone"}
             /\ inbox[c] = <<>> /\ outbox[c] = <<>>
             /\ pc[c] = "awaiting" => buf.name = asked[c]

Answered(c) == /\ pc[c] = "awaiting" /\ ~Executing(c)
               /\ inbox[c] = <<>>
               /\ Len(outbox[c]) = 1 /\ outbox[c] = <<outbox[c][1]>> /\ outbox[c][1].name = asked[c]

(* The inductive invariant behind Lockstep. *)
Phases == \A c \in Clients : Quiet(c) \/ Sent(c) \/ Served(c) \/ Answered(c)

(* The values of the variables, and the phases; and the list in the server's     *)
(* memory is sound after every command: list->length is the number of nodes, the *)
(* chain of nodes ends, and no node is lost or used after its free.              *)
ListServerInv ==
  /\ server \in {"accepting", "receiving", "executing", "ended"}
  /\ clientSocket \in Clients \cup {NoClient}
  /\ (clientSocket = NoClient) <=> (server = "accepting")
  /\ buf \in Commands \cup {NoCommand} /\ sbuf \in Replies
  /\ pc \in [Clients -> {"outside", "prompt", "awaiting", "gone"}]
  /\ \A c \in Clients : shown[c] \in Names /\ asked[c] \in Names
  /\ Phases
  /\ ListIsSound(mylist)

InFlight(c) == Len(inbox[c]) + Len(outbox[c])
               + IF server = "executing" /\ clientSocket = c THEN 1 ELSE 0

(* Client and server take turns: a client that waits has one command or answer    *)
(* under way, one at the prompt has none, so that no two arrive in one recv and   *)
(* the server never sends twice to a client that has gone (which would kill it).  *)
(* And as long as there is a server, a client prints the answer to the command it *)
(* sent last, not to an earlier one.                                              *)
Lockstep ==
  \A c \in Clients :
    /\ InFlight(c) <= 1
    /\ pc[c] = "prompt" => InFlight(c) = 0
    /\ server # "ended" => /\ pc[c] = "awaiting" => InFlight(c) = 1
                           /\ pc[c] = "prompt" => shown[c] = asked[c]

Promised == INSTANCE RemoteList
              WITH elements <- Elements(mylist), command <- buf, reply <- sbuf, up <- server # "ended"

(* The pointers, the counter and the indices of list.c implement a sequence of    *)
(* numbers, and every command is executed on it once and answered accordingly.    *)
ImplementsRemoteList == Promised!Spec

(* The client that is served gets an answer, or finds that the server has ended.  *)
(* (One in the backlog may wait for ever: accept is called once.)                 *)
ServedIsAnswered ==
  \A c \in Clients : (pc[c] = "awaiting" /\ clientSocket = c) ~> pc[c] # "awaiting"
=============================================================================
