------------------------------- MODULE Pipes --------------------------------
(***************************************************************************)
(* The programs of the labs that fork processes, join them by pipes and    *)
(* wait for them: pipes_processes1, 2 and 3 of lab 3 and main3 of lab 2.   *)
(* Each program is a script of system calls for each of its processes; a   *)
(* step is one call, and the processes interleave.  The scripts are the    *)
(* code; what the calls do, and what cat, grep and sort do once they have  *)
(* replaced a process, is modelled from how the programs use them.         *)
(*                                                                         *)
(* A fork or an exec may fail at any time, and processes may be killed     *)
(* (MaxKills).  The calls to pipe and dup2 do not fail for want of         *)
(* descriptors.  A line is a number, read and written as a whole.          *)
(***************************************************************************)
EXTENDS Integers, Sequences, FiniteSets, SequencesExt, Functions, TLC

CONSTANTS Scores,    \* the lines of the file scores
          Wanted,    \* the lines that grep lets through
          Typed,     \* the line typed to pipes_processes1
          Capacity,  \* bound: the lines a pipe holds
          MaxKills   \* bound: processes killed from outside

ASSUME PipesAssumption == /\ Scores \in Seq(Nat) /\ Wanted \subseteq Nat /\ Typed \in Nat
                          /\ Capacity \in Nat \ {0} /\ MaxKills \in Nat

Junk == -1  \* what an uninitialised buffer holds

Processes == {"P1", "P2", "P3"}
Pipe == {1, 2}

(* The calls.  The first pipe has the descriptors 3 and 4, the second 5 and 6. *)
pipe(k)       == [op |-> "pipe", pipe |-> k]
close(fd)     == [op |-> "close", fd |-> fd]
dup2(from, to) == [op |-> "dup2", from |-> from, to |-> to]
exec(tool)    == [op |-> "exec", tool |-> tool]
write(fd)     == [op |-> "write", fd |-> fd]
read(fd)      == [op |-> "read", fd |-> fd]
sleep         == [op |-> "sleep"]
wait          == [op |-> "wait"]
(* Checked: the program ends when it cannot fork; else it takes the parent's branch. *)
fork(child, checked) == [op |-> "fork", child |-> child, checked |-> checked]

READ(k)  == 2 * k + 1
WRITE(k) == 2 * k + 2

-----------------------------------------------------------------------------
(* pipes_processes1: the parent sends a line, the child prints it. *)
Sender   == <<pipe(1), pipe(2), fork("P2", TRUE), close(READ(1)), close(READ(2)),
              write(WRITE(1)), wait, close(WRITE(2)), close(WRITE(1))>>
Printer  == <<close(WRITE(1)), close(WRITE(2)), read(READ(1)), write(1), close(READ(1)), close(READ(2))>>

(* Fault: the child keeps the end it does not use. *)
GrepTwoKeepsEnd == <<dup2(READ(1), 0), exec("grep")>>

(* pipes_processes2: cat scores | grep.  The ends that were dup'ed stay open. *)
CatTwo  == <<pipe(1), fork("P2", FALSE), dup2(WRITE(1), 1), close(READ(1)), exec("cat")>>
GrepTwo == <<dup2(READ(1), 0), close(WRITE(1)), exec("grep")>>

(* Faults: an end is closed before it is dup'ed; the pipe between the two     *)
(* others is not closed.                                                      *)
GrepThreeClosesFirst ==
  <<fork("P3", TRUE), close(WRITE(1)), close(READ(2)), dup2(READ(1), 0), close(READ(1)),
    close(WRITE(2)), dup2(WRITE(2), 1), exec("grep")>>
SortThreeKeepsEnd == <<close(READ(1)), close(WRITE(2)), dup2(READ(2), 0), close(READ(2)), exec("sort")>>

(* pipes_processes3: cat scores | grep | sort. *)
CatThree == <<pipe(1), pipe(2), fork("P2", TRUE), close(READ(1)), close(READ(2)), close(WRITE(2)),
              dup2(WRITE(1), 1), close(WRITE(1)), exec("cat")>>
GrepThree == <<fork("P3", TRUE), close(WRITE(1)), close(READ(2)), dup2(READ(1), 0), close(READ(1)),
               dup2(WRITE(2), 1), close(WRITE(2)), exec("grep")>>
SortThree == <<close(READ(1)), close(WRITE(1)), close(WRITE(2)), dup2(READ(2), 0), close(READ(2)),
               exec("sort")>>

(* Fault: one wait for two children. *)
WaiterOnce == <<fork("P2", TRUE), fork("P3", TRUE), wait>>

(* main3: two children that sleep, and a parent that waits for both. *)
Waiter  == <<fork("P2", TRUE), fork("P3", TRUE), wait, wait>>
Sleeper == <<sleep, sleep>>

Script == [pipes1 |-> [P1 |-> Sender, P2 |-> Printer, P3 |-> <<>>],
           pipes2 |-> [P1 |-> CatTwo, P2 |-> GrepTwo, P3 |-> <<>>],
           pipes3 |-> [P1 |-> CatThree, P2 |-> GrepThree, P3 |-> SortThree],
           main3  |-> [P1 |-> Waiter, P2 |-> Sleeper, P3 |-> Sleeper]]
Programs == DOMAIN Script

-----------------------------------------------------------------------------
VARIABLES program,  \* which program runs
          state,    \* of each process: unborn, running, done, failed, killed
          ip,       \* the call it makes next
          tool,     \* own code, cat, grep, sort, or sort at its output (sorted)
          fds,      \* the files at its descriptors
          held,     \* the lines it holds
          pipes,    \* the lines in each pipe
          tty,      \* the lines on the terminal
          reaped,   \* the processes that have been waited for
          kills,
          disturbed \* history: a fork or an exec failed, or a process was killed

pipesVars == <<program, state, ip, tool, fds, held, pipes, tty, reaped, kills, disturbed>>

Tty == <<"tty", 0>>
Closed == <<"closed", 0>>
ReadEnd(k)  == <<"r", k>>
WriteEnd(k) == <<"w", k>>
Descriptors == {0, 1} \cup 3..6

PipesInit == /\ program \in Programs
             /\ state = [p \in Processes |-> IF p = "P1" THEN "running" ELSE "unborn"]
             /\ ip = [p \in Processes |-> 1]
             /\ tool = [p \in Processes |-> "own"]
             /\ fds = [p \in Processes |-> [d \in Descriptors |-> IF p = "P1" /\ d \in {0, 1} THEN Tty ELSE Closed]]
             /\ held = [p \in Processes |-> IF p = "P1" THEN <<Typed>> ELSE <<>>]
             /\ pipes = [k \in Pipe |-> <<>>]
             /\ tty = <<>> /\ reaped = {} /\ kills = 0 /\ disturbed = FALSE

Running(p) == state[p] = "running"
Ended(p)   == state[p] \in {"done", "failed", "killed"}
Holds(p, file) == \E d \in Descriptors : fds[p][d] = file
Readers(k) == {p \in Processes : Holds(p, ReadEnd(k))}
Writers(k) == {p \in Processes : Holds(p, WriteEnd(k))}

Code(p) == Script[program][p]
(* The process is at a call of its script. *)
At(p, op) == Running(p) /\ tool[p] = "own" /\ ip[p] <= Len(Code(p)) /\ Code(p)[ip[p]].op = op
Call(p) == Code(p)[ip[p]]
Advance(p) == ip' = [ip EXCEPT ![p] = @ + 1]

(* The end of a process closes its descriptors. *)
Die(p, how) == /\ state' = [state EXCEPT ![p] = how]
               /\ fds' = [fds EXCEPT ![p] = [d \in Descriptors |-> Closed]]

-----------------------------------------------------------------------------
(* The calls. *)
MakePipe(p) == /\ At(p, "pipe")
               /\ LET k == Call(p).pipe
                  IN fds' = [fds EXCEPT ![p][READ(k)] = ReadEnd(k), ![p][WRITE(k)] = WriteEnd(k)]
               /\ Advance(p)
               /\ UNCHANGED <<program, state, tool, held, pipes, tty, reaped, kills, disturbed>>

ForkChild(p) == /\ At(p, "fork")
                /\ LET child == Call(p).child
                   IN /\ state' = [state EXCEPT ![child] = "running"]
                      /\ fds' = [fds EXCEPT ![child] = fds[p]]
                /\ Advance(p)
                /\ UNCHANGED <<program, tool, held, pipes, tty, reaped, kills, disturbed>>

CannotFork(p) == /\ At(p, "fork")
                 /\ IF Call(p).checked THEN Die(p, "failed") /\ UNCHANGED ip
                    ELSE Advance(p) /\ UNCHANGED <<state, fds>>
                 /\ disturbed' = TRUE
                 /\ UNCHANGED <<program, tool, held, pipes, tty, reaped, kills>>

Close(p) == /\ At(p, "close")
            /\ fds' = [fds EXCEPT ![p][Call(p).fd] = Closed]
            /\ Advance(p)
            /\ UNCHANGED <<program, state, tool, held, pipes, tty, reaped, kills, disturbed>>

(* Without an open file to duplicate nothing happens. *)
Dup2(p) == /\ At(p, "dup2")
           /\ LET file == fds[p][Call(p).from]
              IN fds' = [fds EXCEPT ![p][Call(p).to] = IF file = Closed THEN @ ELSE file]
           /\ Advance(p)
           /\ UNCHANGED <<program, state, tool, held, pipes, tty, reaped, kills, disturbed>>

ExecTool(p) == /\ At(p, "exec")
               /\ tool' = [tool EXCEPT ![p] = Call(p).tool]
               /\ held' = [held EXCEPT ![p] = IF Call(p).tool = "cat" THEN Scores ELSE <<>>]
               /\ UNCHANGED <<program, state, ip, fds, pipes, tty, reaped, kills, disturbed>>

CannotExec(p) == /\ At(p, "exec")
                 /\ Die(p, "failed")
                 /\ disturbed' = TRUE
                 /\ UNCHANGED <<program, ip, tool, held, pipes, tty, reaped, kills>>

Sleep(p) == /\ At(p, "sleep") /\ Advance(p)
            /\ UNCHANGED <<program, state, tool, fds, held, pipes, tty, reaped, kills, disturbed>>

(* P1 waits for a child of its own; it has one whenever it waits. *)
Wait(p) == /\ At(p, "wait")
           /\ \E q \in Processes \ ({p} \cup reaped) : Ended(q) /\ reaped' = reaped \cup {q}
           /\ Advance(p)
           /\ UNCHANGED <<program, state, tool, fds, held, pipes, tty, kills, disturbed>>

(* The end of the code, or of what a tool has to print. *)
Exit(p) == /\ Running(p)
           /\ \/ tool[p] = "own" /\ ip[p] > Len(Code(p))
              \/ tool[p] \in {"cat", "sorted"} /\ held[p] = <<>>
           /\ Die(p, "done")
           /\ UNCHANGED <<program, ip, tool, held, pipes, tty, reaped, kills, disturbed>>

-----------------------------------------------------------------------------
(* Reading and writing: a call of the script, or what the tool does. *)
Reads(p) == \/ At(p, "read")
            \/ Running(p) /\ tool[p] = "grep" /\ held[p] = <<>>
            \/ Running(p) /\ tool[p] = "sort"
Input(p) == fds[p][IF tool[p] = "own" THEN Call(p).fd ELSE 0]

Writes(p) == \/ At(p, "write")
             \/ Running(p) /\ tool[p] \in {"cat", "grep", "sorted"} /\ held[p] # <<>>
Output(p) == fds[p][IF tool[p] = "own" THEN Call(p).fd ELSE 1]

Proceed(p) == IF tool[p] = "own" THEN Advance(p) ELSE UNCHANGED ip

ReadLine(p) ==
  /\ Reads(p)
  /\ \E k \in Pipe :
       /\ Input(p) = ReadEnd(k) /\ pipes[k] # <<>>
       /\ pipes' = [pipes EXCEPT ![k] = Tail(@)]
       /\ LET line == Head(pipes[k])
          IN held' = [held EXCEPT ![p] = IF tool[p] = "sort" THEN Append(@, line)
                                         ELSE IF tool[p] = "grep" /\ line \notin Wanted THEN <<>>
                                         ELSE <<line>>]
  /\ Proceed(p)
  /\ UNCHANGED <<program, state, tool, fds, tty, reaped, kills, disturbed>>

Sorted(lines) == \A i \in 1..Len(lines) - 1 : lines[i] <= lines[i + 1]
(* The sequence put in order, in every way. *)
Sortings(lines) ==
  {ordered \in {[i \in DOMAIN lines |-> lines[order[i]]] : order \in Bijection(DOMAIN lines, DOMAIN lines)} :
     Sorted(ordered)}

(* What a process holds once its input has ended: sort has its lines in order. *)
AtEOF(p) == IF tool[p] = "sort" THEN Sortings(held[p])
            ELSE {IF tool[p] = "own" THEN <<Junk>> ELSE held[p]}

(* The end of the input: the pipe is empty and nobody can write to it any more. *)
ReadEOF(p) ==
  /\ Reads(p)
  /\ \E k \in Pipe : Input(p) = ReadEnd(k) /\ pipes[k] = <<>> /\ Writers(k) = {}
  /\ IF tool[p] = "grep" THEN Die(p, "done") ELSE UNCHANGED <<state, fds>>
  /\ tool' = [tool EXCEPT ![p] = IF @ = "sort" THEN "sorted" ELSE @]
  /\ \E lines \in AtEOF(p) : held' = [held EXCEPT ![p] = lines]
  /\ Proceed(p)
  /\ UNCHANGED <<program, pipes, tty, reaped, kills, disturbed>>

WriteLine(p) ==
  /\ Writes(p)
  /\ \/ /\ Output(p) = Tty
        /\ tty' = Append(tty, Head(held[p]))
        /\ UNCHANGED pipes
     \/ \E k \in Pipe :
          /\ Output(p) = WriteEnd(k) /\ Readers(k) # {} /\ Len(pipes[k]) < Capacity
          /\ pipes' = [pipes EXCEPT ![k] = Append(@, Head(held[p]))]
          /\ UNCHANGED tty
  /\ held' = [held EXCEPT ![p] = Tail(@)]
  /\ Proceed(p)
  /\ UNCHANGED <<program, state, tool, fds, reaped, kills, disturbed>>

(* SIGPIPE: nobody can read any more. *)
BrokenPipe(p) ==
  /\ Writes(p)
  /\ \E k \in Pipe : Output(p) = WriteEnd(k) /\ Readers(k) = {}
  /\ Die(p, "killed")
  /\ UNCHANGED <<program, ip, tool, held, pipes, tty, reaped, kills, disturbed>>

Kill(p) == /\ Running(p) /\ kills < MaxKills
           /\ Die(p, "killed")
           /\ kills' = kills + 1 /\ disturbed' = TRUE
           /\ UNCHANGED <<program, ip, tool, held, pipes, tty, reaped>>

-----------------------------------------------------------------------------
Step(p) == \/ MakePipe(p) \/ ForkChild(p) \/ CannotFork(p) \/ Close(p) \/ Dup2(p) \/ ExecTool(p) \/ CannotExec(p)
           \/ Sleep(p) \/ Wait(p) \/ Exit(p) \/ ReadLine(p) \/ ReadEOF(p) \/ WriteLine(p) \/ BrokenPipe(p)

Over == \A p \in Processes : ~Running(p)

PipesNext == \/ \E p \in Processes : Step(p) \/ Kill(p)
             \/ Over /\ UNCHANGED pipesVars

PipesSpec == PipesInit /\ [][PipesNext]_pipesVars

(* The kernel runs every process that can go on. *)
PipesFairSpec == PipesSpec /\ \A p \in Processes : WF_pipesVars(Step(p))

-----------------------------------------------------------------------------
Lines == Range(Scores) \cup {Typed, Junk}

(* A parent that waits ends after all its children, if nobody kills it and it    *)
(* could fork them all.                                                          *)
ParentLast ==
  (program \in {"pipes1", "main3"} /\ state["P1"] = "done") =>
     \A p \in Processes \ {"P1"} : ~Running(p)

Files == {Tty, Closed} \cup {ReadEnd(k) : k \in Pipe} \cup {WriteEnd(k) : k \in Pipe}

PipesTypeOK ==
  /\ program \in Programs
  /\ state \in [Processes -> {"unborn", "running", "done", "failed", "killed"}]
  /\ tool \in [Processes -> {"own", "cat", "grep", "sort", "sorted"}]
  /\ ip \in [Processes -> Nat] /\ \A p \in Processes : ip[p] \in 1..Len(Code(p)) + 1
  /\ fds \in [Processes -> [Descriptors -> Files]]
  /\ held \in [Processes -> Seq(Lines)]
  /\ pipes \in [Pipe -> Seq(Lines)] /\ \A k \in Pipe : Len(pipes[k]) <= Capacity
  /\ tty \in Seq(Lines) /\ reaped \subseteq Processes /\ kills \in 0..MaxKills /\ disturbed \in BOOLEAN

(* A process other than P1 runs once the one fork that names it has been called, *)
(* and starts at its first call.                                                 *)
Forked(q) == \E p \in Processes : \E n \in 1..ip[p] - 1 : Code(p)[n].op = "fork" /\ Code(p)[n].child = q
Born == /\ state["P1"] # "unborn"
        /\ \A p \in Processes : state[p] = "unborn" => ip[p] = 1 /\ tool[p] = "own"
        /\ \A p \in Processes \ {"P1"} : state[p] # "unborn" => Forked(p)

(* It replaces its code at an exec, and without one is done at the end of it.    *)
Past(p, op) == \E n \in 1..ip[p] - 1 : Code(p)[n].op = op
ToolFits ==
  \A p \in Processes :
    IF tool[p] = "own" THEN state[p] = "done" => ip[p] = Len(Code(p)) + 1
    ELSE /\ state[p] = "done" => tool[p] # "sort" /\ held[p] = <<>>
         /\ ip[p] <= Len(Code(p)) /\ Call(p) = exec(IF tool[p] = "sorted" THEN "sort" ELSE tool[p])

(* Nothing of its own code runs after an exec: it fails or it replaces the code.  *)
ExecIsLast == \A p \in Processes : ~Past(p, "exec")

(* What a running process has at its descriptors follows from the calls it has   *)
(* made and from those its parent had made when it forked.                       *)
Called(p, call) == \E n \in 1..ip[p] - 1 : Code(p)[n] = call
Made(p, k) == IF p = "P1" THEN Called(p, pipe(k)) ELSE \E n \in 1..Len(Code("P1")) : Code("P1")[n] = pipe(k)
FilesFollow(p) ==
  \A k \in Pipe :
    /\ fds[p][READ(k)] \in {ReadEnd(k), Closed} /\ fds[p][WRITE(k)] \in {WriteEnd(k), Closed}
    /\ Made(p, k) /\ ~Called(p, close(READ(k))) => fds[p][READ(k)] = ReadEnd(k)
    /\ Made(p, k) /\ ~Called(p, close(WRITE(k))) => fds[p][WRITE(k)] = WriteEnd(k)
    /\ Called(p, close(WRITE(k))) => fds[p][WRITE(k)] = Closed
    /\ Called(p, dup2(READ(k), 0)) => fds[p][0] = ReadEnd(k)
    /\ Called(p, dup2(WRITE(k), 1)) <=> fds[p][1] = WriteEnd(k)
    /\ fds[p][1] \in {Tty} \cup {WriteEnd(j) : j \in Pipe}
    /\ fds[p][0] # WriteEnd(k)
FilesFit == \A p \in Processes : Running(p) => FilesFollow(p)

(* P1 holds a line until it has written it, and another process when it has read *)
(* one: there is a line to write whenever the code writes.                       *)
Loaded == \A p \in Processes :
            tool[p] = "own" /\ (p = "P1" \/ Past(p, "read")) /\ ~Past(p, "write") => held[p] # <<>>

(* P1 has waited for as many children as it has called wait, and they have ended. *)
Waited == /\ \A p \in reaped : p # "P1" /\ Ended(p)
          /\ Cardinality(reaped) = Cardinality({n \in 1..ip["P1"] - 1 : Code("P1")[n] = wait})

(* No process waits for the end of a pipe that it could write to itself, for the *)
(* closes before each read and exec see to it.                                   *)
InputsEnd == \A p \in Processes : Reads(p) =>
               \E k \in Pipe : Input(p) = ReadEnd(k) /\ p \notin Writers(k)

(* The values of the variables; who has been born, what it executes, has open and *)
(* has waited for, by the calls it has made; hence no process waits for the end   *)
(* of its own pipe, and a parent that waits ends after its children.              *)
PipesInv == /\ PipesTypeOK /\ Born /\ ToolFits /\ ExecIsLast /\ FilesFit /\ Loaded /\ Waited
            /\ InputsEnd /\ ParentLast

(* The lines of the file that grep lets through. *)
Kept[n \in 0..Len(Scores)] == IF n = 0 THEN <<>>
                              ELSE IF Scores[n] \in Wanted THEN Append(Kept[n - 1], Scores[n])
                              ELSE Kept[n - 1]
Filtered == Kept[Len(Scores)]

(* What the shell's pipeline would print. *)
IsOutput(lines) == /\ program = "pipes1" => lines = <<Typed>>
                   /\ program = "pipes2" => lines = Filtered
                   /\ program = "pipes3" => lines \in Sortings(Filtered)
                   /\ program = "main3"  => lines = <<>>

(* What cat has written is what grep has read and what is in the first pipe; what *)
(* grep let through of it is on the terminal and in its hands, or has gone to     *)
(* sort, is in the second pipe and in its hands; and what is on the terminal and  *)
(* in sort's hands in the end is all that sort has read.                          *)
Sent == IF tool["P1"] = "cat" THEN Len(Scores) - Len(held["P1"]) ELSE 0
Through == Sent - Len(pipes[1])

CatFlows == /\ Sent \in Nat /\ Through \in Nat
            /\ tool["P1"] = "cat" => \A i \in 1..Len(held["P1"]) : held["P1"][i] = Scores[Sent + i]
            /\ \A i \in 1..Len(pipes[1]) : pipes[1][i] = Scores[Through + i]
            /\ tool["P2"] = "own" => held["P2"] = <<>>
SortFlows ==
  \E got \in Prefixes(Kept[Through]) :
    /\ Kept[Through] = got \o (pipes[2] \o held["P2"])
    /\ tool["P3"] = "own" => got = <<>> /\ held["P3"] = <<>>
    /\ tool["P3"] = "sort" => got = held["P3"]
    /\ IF tool["P3"] = "sorted" THEN tty \o held["P3"] \in Sortings(got) ELSE tty = <<>>
LinesFlow == /\ program \in {"pipes2", "pipes3"} => CatFlows
             /\ program = "pipes2" => Kept[Through] = tty \o held["P2"]
             /\ program = "pipes3" => SortFlows
             /\ program = "main3" => tty = <<>>

(* Unless a call fails or somebody is killed: every child is born, nobody writes  *)
(* to a pipe that nobody reads, a process of a pipeline ends after the one before *)
(* it and with nothing left in its pipe, and the typed line is in one place.      *)
InOrder ==
  ~disturbed =>
    /\ \A p \in Processes : state[p] \in {"unborn", "running", "done"}
    /\ \A p \in Processes : \A n \in 1..ip[p] - 1 : Code(p)[n].op = "fork" => state[Code(p)[n].child] # "unborn"
    /\ program \in {"pipes2", "pipes3"} /\ state["P2"] = "done" => state["P1"] = "done" /\ pipes[1] = <<>>
    /\ program = "pipes3" /\ tool["P3"] = "sorted" => state["P2"] = "done" /\ pipes[2] = <<>>
    /\ program = "pipes1" => /\ (tty \o held["P2"]) \o (pipes[1] \o held["P1"]) = <<Typed>>
                             /\ Past("P2", "write") => tty # <<>>

(* If nothing fails, what the shell's pipeline would print is on the terminal at *)
(* the end, and no process is killed by SIGPIPE.  Whatever fails, grep's lines   *)
(* are a first part of it, and sort's of a first part of it in order.            *)
OutputIsRight ==
  /\ LinesFlow /\ InOrder
  /\ (Over /\ ~disturbed) => IsOutput(tty) /\ \A p \in Processes : state[p] \in {"done", "unborn"}
  /\ program = "pipes2" => IsPrefix(tty, Filtered)
  /\ program = "pipes3" => \E got \in Prefixes(Filtered) : \E lines \in Sortings(got) : IsPrefix(tty, lines)

(* Every process ends, whichever of them is killed or cannot be made: an end     *)
(* that is left open somewhere would keep a reader waiting for ever.             *)
AllEnd == <>Over
=============================================================================
