# A verification of Operating-Systems-Fall2025

The repository is a term of operating-systems work in C: a chat server, a shell, two bank accounts,
a producer/consumer monitor, simulators of scheduling and memory management, and smaller exercises.
Each is a program of its own; none calls another. This directory holds TLA+ models of those whose
behaviour is hard to test, TLC configurations that check them, and proofs that TLAPS checks.

`PROJECT.json` lists the components, runs, faults (mutants), findings, hazards and theorems, and for
every definition the source lines it stands for.

## 1. Inventory

Paths are under `src/`. P2 stands for `Project 2 - Part 1 and Part 2/`.

| Component | State | Operations | Hard behaviour | Correct when |
|---|---|---|---|---|
| **Chat server** `project-3--building-your-own-chat-service/` `server.c`, `server_client.c` | two mutexes and `numReaders`; the user list with each user's rooms and direct connections; the room list with each room's users; descriptors | accept; per connection: register, create, join, leave, connect, disconnect, login, lists, message, exit; SIGINT | one thread per connection; readers/writer lock by hand; the pointer to `new_client` shared with every thread; two lists tied together by copies of names; descriptors used again; shutdown in a signal handler | writers are alone; lists agree; messages reach the right sockets and open ones; one record per thread |
| **Ben's Chilli Bowl** `P2/project-2--part-2---.../BENSCHILLIBOWL/` | a queue of orders with counters; a mutex, two conditions | AddOrder, GetOrder, CloseRestaurant; customers, cooks, main | woken threads race with new ones; one signal per order; the cooks' test without the mutex | no lost wake-up; each order is served once, in order; nothing is left at closing |
| **Bank with a semaphore** `P2/project-2---part-1---.../shm_processes.c` | a balance in shared memory; a named semaphore that outlives the program | a visit by Dad, Mom, a student; kill; start; cleanup | a kill between wait and post; a second run that inherits the semaphore | at most one inside; no update lost; the balance within bounds |
| **Bank by turns** `lab-3--part-2---processes-and-shared-memory/bank_account.c` | a balance and a turn in shared memory | copy, wait for the turn, act, hand over | the copy is taken before the wait; a busy wait on the other's last turn | strict alternation; both finish |
| **Memory simulator** `lab-8--memory-management-simulation/MMU/` | list of free, list of allocated blocks | allocate, free, coalesce under first, best, worst fit | long sequences that split, move and merge blocks; off-by-ones in sizes | the lists partition the memory; each policy chooses what it should |
| **Quash** `project-1--create-a-simple-shell--quash-/shell.c` | the child processes, `command_p`, `timer_pid` | foreground and background commands, a timer child, Ctrl-C, exit; built-ins, redirection | process numbers used again; failing forks; signals at any moment | signals hit the command and nobody else; the prompt comes back |
| **Scheduling simulator** `lab-5--scheduling-simulator/SchedSim/` | a list of processes with burst, arrival, priority; the waiting times | FCFS, SJF, priority, round robin | gaps between arrivals; preemption; multiples of the quantum | SJF is optimal, round robin fair; it ends |
| **Pipes** `lab-3--part-1---processes-and-pipes/` and `lab-2--part-1---intro-to-processes/main3.c` | two pipes, the descriptors of up to three processes | pipe, fork, close, dup2, exec, read, write, wait | ends inherited by every process; forks and execs that fail; SIGPIPE; processes killed in the middle | the output is that of the shell's pipeline; nobody waits for an end of file that cannot come; a parent waits for all its children |
| **Lab 4 client and server** `lab-4--simple-client-server-using-tcp-sockets/` `serv.c`, `cli.c`, `list.c` | a linked list with a counter; one accepted connection and a backlog | a command per message: add, remove, get, length, print, exit | `accept` is called once; the results of `recv` are not looked at; indices at the ends of the list | commands are executed once and answered in step, on a list that is sound |
| **Linked list** `Lab : Linked Lists/list.c` | a linked list without a counter | add, remove, get, search, positions from 1 | the limits of positions | it does what the other list does |
| **Matrix threads** `lab-7---programming-using-threads/matrix/` | matrices, one thread per block of rows | fill, add, multiply, print | none left: ids are passed by pointers that last, rows are disjoint, main joins | every element is written once and before it is read |
| **Exercises** of labs 2, 3 and 5 | - | fork, alarm, menus | none of interest | - |

The programs do not interact. Within the chat server, threads interact through the lists and locks and
through `new_client`; in the Chilli Bowl through the monitor; in the banks through shared memory and the
semaphore or the turn; in the shell through signals and `waitpid`.

The **hazards** in `PROJECT.json` are what the properties below are for. Those without a property are:
starvation of the chat server's writers (readers have preference, and nothing promises otherwise); SIGINT
while the lock is held by the interrupted thread (a plain self-deadlock, outside what the model lets
happen); two threads of the chat server on one descriptor because main's `new_client` was read late (nothing
says whom a thread serves; the chat server's properties hold in spite of it or claim nothing after it);
`send` of the chat server that blocks or raises SIGPIPE (its network is not modelled); the number that
`AddOrder` returns, read before the wait (its only caller throws it away); Quash's background children,
which are never waited for, its timer that Ctrl-C wakes and the timer that could not be started (the models
do what the code does, see section 5); requests for memory of less than one address (likewise); and the
clients in the list server's backlog, which nobody serves (nothing promises them anything).

## 2. The modules

| Module | Stands for | Actions |
|---|---|---|
| `RWExclusion` | abstract: a readers/writer lock | begin and end of reading and writing |
| `ChatLock` | `mutex`, `rw_lock`, `numReaders` as `client_receive` uses them | one per lock, unlock and count; `Proceed(t)` gathers what a thread does once it has asked |
| `ChatRegistry` | the functions of `server.c` on the two lists, as operators on one value `db` | none: each runs under `rw_lock` |
| `ChatServer` | main, the threads, the handler; composes `ChatRegistry` with `ChatLock` (`LockStep` *is* `ChatLock`'s steps, by `INSTANCE`) | one per command; `Commit` is the end of a writer: the operation and the unlock |
| `OrderBook` | abstract: at most `MaxSize` orders wait; a cook with empty hands gets the one that has waited longest, with its number and its customer | place, serve, finish |
| `BensChilliBowl` | `BENSCHILLIBOWL.c` and `main.c` | what a thread does from one lock or unlock to the next; the unlocked `Check` |
| `Bank` | the sums that both bank programs use | none: their constants |
| `BankSemaphore` | `shm_processes.c` | a visit in four steps, the start, a start in which a fork fails, the kills, the cleanup |
| `BankTurns` | `bank_account.c` | one per access to the shared memory |
| `MMU` | `mmu.c`, `list.c` | the three instructions |
| `Shell` | `shell.c`: processes and signals | each call to fork, waitpid, kill; the timer; Ctrl-C; other programs |
| `SchedSim` | `schedsim.c` | FCFS and priority at once, SJF and round robin turn by turn |
| `Pipes` | the three pipe programs of lab 3 and `main3.c` of lab 2, each a script of system calls for each of its processes, with the calls as the kernel makes them | one per system call; what cat, grep and sort do after exec; SIGPIPE; kills |
| `LinkedList` | `list.c` of lab 4, with its nodes, next pointers and counter | none: operators on one list value |
| `RemoteList` | abstract: a sequence of numbers and one command at a time, taken, executed, answered | take, execute, down |
| `ListServer` | `serv.c` and `cli.c` over `LinkedList` | one per command of the server; connect, send, receive and quit of the clients |
| `LabList` | `list.c` of the linked-list lab, on the same pointers | none: operators |
| `TwoLists` | the two lists side by side: what they must agree on | those of `ListServer` |

`MC...` modules give the constants their values. `...Proofs` modules hold theorems and proofs. A
definition introduced by a comment that begins with "Fault" is a plausible bug; it is used nowhere in
the specification, and `PROJECT.json` pairs it with the definition it would replace and with the
property that would then fail: every property of every passing run has one.

### What the models leave out

* **Chat server**: text. Names and rooms are values; a guest's name is a function of its descriptor,
  as in `guest<fd>`. Replies change no state and are left out, and of a message only the set of sockets
  it is sent to is kept (`BroadcastTo`). A list's order is kept for users, where the first match
  counts, and dropped for rooms and members, where no function depends on it. Commands that touch
  nothing shared (help, empty lines) are left out. `pthread_create` is taken to succeed. SIGINT comes
  to main in its accept loop. Fixed-size buffers are not modelled.
* **Chilli Bowl**: the menu item, and the memory of orders except who holds each.
* **Bank with a semaphore**: the failures of the start before the first fork (`shmget`, `shmat`,
  `sem_open`), which change nothing that lasts. A fork that fails is `ForkFails`: main unlinks the semaphore
  and exits. The children it has already made are not followed: they go on with memory of that run's own,
  most of them with a semaphore that has no name any more (one that opens the name late finds none, or the
  semaphore of the next run and queues there). The dice are any value the code could draw; the decision
  whether to write at all is part of them.
* **Bank by turns**: each access to an aligned int is one step (the program is built without
  optimisation, so the compiler does not hoist the busy wait).
* **Memory simulator**: parsing, printing, and the list functions no instruction calls. A request is any
  integer (`Requests`), as the file gives it; what the properties say of the blocks, they say of requests of
  at least 1 (`AtLeastOne`). Instructions that find nothing print an error and change nothing; they are
  stuttering steps.
* **Pipes**: `pipe` and `dup2` do not fail, for there are few descriptors; forks and execs may. A line is
  read and written whole. `main3`'s children sleep twice instead of up to thirty times. grep reads and
  writes line by line, sort writes when it has read everything. The concatenation of
  `pipes_processes1.c` is layout.
* **Lab 4**: the sockets are local, so a command or an answer arrives whole, and `bind` and `listen`
  succeed. Words and numbers are the fields of a record. A missing argument ends the server, as
  `atoi(NULL)` does. `recv` with a negative result writes to `buf[-1]`, a byte of another buffer that is
  not read; the model treats it like 0. malloc takes the lowest free address, so that addresses are used
  again at once (the proofs use no more than that the address is free).
* **Linked list**: printing, `listToString` (which appends to memory nobody has set), and `main.c`'s
  tests. `list_alloc` returns no value; the model starts from the list it builds.
* **Shell**: built-ins but exit, redirection, the parser. Process numbers are a small set from which the
  kernel takes any free one, so that numbers are used again at once. `command_p` is set in the step
  that forks the timer.
* **Scheduling simulator**: the file's parser and the tables. `min_bt` and the counters are
  mathematical integers, and SJF's time is capped by `MaxTime`; a burst is at least 1.

## 3. The runs

All bounds are constants of the modules. "Stops" says why deadlock is not checked where it is not.

* **chat_lock** - `ChatLock`, four threads that read and write as they like. `LockInv` is the inductive
  invariant (counting is serialised by `mutex`; readers are covered by `rw_lock`; the first and the last
  reader are alone; a locked `rw_lock` has somebody answerable for it). `Exclusion`: a writer is alone,
  though the reader that unlocks is seldom the one that locked. `ImplementsRW`: refinement of `RWExclusion`.
  `SomebodyIsServed`: whenever a thread waits, some thread gets in. Four threads give every case of first,
  middle and last reader with a writer waiting. *Fairness*: a thread in the protocol that can take a step
  takes it in the end (the scheduler; operations under the lock end). A client need never ask again. Which
  waiting thread a mutex serves is open, so that no particular thread is promised anything.
* **chat** - `ChatServer` with three connections over two descriptors (so that one is given out again), two
  rooms, two commands in all, among them a login as `guest5`, the name of a guest to come; clients may
  connect so fast that a thread reads main's `new_client` after the next accept (server.c:385-389). In any
  case: `ServerInv`, the inductive invariant (the lock's own, the types, which command a thread can be at
  where, which descriptors it may hold, guests' names); `OneRecordPerThread`, even two threads on one
  descriptor have one record each until they clean up, so `findUserBySocket` finds somebody, whichever it
  is; `GuestFoundFirst`, if two users have one name, the one in front is the guest of that number, since
  renameUser looks whether a name is free (server.c:251) and addUser does not; and `ImplementsLock`, the
  server follows `ChatLock`, so everything proved of the protocol holds of the server. As long as nobody has
  misread a descriptor (`NobodyMisread`): `LiveSockets`, sockets in the list are open and distinct, because
  a thread leaves the list before it closes. If moreover no login has changed a name (`renamed` remembers):
  `RosterAgrees`, the users' room lists and the rooms' user lists say the same; `MessagesReachRoomMates`, a
  broadcast goes to those the rooms' lists name, and to direct connections; `OnlyOwnRecord`, a command
  changes its sender's record only. The conditions are what the code needs: without them the runs find the
  properties violated. Two commands are enough for two clients in one room and a broadcast or a leave at the
  hang-up; a third multiplies the states without a new kind of step.
* **chat_ghosts** (violation) - "Remove user from all rooms they are in" (server.c:269): a user who has
  logged in under a new name is removed under that name, and the rooms keep the old one for ever.
* **chilli** - two customers with two orders each, three cooks, a queue of two, one spurious wake-up.
  `ChilliInv` is the inductive invariant, with `NoLostWakeup`: for every order in the queue a cook is awake
  whenever another waits, and likewise for free places. `ClosedComplete`: when the restaurant closes, all
  orders are handled. `ImplementsBook`: refinement of `OrderBook`: each order is handed out once, the oldest
  first, with the number and the customer it was placed with, to a cook whose hands are empty, and none is
  thrown away, not even when `CloseRestaurant` frees the queue. `AllOrdersHandled`: every order is placed
  and handled in the end. Stops: the last cook may wait for ever (next run). *Fairness*: threads that can
  run, run; no spurious wake-up is relied on.
* **chilli_close** (violation) - main waits for all cooks and closes the restaurant (main.c:70-71), and
  GetOrder is to tell the others when nothing is left: a cook that tests `orders_handled` just before the
  last order is taken waits for ever. One customer with one order and two cooks are enough.
* **bank** - the program's own sums, Dad, Mom and two students, two runs, kills of one process or of all at
  any point, a start in which a fork fails. `BankInv`: the semaphore's token is in the semaphore, with the
  process inside, or lost to a kill (`TokenAccounted`), even in the next run, which finds the semaphore as
  it was left; no balance is stale when it is used; the account stays within 0 and 225. `VisitsGoOn`: unless
  a kill takes the token, visits begin again and again, and each of them ends. Stops: processes locked out
  by a lost token wait for ever; so the liveness property names that case. *Fairness*: each process that can
  go on goes on.
* **turns** - all 25 rounds, with a limit of 3 and sums of 4 and 2, which keep every comparison the
  program's sums meet. `TurnsInv` is the inductive invariant: the turns alternate, whatever is overwritten
  the balance stays within its bounds, and a waiting process's copy is exact until the other acts
  (`ExactUntilActed`). `StaleByOneTurn`: a copy is never older than the other's last turn. `BothFinish`.
  Stops: the program ends. *Fairness*: both processes are scheduled.
* **mmu** - every sequence of instructions of two processes on six addresses, with requests of 1 to 6, under
  each policy (what others would do is in section 5). `MemoryIsPartitioned`: every address is in exactly one
  block, and the allocated blocks are in the order of addresses. `MMUInv` is the inductive invariant: no
  block is empty, the blocks of both lists are apart and cover the partition, and the free list is in the
  order that the next insertion relies on. `FitsPolicy`: best fit takes the smallest block that is large
  enough and worst fit the largest, until an instruction coalesces the list; after that the list is in the
  order of addresses and neither holds, which is why the property names the condition. It holds in spite of
  the missing `+ 1` in `list_add_descending_by_blocksize`. `CoalesceMergesAll`. Six addresses allow three
  free blocks of different sizes between allocated ones.
* **shell** - three process numbers, so that a command, its timer and one other process exist together and
  numbers are used again at once; two seconds. `ShellInv`, which is inductive: the foreground command keeps
  its number until the shell has waited for it, the timer aims at that command, one timer at most is alive,
  at the prompt only background commands are left, every child's copy of `command_p` is the number of the
  command now waited for or of one that is over (`CopiesAreOld`), and a process is where its kind allows
  (`PhasesFit`). `StrangersHitByReuseOnly`: a process that is not the shell's is hit only if it has the
  number of a finished foreground command or if the timer's fork has failed (`kill(-1, SIGKILL)`,
  shell.c:162). `BackAtPrompt`: a foreground command is over in the end, even if it ignores everything, if
  its timer was started. Stops: the user leaves. *Fairness*: the shell and the timer run when they can, and
  time passes; a command need never end.
* **sched** - every file of one to three processes with bursts 1 to 3, arrivals 0, 1 or 4 and two
  priorities, quantum 2. `SjfIsOptimal`: the waiting time that SJF finds in all is the least that any
  schedule could reach, by a reference definition that tries them all. `RRIsFair`: a process waits for one
  slice of each other between two of its own, and the last ends when all work is done. `SchedInv`, which is
  inductive, has a part for each policy: under FCFS and priority stretches do not overlap and follow the
  order (`OneAtATime`); SJF counts the finished processes and goes on with one that has least left
  (`ShortestRuns`); after so many rounds of round robin every process has had so many slices, and the clock
  shows the work done (`RoundsKept`). `EndsIfKeptBusy`: the program ends if there is no gap between arrivals,
  and otherwise SJF counts a finished process below zero and never ends (`is_found` is not reset,
  schedsim.c:58). `MaxTime` is above the sum of any file's bursts and arrivals, so that it stops nothing but
  that. Stops: main ends. *Fairness*: the program runs.
* **pipes** - each of the four programs on a file of four lines of which grep lets three through, pipes that
  hold one line, two kills, and a fork or exec that may fail each time. `PipesInv`: who has been born
  (`Born`), what it executes (`ToolFits`, `ExecIsLast`), what it has at its descriptors (`FilesFit`) and whom
  it has waited for (`Waited`), by the calls it has made; hence no process ever waits for the end of a pipe
  whose write end it holds itself (`InputsEnd`), and a parent that waits ends after its children
  (`ParentLast`). `OutputIsRight`: undisturbed, the terminal shows what the shell's pipeline would, and nobody
  dies of SIGPIPE; disturbed, grep's lines are a first part of that, and sort's are sorted lines of it. It
  names what leads to that: every line of the file is on the terminal, in a pipe or in somebody's hands, or
  grep has dropped it, and in order (`LinesFlow`); undisturbed, a process of a pipeline ends after the one
  before it, with nothing left in its pipe (`InOrder`). Sort may print equal lines in any order (`Sortings`).
  `AllEnd`: every process ends, whichever is killed or cannot be started. *Fairness*: the
  kernel runs every process that can take a step.
* **listserver** - a client with three commands and one with a single command, so that one of them waits in
  the backlog; two values, indices from 0 to 2, clients that go at any moment. `ListServerInv`: with the
  values of the variables and the phases behind `Lockstep`, the list in memory is sound after every command:
  no node lost or used after its free, the chain ends, the counter is its length. `Lockstep`: one command or
  answer at a time is under way to each client, and as long as there is a server the response a client
  prints answers its last command - which it must, for neither side looks at what `recv` returns.
  `ImplementsRemoteList`: refinement of `RemoteList`. `LabListAgrees`: on every list that comes up, and for
  indices from below the first to beyond the last, the other list of the repository does the same.
  `ServedIsAnswered`: the client that is served gets its answer or finds the server gone; the others may
  wait for ever, since `accept` is called once. Three commands build lists of up to three nodes, with an
  insertion at each end and in the middle, and take from either end of lists of up to two. A removal from
  the middle of three would be a fourth command, and is left to the theorems: `TakeNode` (section 4) is
  about every index of every list. *Fairness*: the server and the clients' `recv` go on; users type or quit
  as they like.

## 4. What is proved

TLAPS checks these for every value of the constants that satisfies the assumption named in the module. The
assumptions say that constants have their types, that sets of threads are finite, that names which stand for
different things differ, and what the program fixes: a queue has a place, a partition an address, a
restaurant a cook (`NUM_COOKS` is 2), process numbers are positive, and two descriptors never give the same
`guest<fd>`.

Every run's invariants that appear here are proved by an inductive invariant which TLC checks on the same
run first: `LockInv`, `ServerInv`, `ChilliInv`, `BankInv`, `TurnsInv`, `ShellInv`, `MMUInv`, `SchedInv`,
`PipesInv`, `ListServerInv`. Where one of them is a conjunction, its parts are named for what they say, and
the proof of a step has a lemma for each action.

* `ChatLockProofs` (`ThreadsAssumption`): `LockInvariant`, `ExclusionTheorem`, `RefinesRW`. `Exclusion`
  alone is not inductive: that a reader who unlocks does not unlock under a writer needs `numReaders` to be
  exact, which needs `mutex` to serialise the counting, and the first reader to wait alone. The refinement
  maps readers to the threads at `r_in` and writers to those at `w_in`.
* `ChatServerProofs` (`ServerAssumption`): first what the operations of `ChatRegistry` do to the two lists,
  each as a lemma; then `ServerImplementsLock` - every step of main, a thread or the handler is a step of
  `ChatLock` or none - which carries `LockInv` over to the server, and `ServerInvariant`. On these rest
  `SocketsAreLive`, `OneRecordEach`, `NamesAreTakenOnce`, `RostersAgree`, `MessagesReach` and
  `OnlyOwnRecordChanges`. Mutual exclusion is what makes an operation one step. `OneRecordEach` is a count:
  a record belongs to no thread in particular once two of them were given one descriptor, but there are as
  many records under a descriptor as registered threads that use it, and each operation changes both numbers
  alike. `RostersAgree` needs that guests' names are those of their descriptors (`GuestNames`), so that a
  name stands for one user; and that is just what a login ends.
* `BensChilliProofs` (`ChilliAssumption`): `ChilliInvariant`, `RefinesBook`, `OneOwnerTheorem`,
  `ClosesComplete`. The heart is `NoLostWakeup`. It says more than that a waiting thread has something to
  wait for: it counts the threads awake in GetOrder (holding the mutex or waiting for it) against the
  orders, because a signal sent to one thread may be used up by another. `OneOwner`, that an
  order is in one pair of hands and not in the queue any more, needs besides that what a cook holds has a
  number already handled, while `QueueInOrder` says that what is queued has a later one. (The run does
  not list it: `ImplementsBook` fails where it does.)
  `RefinesBook` maps the queue to the sequence of its customers; since numbers follow each other there, the
  order at the head has the number `handled + 1`, as the book has it. That a cook has put down one order
  before it is given the next needs `EmptyHands`: it holds one only while it cooks. That the freeing of the
  queue at closing is a step of the book at all needs the count of orders, by which nothing waits then.
  For `ClosesComplete` the orders placed are counted by pairs of a customer and a turn, so that no sum over
  customers is needed: main closes after every cook has gone, a cook goes only when as many are handled as
  were expected, and more than that are never placed. Without a cook main would close at once; hence `Cooks
  # {}`.
* `BankProofs`, about both bank programs (`SumsAssumption`; `BankAssumption`, `TurnsAssumption`):
  `BankInvariant`, for the program with the semaphore: `TokenAccounted` carries mutual exclusion across kills
  and restarts; with it `FreshBalance` is inductive, and with that `WithinMeans`. `TurnsInvariant` and
  `CopiesStaleByOneTurn`, for the program by turns: that a copy is stale by one turn at most is not
  inductive: one needs `ExactUntilActed`, that it was not stale at all before the other acted, and that a
  process writes in its own turn only.
* `ProcessProofs`, about the programs that fork processes. `ShellInvariant` and `StrangersAreSafe`
  (`ShellAssumption`): that a signal meets a stranger only by a number that was a command's needs to know of
  every copy of `command_p` - the shell's, and those of timers that were forked for earlier commands - which
  number it is (`CopiesAreOld`). `PipesInvariant` and `PipesOutput` (`PipesAssumption`), for any file, any
  lines that grep lets through, any size of the pipes and any number of kills: the four programs are fixed
  scripts, and what the proofs need of them (an end is dup'ed before it is closed, the other ends are closed
  before a read or an exec, each child has one fork) is checked call by call, once (`CodeIsGood`). Then what
  is at a descriptor follows from the calls made before, through every fork, dup2 and close, and `InputsEnd`
  and `ParentLast` follow from that; the latter by counting the calls to wait against the children. For
  `OutputIsRight` the number of lines that cat has written and that grep has read says where each line is,
  and an end of file is seen only when the writer before has ended, since nobody else holds the write end:
  so that grep and sort end when they have read all there was. Without `FilesFit` neither `LinesFlow` nor
  `InOrder` is inductive, for a line could go to a file other than the next pipe.
* `SchedProofs` (`SchedAssumption`): `SchedInvariant` and `RoundRobinIsFair`, for any file and any quantum.
  The work done and the finished processes are sums and sets over the list, which change at one process in
  each step; that a sum changes by as much is an induction on subsets. FCFS and priority compute waiting
  times by a recursion along the order, shown to exist and to keep stretches apart by least counterexample.
  For fairness, `RoundsKept` says how many slices every process has had when round robin comes to it; a
  process with as much left as that number leaves cannot have waited for more than one slice of each of the
  others in every round.
* `MMUProofs` (`MMUAssumption`): `MMUInvariant`, `MemoryStaysPartitioned`, `PoliciesFit`,
  `NothingLeftToCoalesce`, each for requests of at least 1: `AtLeastOne` is a hypothesis of the theorem, not
  an assumption of the module, since the program lets other requests in (section 5). It is used where a
  request cuts a block in two, and where a block is chosen for it. Every change of a list is an insertion or
  the reverse of one (`Inserted(l, k, b, m)`: m is l with b at k), and a few lemmas say what an insertion
  does to the addresses covered, to disjointness and to each of the three orders. Coalescing sorts the list
  and merges it by recursive functions. That they exist and that what they return is sorted, covers the same
  addresses and has no two neighbours that touch is proved by least counterexample: among the indices at
  which the walk is wrong there would be a least one.
* `ListServerProofs` (`ListServerAssumption`): `StaysInLockstep`, `ListServerInvariant`,
  `RefinesRemoteList`, `ListsOfBothLabsAgree`. For the messages, `Phases` says where the last command of
  each client is: nowhere, sent, with the server, answered; each step takes one client to the next phase.
  For the pointers, the invariant has to name the chain: `Linked(l, c)` says that the nodes of the sequence
  c are those allocated, none twice, and each points to the next. `PutNode` and `TakeNode` say what linking
  in and unlinking a node at k does, whichever function does it; either keeps a list linked and inserts or
  removes at k in the sequence of its values, and every operation of `list.c` is one of the two or changes
  nothing. That gives both the invariant and the refinement of `RemoteList`. The recursive walks, `Chain`
  and `NodeAt`, are shown to find c by least counterexample. The other lab's list makes the same changes to
  the nodes, so that on a linked list each pair of operations agrees at every index.

Only model-checked:

* liveness (`SomebodyIsServed`, `AllOrdersHandled`, `VisitsGoOn`, `BothFinish`, `BackAtPrompt`, `AllEnd`,
  `EndsIfKeptBusy`, `ServedIsAnswered`): it needs ENABLED, which the prover does not handle;
* `SjfIsOptimal` of `SchedSim`: it compares SJF with a search through all schedules, and a proof would have
  to exchange slices in an arbitrary schedule, an induction over data for which the provers here have no
  means.

## 5. What the models show of the code

* A user who logs in leaves its old name behind in its rooms (`chat_ghosts`). Names need not be unique
  either: `renameUser` looks (server.c:251-252), `addUser` does not, so a client that logs in as `guest5`
  shares its name with the next guest on descriptor 5. That is the only way to it (`GuestFoundFirst`).
* The last cooks may wait for ever for orders that will not come (`chilli_close`).
* A bank process killed inside locks out its run and every later one, until somebody unlinks the semaphore
  (`TokenAccounted`).
* Ctrl-C ends the sleep of Quash's timer (`CtrlC`), which then kills a command that survived the Ctrl-C
  before its time, though "processes running longer than 10 seconds in the foreground are terminated"
  (README:38) and commands are to "handle signals normally" (README:76). A failed fork of the timer
  leaves a command that nothing ends (the condition of `BackAtPrompt`), and when it does end the shell kills
  everything it may (`StrangersHitByReuseOnly` names the case).
* SJF does not end when the machine falls idle between arrivals (`EndsIfKeptBusy`).
* Best and worst fit hold only until the first coalesce (`FitsPolicy`). Nothing between the file and
  `allocate_memory` looks at the size of a request (util.c:25, mmu.c:204-206): one of 0 makes an empty
  block, and with a negative one the fragment that goes back (mmu.c:81-91) begins in front of the block,
  over addresses given out before.
* The pipe programs close what they must: all end, whatever fails. `pipes_processes2.c` leaves its own
  dup'ed ends open, which does no harm, and its parent does not wait.
* The list server serves one client only: others connect, send and wait for ever; when its client goes
  without `exit` it spins.

## 6. Not modelled, and plan

Not modelled, because nothing in them depends on an order of steps or on a state that lasts: the matrix
threads (each thread writes rows of its own, the ids are passed by pointers into an array that lasts, which
is what its comment warns of, and main joins before it prints); the sorting and menus with function
pointers; the shared-memory examples that came with the assignments; the one-fork programs and the alarm
programs of lab 2; the shell's environment, parser and redirections; the chat server's text. `PROJECT.json`
has the reason for each.

Modelled first was what is concurrent and shared: the chat server's lock, then its lists and threads, the
monitor, the banks, the shell; then the two simulators; then the pipes and the list server. What is left:

1. *More of the chat server*: what a login breaks, as an invariant that says which names may be stale.
2. *Optimality of SJF* for any file: the exchange argument, over schedules as functions of time.
3. *The chat server's network*: a `send` that blocks or finds its peer gone, and the thread it stops.
