------------------------------- MODULE Shell --------------------------------
(***************************************************************************)
(* Quash (shell.c): a shell that runs a command in the foreground, with a  *)
(* second child as its timer, or in the background, and catches Ctrl-C.    *)
(*                                                                         *)
(* The module is about processes and signals.  A command does what it      *)
(* likes: it ends or runs for ever, dies of SIGINT or handles it.  The     *)
(* kernel gives a process any number that is free, and other programs'     *)
(* processes (strangers) come and go.  Built-in commands but exit, and     *)
(* redirection, start no process and do not appear.                        *)
(***************************************************************************)
EXTENDS Integers

CONSTANTS Pids,     \* process numbers
          NoPid,    \* -1: what a failed fork returns, and command_p at first
          TIMEOUT   \* 10: the seconds a foreground command may run

ASSUME ShellAssumption == NoPid \notin Pids /\ TIMEOUT \in Nat

VARIABLES shell,      \* where the shell is in its loop
          pid,        \* its variable pid while a foreground command is served
          timer_pid,  \* likewise
          command_p,  \* the global variable
          proc,       \* the processes
          elapsed,    \* the seconds the timer has slept
          finished    \* history: the numbers that foreground commands have had

vars == <<shell, pid, timer_pid, command_p, proc, elapsed, finished>>

(***************************************************************************)
(* A command is young until it has restored SIGINT's default and called    *)
(* execvp: so long it has the shell's handler and a copy of command_p.     *)
(* The timer has both as long as it lives; it sleeps, is awake (about to   *)
(* kill the command) and leaves.  An ended process is a zombie.  A number  *)
(* of kind "none" is free.                                                 *)
(***************************************************************************)
Process(kind, phase, copy) == [kind |-> kind, phase |-> phase, command_p |-> copy]
NoProcess == Process("none", "ended", NoPid)

Is(kind) == {q \in Pids : proc[q].kind = kind}
Free == Is("none")
Commands == Is("foreground") \cup Is("background")
Children == Commands \cup Is("timer")
In(phase) == {q \in Children : proc[q].phase = phase}
HasHandler == {q \in Children : proc[q].phase \in {"young", "sleeping", "awake", "leaving"}}

Init == /\ shell = "prompt"
        /\ pid = NoPid /\ timer_pid = NoPid /\ command_p = NoPid
        /\ proc = [q \in Pids |-> NoProcess]
        /\ elapsed = 0
        /\ finished = {}

(* The process table after some processes die: a child stays as a zombie until *)
(* the shell waits for it, a stranger is somebody else's to wait for.          *)
After(dead) == [q \in Pids |-> CASE q \in dead /\ q \in Children -> Process(proc[q].kind, "ended", NoPid)
                                 [] q \in dead /\ q \notin Children -> NoProcess
                                 [] q \notin dead -> proc[q]]

-----------------------------------------------------------------------------
(* The main loop.  Forking a command may fail; the shell says so and goes on. *)
Fork(kind) == \E q \in Free :
                /\ shell = "prompt"
                /\ proc' = [proc EXCEPT ![q] = Process(kind, "young", command_p)]
                /\ IF kind = "foreground" THEN shell' = "forked" /\ pid' = q
                   ELSE UNCHANGED <<shell, pid>>
                /\ UNCHANGED <<timer_pid, command_p, elapsed, finished>>

(* The timer's fork may fail too, and that is not looked at.  command_p is set  *)
(* just before; a SIGINT in between is one more to a command that gets one from *)
(* the terminal.                                                                *)
StartTimer == /\ shell = "forked"
              /\ command_p' = pid
              /\ \/ \E q \in Free : /\ timer_pid' = q
                                    /\ proc' = [proc EXCEPT ![q] = Process("timer", "sleeping", pid)]
                 \/ timer_pid' = NoPid /\ UNCHANGED proc
              /\ elapsed' = 0
              /\ shell' = "waiting"
              /\ UNCHANGED <<pid, finished>>

(* Fault: any command that has ended is waited for. *)
ReapAnyCommand == /\ shell = "waiting"
                  /\ \E q \in Commands : /\ proc[q].phase = "ended"
                                         /\ proc' = [proc EXCEPT ![q] = NoProcess]
                  /\ finished' = finished \cup {pid}
                  /\ shell' = "killing"
                  /\ UNCHANGED <<pid, timer_pid, command_p, elapsed>>

(* waitpid(pid) *)
ReapCommand == /\ shell = "waiting" /\ proc[pid].phase = "ended"
               /\ proc' = [proc EXCEPT ![pid] = NoProcess]
               /\ finished' = finished \cup {pid}
               /\ shell' = "killing"
               /\ UNCHANGED <<pid, timer_pid, command_p, elapsed>>

(* kill(timer_pid, SIGKILL), which kills all there is if timer_pid is -1. *)
KillTimer == /\ shell = "killing"
             /\ proc' = After(IF timer_pid = NoPid THEN Pids \ Free ELSE {timer_pid})
             /\ shell' = "reaping"
             /\ UNCHANGED <<pid, timer_pid, command_p, elapsed, finished>>

(* waitpid(timer_pid), which takes any child if timer_pid is -1. *)
ReapTimer == /\ shell = "reaping"
             /\ LET mine == IF timer_pid = NoPid THEN Children ELSE {timer_pid}
                IN \/ mine = {} /\ UNCHANGED proc
                   \/ \E q \in mine : /\ proc[q].phase = "ended"
                                      /\ proc' = [proc EXCEPT ![q] = NoProcess]
             /\ shell' = "prompt"
             /\ pid' = NoPid /\ timer_pid' = NoPid
             /\ UNCHANGED <<command_p, elapsed, finished>>

(* exit, or the end of the input. *)
Leave == /\ shell = "prompt" /\ shell' = "gone"
         /\ UNCHANGED <<pid, timer_pid, command_p, proc, elapsed, finished>>

-----------------------------------------------------------------------------
(* Fault: a command_p of -1 is not left out: the signal goes to everybody. *)
ForwardedUnchecked == IF command_p = NoPid THEN Pids \ Free
                      ELSE ({command_p} \cup {proc[q].command_p : q \in HasHandler}) \ {NoPid}

(* signal_handler, in the shell and in the children that still have it: Ctrl-C *)
(* goes to the whole terminal group, background commands and timer included,   *)
(* and each handler sends it on to its command_p.                              *)
Forwarded == ({command_p} \cup {proc[q].command_p : q \in HasHandler}) \ {NoPid}

(* A sleep that a handler interrupts is over: the timer goes on to kill. *)
CtrlC == /\ shell # "gone"
         /\ LET hit    == Children \cup Forwarded
                mortal == {q \in hit : proc[q].phase = "running"}
            IN \E dead \in SUBSET mortal :
                 proc' = [q \in Pids |-> IF q \in hit /\ proc[q].phase = "sleeping"
                                         THEN [proc[q] EXCEPT !.phase = "awake"]
                                         ELSE After(dead)[q]]
         /\ UNCHANGED <<shell, pid, timer_pid, command_p, elapsed, finished>>

(* The timer, terminate_pro, whose argument pid is what its copy of command_p  *)
(* holds.  The copy goes with the handler.                                     *)
Move(q, from, to) ==
  /\ q \in In(from)
  /\ proc' = [proc EXCEPT ![q] = Process(@.kind, to, IF to \in {"running", "ended"} THEN NoPid
                                                     ELSE @.command_p)]
  /\ UNCHANGED <<shell, pid, timer_pid, command_p, elapsed, finished>>

Tick == /\ In("sleeping") # {} /\ elapsed < TIMEOUT
        /\ elapsed' = elapsed + 1
        /\ UNCHANGED <<shell, pid, timer_pid, command_p, proc, finished>>

TimerWakes(q) == elapsed = TIMEOUT /\ Move(q, "sleeping", "awake")

(* Fault: SIGINT instead of SIGKILL, which a command may survive. *)
TimerAsks(q) == /\ q \in In("awake")
                /\ LET target == proc[q].command_p
                   IN \E dead \in SUBSET ({target} \ Free) :
                        proc' = [After(dead) EXCEPT ![q].phase = "leaving"]
                /\ UNCHANGED <<shell, pid, timer_pid, command_p, elapsed, finished>>

TimerKills(q) == /\ q \in In("awake")
                 /\ LET target == proc[q].command_p
                    IN proc' = [After({target} \ Free) EXCEPT ![q].phase = "leaving"]
                 /\ UNCHANGED <<shell, pid, timer_pid, command_p, elapsed, finished>>

TimerExits(q) == Move(q, "leaving", "ended")

(* Commands: execvp succeeds or fails; a program ends. *)
Exec(q) == q \in Commands /\ (Move(q, "young", "running") \/ Move(q, "young", "ended"))
End(q)  == q \in Commands /\ Move(q, "running", "ended")

(* Strangers. *)
Appear(q) == /\ q \in Free
             /\ proc' = [proc EXCEPT ![q] = Process("stranger", "running", NoPid)]
             /\ UNCHANGED <<shell, pid, timer_pid, command_p, elapsed, finished>>
Vanish(q) == /\ q \in Is("stranger")
             /\ proc' = [proc EXCEPT ![q] = NoProcess]
             /\ UNCHANGED <<shell, pid, timer_pid, command_p, elapsed, finished>>

ShellStep == StartTimer \/ ReapCommand \/ KillTimer \/ ReapTimer
TimerStep == Tick \/ \E q \in Pids : TimerWakes(q) \/ TimerKills(q) \/ TimerExits(q)

Next == \/ \E kind \in {"foreground", "background"} : Fork(kind)
        \/ ShellStep \/ TimerStep \/ CtrlC \/ Leave
        \/ \E q \in Pids : Exec(q) \/ End(q) \/ Appear(q) \/ Vanish(q)

Spec == Init /\ [][Next]_vars

(* The shell and the timer run when they can, and time passes; a command need  *)
(* never end, and nobody need type anything.                                   *)
FairSpec == Spec /\ WF_vars(ShellStep) /\ WF_vars(TimerStep)

-----------------------------------------------------------------------------
Kinds == {"none", "foreground", "background", "timer", "stranger"}
Phases == {"young", "running", "ended", "sleeping", "awake", "leaving"}

TypeOK == /\ shell \in {"prompt", "forked", "waiting", "killing", "reaping", "gone"}
          /\ pid \in Pids \cup {NoPid} /\ timer_pid \in Pids \cup {NoPid}
          /\ command_p \in Pids \cup {NoPid}
          /\ proc \in [Pids -> [kind : Kinds, phase : Phases, command_p : Pids \cup {NoPid}]]
          /\ elapsed \in 0..TIMEOUT
          /\ finished \subseteq Pids

(* The foreground command keeps its number until the shell has waited for it:  *)
(* what the handler and the timer send meanwhile reaches it and nobody else.   *)
PidIsHeld == Is("foreground") = IF shell \in {"forked", "waiting"} THEN {pid} ELSE {}
AimedAtCommand == shell = "waiting" => command_p = pid

(* There is a timer only while a foreground command is served, it is the one   *)
(* the shell will kill, and its target is that command: no timer is left to    *)
(* kill whoever has the number next.                                           *)
OneTimer == /\ Is("timer") \subseteq {timer_pid}
            /\ timer_pid # NoPid => /\ shell \in {"waiting", "killing", "reaping"}
                                    /\ Is("timer") = {timer_pid} /\ timer_pid # pid
                                    /\ proc[timer_pid].phase # "ended" => proc[timer_pid].command_p = pid

(* A copy of command_p, the shell's own or that of a child that still has the    *)
(* handler, is -1 or the number of a foreground command: the one that is waited  *)
(* for, or one that is over.                                                     *)
CopiesAreOld == LET old == finished \cup {NoPid} \cup (IF shell = "waiting" THEN {pid} ELSE {})
                IN command_p \in old /\ \A q \in HasHandler : proc[q].command_p \in old

(* What each kind of process can be doing. *)
PhasesFit == \A q \in Pids :
               proc[q].phase \in CASE proc[q].kind = "timer" -> {"sleeping", "awake", "leaving", "ended"}
                                   [] proc[q].kind \in {"foreground", "background"} -> {"young", "running", "ended"}
                                   [] proc[q].kind = "stranger" -> {"running"}
                                   [] proc[q].kind = "none" -> {"ended"}

(* At the prompt the shell's children are background commands and nothing else. *)
PromptIsClean == shell \in {"prompt", "gone"} => Children = Is("background")

(* What holds between any two steps of the shell, its handlers and its children: *)
(* the inductive invariant.                                                      *)
ShellInv == /\ TypeOK /\ PidIsHeld /\ AimedAtCommand /\ OneTimer /\ CopiesAreOld /\ PhasesFit
            /\ PromptIsClean

(* A process that is none of the shell's is hit by one of its signals only if   *)
(* it has the number of a foreground command that is over, or if the fork of    *)
(* the timer failed and the shell sends SIGKILL to -1.                          *)
Signal == CtrlC \/ KillTimer \/ \E q \in Pids : TimerKills(q)
StrangersHitByReuseOnly ==
  [][Signal => \A q \in Is("stranger") :
                 proc'[q] # proc[q] => \/ q \in finished
                                       \/ shell = "killing" /\ timer_pid = NoPid]_vars

(* A foreground command is over in the end, whatever it does, if its timer was  *)
(* started, and the shell is back at the prompt.                                *)
BackAtPrompt == (shell = "waiting" /\ timer_pid # NoPid) ~> shell = "prompt"
=============================================================================
