----------------------------- MODULE ProcessProofs -----------------------------
(***************************************************************************)
(* Proofs about the programs that fork processes.                          *)
(*                                                                         *)
(* Shell, for any process numbers and any timeout: its inductive           *)
(* invariant, and that its signals hit no other program's process but by a *)
(* number that a foreground command has had.                               *)
(*                                                                         *)
(* Pipes, for any file, any lines that grep lets through, any capacity of  *)
(* a pipe and any number of kills: what a process has at its descriptors   *)
(* follows from the calls it has made; hence a reader never holds the      *)
(* other end of its pipe, and a parent that waits ends after its children. *)
(* The lines flow from the file to the terminal, and the processes end in  *)
(* the order of the pipeline; hence the output is right.                   *)
(***************************************************************************)
EXTENDS Shell, Pipes, FiniteSetTheorems, NaturalsInduction, WellFoundedInduction, TLAPS

USE ShellAssumption

ProcessType == [kind : Kinds, phase : Phases, command_p : Pids \cup {NoPid}]
ChildKinds == {"foreground", "background", "timer"}
Handling == {"young", "sleeping", "awake", "leaving"}
PhasesOf(kind) == CASE kind = "timer" -> {"sleeping", "awake", "leaving", "ended"}
                    [] kind \in {"foreground", "background"} -> {"young", "running", "ended"}
                    [] kind = "stranger" -> {"running"}
                    [] kind = "none" -> {"ended"}

LEMMA ProcIs ==
  ASSUME TypeOK, NEW q \in Pids
  PROVE  /\ proc[q] \in ProcessType
         /\ q \in Children <=> proc[q].kind \in ChildKinds
         /\ q \in HasHandler <=> proc[q].kind \in ChildKinds /\ proc[q].phase \in Handling
BY DEF TypeOK, ProcessType, Children, Commands, Is, ChildKinds, HasHandler, Handling

-----------------------------------------------------------------------------
(* What a signal, the process itself or its parent's absence can make of a     *)
(* process while the shell stays where it is: it dies, it goes on, or somebody *)
(* else's process takes a free number.                                         *)
Dies(p, r) == r = IF p.kind \in ChildKinds THEN Process(p.kind, "ended", NoPid) ELSE NoProcess
GoesOn(p, r) == /\ p.kind \in ChildKinds /\ r.kind = p.kind /\ r.phase \in PhasesOf(r.kind)
                /\ r.phase \in Handling => p.phase \in Handling /\ r.command_p = p.command_p
Comes(p, r) == p.kind = "none" /\ r.kind = "stranger" /\ r.phase = "running"
Becomes(p, r) == r = p \/ Dies(p, r) \/ GoesOn(p, r) \/ Comes(p, r)

(* It stays what it is to the shell. *)
LEMMA KindsKept ==
  ASSUME NEW p \in ProcessType, NEW r \in ProcessType, Becomes(p, r), p.phase \in PhasesOf(p.kind)
  PROVE  /\ \A kind \in ChildKinds : r.kind = kind <=> p.kind = kind
         /\ r.phase \in PhasesOf(r.kind)
         /\ r.kind \in ChildKinds /\ r.phase \in Handling
              => p.phase \in Handling /\ r.command_p = p.command_p
BY DEF Becomes, Dies, GoesOn, Comes, ProcessType, ChildKinds, Handling, Process, NoProcess, PhasesOf, Kinds

LEMMA NoProcessIs == NoProcess \in ProcessType /\ NoProcess.kind = "none" /\ NoProcess.phase = "ended"
BY DEF NoProcess, Process, ProcessType, Kinds, Phases

(* Steps after which every process has become something of that kind, and the   *)
(* shell serves the same command or none.                                       *)
Quietly == /\ UNCHANGED <<pid, timer_pid, command_p, finished>>
           /\ <<shell, shell'>> \in {<<"killing", "reaping">>, <<"prompt", "gone">>} \/ shell' = shell
           /\ elapsed' \in 0..TIMEOUT
           /\ proc' \in [Pids -> ProcessType]
           /\ \A q \in Pids : Becomes(proc[q], proc'[q])

LEMMA QuietSteps ==
  ASSUME ShellInv, Quietly
  PROVE  ShellInv'
<1>1. TypeOK /\ TypeOK'
  BY DEF ShellInv, Quietly, TypeOK, ProcessType
<1>2. \A q \in Pids : proc[q] \in ProcessType /\ proc'[q] \in ProcessType /\ proc[q].phase \in PhasesOf(proc[q].kind)
  BY DEF ShellInv, Quietly, TypeOK, ProcessType, PhasesFit, PhasesOf
<1>3. ASSUME NEW q \in Pids
      PROVE  /\ \A kind \in ChildKinds : proc'[q].kind = kind <=> proc[q].kind = kind
             /\ proc'[q].phase \in PhasesOf(proc'[q].kind)
             /\ proc'[q].kind \in ChildKinds /\ proc'[q].phase \in Handling
                  => proc[q].phase \in Handling /\ proc'[q].command_p = proc[q].command_p
  BY <1>2, KindsKept DEF Quietly
<1>4. \A kind \in ChildKinds : Is(kind)' = Is(kind)
  BY <1>3 DEF Is
<1>5. /\ Is("foreground")' = Is("foreground") /\ Is("background")' = Is("background")
      /\ Is("timer")' = Is("timer") /\ Children' = Children
  BY <1>4 DEF ChildKinds, Children, Commands
<1>6. PhasesFit'
  BY <1>3 DEF PhasesFit, PhasesOf
<1>7. PidIsHeld' /\ AimedAtCommand' /\ PromptIsClean'
  BY <1>5 DEF ShellInv, Quietly, PidIsHeld, AimedAtCommand, PromptIsClean
<1>8. OneTimer'
  <2>1. ASSUME timer_pid # NoPid
        PROVE  /\ shell' \in {"waiting", "killing", "reaping"}
               /\ Is("timer")' = {timer_pid} /\ timer_pid # pid
    BY <1>1, <1>5, <2>1 DEF ShellInv, OneTimer, Quietly, TypeOK
  <2>2. ASSUME timer_pid # NoPid, proc'[timer_pid].phase # "ended"
        PROVE  proc'[timer_pid].command_p = pid
    <3>1. timer_pid \in Pids /\ proc'[timer_pid].kind = "timer"
      BY <2>1, <2>2 DEF Is
    <3>2. proc'[timer_pid].phase \in Handling
      BY <1>3, <2>2, <3>1 DEF PhasesOf, Handling
    <3>3. proc[timer_pid].phase \in Handling /\ proc'[timer_pid].command_p = proc[timer_pid].command_p
      BY <1>3, <3>1, <3>2 DEF ChildKinds
    <3> QED
      BY <2>2, <3>3 DEF ShellInv, OneTimer, Handling
  <2>3. Is("timer")' \subseteq {timer_pid}
    BY <1>5 DEF ShellInv, OneTimer
  <2> QED
    BY <2>1, <2>2, <2>3 DEF OneTimer, Quietly
<1>9. CopiesAreOld'
  <2>1. ASSUME NEW q \in HasHandler' PROVE q \in HasHandler /\ proc'[q].command_p = proc[q].command_p
    <3>1. q \in Pids /\ proc'[q].kind \in ChildKinds /\ proc'[q].phase \in Handling
      BY DEF HasHandler, Children, Commands, Is, ChildKinds, Handling
    <3>2. proc[q].phase \in Handling /\ proc'[q].command_p = proc[q].command_p /\ q \in Children
      BY <1>3, <1>5, <3>1 DEF HasHandler
    <3> QED
      BY <3>2 DEF HasHandler, Handling
  <2>2. shell' = "waiting" <=> shell = "waiting"
    BY DEF Quietly
  <2> QED
    BY <2>1, <2>2 DEF ShellInv, CopiesAreOld, Quietly
<1> QED
  BY <1>1, <1>6, <1>7, <1>8, <1>9 DEF ShellInv

-----------------------------------------------------------------------------
(* The quiet steps. *)
LEMMA AfterIs ==
  ASSUME TypeOK, NEW dead
  PROVE  /\ After(dead) \in [Pids -> ProcessType]
         /\ \A q \in Pids : IF q \in dead THEN Dies(proc[q], After(dead)[q]) ELSE After(dead)[q] = proc[q]
<1>1. ASSUME NEW q \in Pids, q \in dead
      PROVE  Dies(proc[q], After(dead)[q]) /\ After(dead)[q] \in ProcessType
  BY <1>1, ProcIs, NoProcessIs DEF After, Dies, Process, ProcessType, Phases
<1>2. ASSUME NEW q \in Pids, q \notin dead
      PROVE  After(dead)[q] = proc[q] /\ After(dead)[q] \in ProcessType
  BY <1>2, ProcIs DEF After
<1>3. After(dead) = [q \in Pids |-> After(dead)[q]]
  BY DEF After
<1> QED
  BY <1>1, <1>2, <1>3

LEMMA SignalsAreQuiet ==
  ASSUME ShellInv, KillTimer \/ CtrlC
  PROVE  Quietly
<1>1. TypeOK
  BY DEF ShellInv
<1>2. CASE KillTimer
  <2>1. PICK dead : proc' = After(dead)
    BY <1>2 DEF KillTimer
  <2> QED
    BY <1>1, <1>2, <2>1, AfterIs DEF Quietly, KillTimer, TypeOK, Becomes
<1>3. CASE CtrlC
  <2> DEFINE hit == Children \cup Forwarded
  <2>1. PICK dead : proc' = [q \in Pids |-> IF q \in hit /\ proc[q].phase = "sleeping"
                                            THEN [proc[q] EXCEPT !.phase = "awake"]
                                            ELSE After(dead)[q]]
    BY <1>3 DEF CtrlC
  <2> HIDE DEF hit
  <2>2. ASSUME NEW q \in Pids
        PROVE  proc'[q] \in ProcessType /\ Becomes(proc[q], proc'[q])
    <3>1. CASE q \in hit /\ proc[q].phase = "sleeping"
      <4>1. proc[q].kind = "timer" /\ proc[q] \in ProcessType
        BY <3>1, <1>1, ProcIs DEF ShellInv, PhasesFit, ProcessType, Kinds
      <4>2. proc'[q] = [proc[q] EXCEPT !.phase = "awake"]
        BY <2>1, <3>1
      <4> QED
        BY <3>1, <4>1, <4>2 DEF ProcessType, Phases, Becomes, GoesOn, ChildKinds, PhasesOf, Handling
    <3>2. CASE ~(q \in hit /\ proc[q].phase = "sleeping")
      <4>1. proc'[q] = After(dead)[q]
        BY <2>1, <3>2
      <4> QED
        BY <1>1, <4>1, AfterIs DEF Becomes
    <3> QED
      BY <3>1, <3>2
  <2>3. proc' \in [Pids -> ProcessType]
    <3>1. proc' = [q \in Pids |-> proc'[q]]
      BY <2>1
    <3> QED
      BY <2>2, <3>1
  <2> QED
    BY <1>1, <1>3, <2>2, <2>3 DEF Quietly, CtrlC, TypeOK
<1> QED
  BY <1>2, <1>3

LEMMA KillsAreQuiet ==
  ASSUME ShellInv, NEW q \in Pids, TimerKills(q)
  PROVE  Quietly
<1>1. TypeOK
  BY DEF ShellInv
<1> DEFINE dead == {proc[q].command_p} \ Free
<1>2. proc' = [After(dead) EXCEPT ![q].phase = "leaving"]
  BY DEF TimerKills
<1>3. proc[q].phase = "awake" /\ proc[q].kind = "timer" /\ proc[q] \in ProcessType
  BY <1>1, ProcIs DEF TimerKills, In, ShellInv, PhasesFit, ProcessType, Kinds
<1>4. proc[q].command_p # q
  BY <1>3 DEF ShellInv, OneTimer, Is
<1> HIDE DEF dead
<1>5. After(dead)[q] = proc[q]
  BY <1>1, <1>4, AfterIs DEF dead
<1>6. proc'[q] = [proc[q] EXCEPT !.phase = "leaving"]
  BY <1>1, <1>2, <1>5, AfterIs
<1>7. \A u \in Pids \ {q} : proc'[u] = After(dead)[u]
  BY <1>1, <1>2, AfterIs
<1>8. proc'[q] \in ProcessType /\ Becomes(proc[q], proc'[q])
  BY <1>3, <1>6 DEF ProcessType, Phases, Becomes, GoesOn, ChildKinds, PhasesOf, Handling
<1>9. \A u \in Pids : proc'[u] \in ProcessType /\ Becomes(proc[u], proc'[u])
  BY <1>1, <1>7, <1>8, AfterIs DEF Becomes
<1>10. proc' \in [Pids -> ProcessType]
  <2>1. proc' = [u \in Pids |-> proc'[u]]
    BY <1>1, <1>2, AfterIs
  <2> QED
    BY <1>9, <2>1
<1> QED
  BY <1>1, <1>9, <1>10 DEF Quietly, TimerKills, TypeOK

LEMMA MovesAreQuiet ==
  ASSUME ShellInv, NEW q \in Pids, NEW from, NEW to, Move(q, from, to),
         \/ <<from, to>> \in {<<"sleeping", "awake">>, <<"leaving", "ended">>}
         \/ (q \in Commands
             /\ <<from, to>> \in {<<"young", "running">>, <<"young", "ended">>, <<"running", "ended">>})
  PROVE  Quietly
<1>1. TypeOK /\ proc[q] \in ProcessType
  BY ProcIs DEF ShellInv
<1> DEFINE r == Process(proc[q].kind, to, IF to \in {"running", "ended"} THEN NoPid ELSE proc[q].command_p)
<1>2. proc' = [proc EXCEPT ![q] = r]
  BY <1>1 DEF Move, TypeOK
<1>3. proc[q].phase = from /\ proc[q].kind \in ChildKinds
  BY <1>1, ProcIs DEF Move, In
<1>4. q \in Commands => proc[q].kind \in {"foreground", "background"}
  BY DEF Commands, Is
<1>5. <<from, to>> \in {<<"sleeping", "awake">>, <<"leaving", "ended">>} => proc[q].kind = "timer"
  BY <1>1, <1>3 DEF ShellInv, PhasesFit, ProcessType, Kinds
<1>6. r \in ProcessType /\ Becomes(proc[q], r)
  BY <1>1, <1>3, <1>4, <1>5 DEF ProcessType, Phases, Process, Becomes, GoesOn, ChildKinds, PhasesOf, Handling
<1> HIDE DEF r
<1>7. proc' \in [Pids -> ProcessType]
  BY <1>1, <1>2, <1>6 DEF TypeOK, ProcessType
<1>8. \A u \in Pids : Becomes(proc[u], proc'[u])
  BY <1>1, <1>2, <1>6 DEF TypeOK, Becomes
<1> QED
  BY <1>1, <1>7, <1>8 DEF Quietly, Move, TypeOK

LEMMA StrangersAreQuiet ==
  ASSUME ShellInv, NEW q \in Pids, Appear(q) \/ Vanish(q)
  PROVE  Quietly
<1>1. TypeOK /\ proc[q] \in ProcessType
  BY ProcIs DEF ShellInv
<1>2. PICK r \in ProcessType : proc' = [proc EXCEPT ![q] = r] /\ Becomes(proc[q], r)
  <2>1. CASE Appear(q)
    <3>1. Process("stranger", "running", NoPid) \in ProcessType /\ Comes(proc[q], Process("stranger", "running", NoPid))
      BY <2>1 DEF Process, ProcessType, Kinds, Phases, Comes, Appear, Free, Is
    <3> QED
      BY <2>1, <3>1 DEF Appear, Becomes
  <2>2. CASE Vanish(q)
    <3>1. NoProcess \in ProcessType /\ Dies(proc[q], NoProcess)
      BY <2>2, NoProcessIs DEF Dies, Vanish, Is, ChildKinds
    <3> QED
      BY <2>2, <3>1 DEF Vanish, Becomes
  <2> QED
    BY <2>1, <2>2
<1>3. proc' \in [Pids -> ProcessType]
  BY <1>1, <1>2 DEF TypeOK, ProcessType
<1>4. \A u \in Pids : Becomes(proc[u], proc'[u])
  BY <1>1, <1>2 DEF TypeOK, Becomes
<1> QED
  BY <1>1, <1>3, <1>4 DEF Quietly, Appear, Vanish, TypeOK

LEMMA OthersAreQuiet ==
  ASSUME ShellInv, UNCHANGED vars \/ Tick \/ Leave
  PROVE  Quietly
<1>1. TypeOK /\ proc' = proc /\ TIMEOUT \in Nat
  BY DEF ShellInv, vars, Tick, Leave
<1>2. proc' \in [Pids -> ProcessType] /\ \A q \in Pids : Becomes(proc[q], proc'[q])
  BY <1>1 DEF TypeOK, ProcessType, Becomes
<1>3. elapsed' \in 0..TIMEOUT
  BY <1>1 DEF TypeOK, vars, Tick, Leave
<1> QED
  BY <1>2, <1>3 DEF Quietly, vars, Tick, Leave

-----------------------------------------------------------------------------
(* The steps of the shell that start a process or wait for one. *)
LEMMA ForkKeepsInv ==
  ASSUME ShellInv, NEW kind \in {"foreground", "background"}, Fork(kind)
  PROVE  ShellInv'
<1>1. PICK q \in Free : /\ shell = "prompt"
                        /\ proc' = [proc EXCEPT ![q] = Process(kind, "young", command_p)]
                        /\ IF kind = "foreground" THEN shell' = "forked" /\ pid' = q
                           ELSE UNCHANGED <<shell, pid>>
                        /\ UNCHANGED <<timer_pid, command_p, elapsed, finished>>
  BY DEF Fork
<1>2. q \in Pids /\ proc[q].kind = "none" /\ TypeOK
  BY DEF Free, Is, ShellInv
<1>3. /\ proc'[q].kind = kind /\ proc'[q].phase = "young" /\ proc'[q].command_p = command_p
      /\ \A u \in Pids \ {q} : proc'[u] = proc[u]
  BY <1>1, <1>2 DEF TypeOK, Process
<1>4. TypeOK'
  BY <1>1, <1>2 DEF TypeOK, Process, Kinds, Phases
<1>5. timer_pid = NoPid /\ Is("timer") = {} /\ Is("foreground") = {}
  <2>1. timer_pid = NoPid /\ Is("timer") \subseteq {timer_pid} /\ Is("foreground") = {}
    BY <1>1 DEF ShellInv, OneTimer, PidIsHeld
  <2>2. Is("timer") \subseteq Pids
    BY DEF Is
  <2> QED
    BY <2>1, <2>2
<1>6. /\ Is("timer")' = {} /\ Is("foreground")' = (IF kind = "foreground" THEN {q} ELSE {})
      /\ shell' \in {"prompt", "forked"}
  BY <1>1, <1>2, <1>3, <1>5 DEF Is
<1>7. PidIsHeld' /\ AimedAtCommand' /\ OneTimer'
  BY <1>1, <1>5, <1>6 DEF PidIsHeld, AimedAtCommand, OneTimer
<1>8. PromptIsClean'
  BY <1>6, <1>1 DEF PromptIsClean, Children, Commands
<1>9. PhasesFit'
  BY <1>3, <1>2 DEF ShellInv, PhasesFit
<1>10. CopiesAreOld'
  <2>1. \A u \in HasHandler' \ {q} : u \in HasHandler /\ proc'[u].command_p = proc[u].command_p
    BY <1>3 DEF HasHandler, Children, Commands, Is
  <2> QED
    BY <1>1, <1>3, <1>6, <2>1 DEF ShellInv, CopiesAreOld
<1> QED
  BY <1>4, <1>7, <1>8, <1>9, <1>10 DEF ShellInv

LEMMA StartTimerKeepsInv ==
  ASSUME ShellInv, StartTimer
  PROVE  ShellInv'
<1>1. /\ shell = "forked" /\ shell' = "waiting" /\ command_p' = pid /\ pid' = pid /\ elapsed' = 0
      /\ finished' = finished /\ TypeOK /\ Is("foreground") = {pid} /\ pid \in Pids
      /\ timer_pid = NoPid /\ Is("timer") = {}
  BY DEF ShellInv, StartTimer, PidIsHeld, OneTimer, TypeOK, Is
<1>2. CASE timer_pid' = NoPid /\ UNCHANGED proc
  <2>1. TypeOK'
    BY <1>1, <1>2 DEF TypeOK
  <2>2. \A kind : Is(kind)' = Is(kind)
    BY <1>2 DEF Is
  <2>3. PidIsHeld' /\ AimedAtCommand' /\ OneTimer' /\ PromptIsClean'
    BY <1>1, <1>2, <2>2 DEF PidIsHeld, AimedAtCommand, OneTimer, PromptIsClean
  <2>4. PhasesFit' /\ HasHandler' = HasHandler
    BY <1>2 DEF ShellInv, PhasesFit, HasHandler, Children, Commands, Is
  <2>5. CopiesAreOld'
    BY <1>1, <1>2, <2>4 DEF ShellInv, CopiesAreOld
  <2> QED
    BY <2>1, <2>3, <2>4, <2>5 DEF ShellInv
<1>3. ASSUME NEW q \in Free, timer_pid' = q, proc' = [proc EXCEPT ![q] = Process("timer", "sleeping", pid)]
      PROVE  ShellInv'
  <2>1. q \in Pids /\ proc[q].kind = "none" /\ q # pid
    BY <1>1 DEF Free, Is
  <2>2. /\ proc'[q].kind = "timer" /\ proc'[q].phase = "sleeping" /\ proc'[q].command_p = pid
        /\ \A u \in Pids \ {q} : proc'[u] = proc[u]
    BY <1>1, <1>3, <2>1 DEF TypeOK, Process
  <2>3. TypeOK'
    BY <1>1, <1>3, <2>1 DEF TypeOK, Process, Kinds, Phases
  <2>4. Is("timer")' = {q} /\ Is("foreground")' = {pid}
    BY <1>1, <2>1, <2>2 DEF Is
  <2>5. PidIsHeld' /\ AimedAtCommand' /\ OneTimer' /\ PromptIsClean'
    BY <1>1, <1>3, <2>1, <2>2, <2>4 DEF PidIsHeld, AimedAtCommand, OneTimer, PromptIsClean
  <2>6. PhasesFit'
    BY <2>1, <2>2 DEF ShellInv, PhasesFit
  <2>7. CopiesAreOld'
    <3>1. \A u \in HasHandler' \ {q} : u \in HasHandler /\ proc'[u].command_p = proc[u].command_p
      BY <2>2 DEF HasHandler, Children, Commands, Is
    <3> QED
      BY <1>1, <2>2, <3>1 DEF ShellInv, CopiesAreOld
  <2> QED
    BY <2>3, <2>5, <2>6, <2>7 DEF ShellInv
<1> QED
  BY <1>2, <1>3 DEF StartTimer

LEMMA ReapCommandKeepsInv ==
  ASSUME ShellInv, ReapCommand
  PROVE  ShellInv'
<1>1. /\ shell = "waiting" /\ shell' = "killing" /\ finished' = finished \cup {pid}
      /\ UNCHANGED <<pid, timer_pid, command_p, elapsed>> /\ proc' = [proc EXCEPT ![pid] = NoProcess]
      /\ TypeOK /\ Is("foreground") = {pid} /\ pid \in Pids
  BY DEF ShellInv, ReapCommand, PidIsHeld, Is
<1>2. proc'[pid] = NoProcess /\ proc[pid].kind = "foreground" /\ \A u \in Pids \ {pid} : proc'[u] = proc[u]
  BY <1>1 DEF TypeOK, Is
<1>3. TypeOK'
  BY <1>1, NoProcessIs DEF TypeOK, ProcessType
<1>4. Is("foreground")' = {} /\ Is("timer")' = Is("timer")
  BY <1>1, <1>2, NoProcessIs DEF Is
<1>5. PidIsHeld' /\ AimedAtCommand' /\ PromptIsClean'
  BY <1>1, <1>4 DEF PidIsHeld, AimedAtCommand, PromptIsClean
<1>6. OneTimer'
  BY <1>1, <1>2, <1>4 DEF ShellInv, OneTimer, TypeOK
<1>7. PhasesFit'
  <2>1. \A u \in Pids : proc'[u] = NoProcess \/ proc'[u] = proc[u]
    BY <1>2
  <2> QED
    BY <2>1, NoProcessIs DEF ShellInv, PhasesFit
<1>8. CopiesAreOld'
  <2>1. \A u \in HasHandler' : u \in HasHandler /\ proc'[u].command_p = proc[u].command_p
    BY <1>2, NoProcessIs DEF HasHandler, Children, Commands, Is
  <2> QED
    BY <1>1, <2>1 DEF ShellInv, CopiesAreOld
<1> QED
  BY <1>3, <1>5, <1>6, <1>7, <1>8 DEF ShellInv

LEMMA ReapTimerKeepsInv ==
  ASSUME ShellInv, ReapTimer
  PROVE  ShellInv'
<1>1. /\ shell = "reaping" /\ shell' = "prompt" /\ UNCHANGED <<command_p, elapsed, finished>>
      /\ pid' = NoPid /\ timer_pid' = NoPid
      /\ TypeOK /\ Is("foreground") = {} /\ Is("timer") \subseteq {timer_pid}
  BY DEF ShellInv, ReapTimer, PidIsHeld, OneTimer
<1>2. \/ proc' = proc /\ timer_pid = NoPid
      \/ \E q \in Pids : proc' = [proc EXCEPT ![q] = NoProcess] /\ (timer_pid = NoPid \/ q = timer_pid)
  <2>1. Children \subseteq Pids
    BY DEF Children, Commands, Is
  <2> QED
    BY <1>1, <2>1 DEF ReapTimer, TypeOK
<1>3. /\ \A u \in Pids : proc'[u] = NoProcess \/ proc'[u] = proc[u]
      /\ timer_pid # NoPid => proc'[timer_pid] = NoProcess
  BY <1>1, <1>2 DEF TypeOK
<1>4. TypeOK'
  BY <1>1, <1>2, NoProcessIs DEF TypeOK, ProcessType
<1>5. Is("foreground")' = {} /\ Is("timer")' = {}
  BY <1>1, <1>2, <1>3, NoProcessIs DEF Is
<1>6. PidIsHeld' /\ AimedAtCommand' /\ OneTimer' /\ PromptIsClean'
  BY <1>1, <1>5 DEF PidIsHeld, AimedAtCommand, OneTimer, PromptIsClean, Children, Commands
<1>7. PhasesFit'
  BY <1>3, NoProcessIs DEF ShellInv, PhasesFit
<1>8. CopiesAreOld'
  <2>1. \A u \in HasHandler' : u \in HasHandler /\ proc'[u].command_p = proc[u].command_p
    BY <1>3, NoProcessIs DEF HasHandler, Children, Commands, Is
  <2> QED
    BY <1>1, <2>1 DEF ShellInv, CopiesAreOld
<1> QED
  BY <1>4, <1>6, <1>7, <1>8 DEF ShellInv

-----------------------------------------------------------------------------
LEMMA InitKeeps == Init => ShellInv
<1> SUFFICES ASSUME Init PROVE ShellInv
  OBVIOUS
<1>1. \A q \in Pids : proc[q] = NoProcess
  BY DEF Init
<1>2. TypeOK
  BY NoProcessIs DEF Init, TypeOK, ProcessType
<1>3. \A kind \in ChildKinds : Is(kind) = {}
  BY <1>1, NoProcessIs DEF Is, ChildKinds
<1>4. Is("foreground") = {} /\ Is("timer") = {} /\ HasHandler = {}
  BY <1>3 DEF ChildKinds, HasHandler, Children, Commands
<1>5. PhasesFit
  BY <1>1, NoProcessIs DEF PhasesFit
<1> QED
  BY <1>2, <1>4, <1>5 DEF Init, ShellInv, PidIsHeld, AimedAtCommand, OneTimer, CopiesAreOld, PromptIsClean,
     Children, Commands

LEMMA NextKeeps == ShellInv /\ [Next]_vars => ShellInv'
<1> SUFFICES ASSUME ShellInv, [Next]_vars PROVE ShellInv'
  OBVIOUS
<1>1. CASE UNCHANGED vars \/ Tick \/ Leave
  BY <1>1, OthersAreQuiet, QuietSteps
<1>2. CASE KillTimer \/ CtrlC
  BY <1>2, SignalsAreQuiet, QuietSteps
<1>3. ASSUME NEW kind \in {"foreground", "background"}, Fork(kind) PROVE ShellInv'
  BY <1>3, ForkKeepsInv
<1>4. CASE StartTimer \/ ReapCommand \/ ReapTimer
  BY <1>4, StartTimerKeepsInv, ReapCommandKeepsInv, ReapTimerKeepsInv
<1>5. ASSUME NEW q \in Pids, TimerWakes(q) \/ TimerExits(q) \/ Exec(q) \/ End(q) PROVE ShellInv'
  BY <1>5, MovesAreQuiet, QuietSteps DEF TimerWakes, TimerExits, Exec, End
<1>6. ASSUME NEW q \in Pids, TimerKills(q) PROVE ShellInv'
  BY <1>6, KillsAreQuiet, QuietSteps
<1>7. ASSUME NEW q \in Pids, Appear(q) \/ Vanish(q) PROVE ShellInv'
  BY <1>7, StrangersAreQuiet, QuietSteps
<1> QED
  BY <1>1, <1>2, <1>3, <1>4, <1>5, <1>6, <1>7 DEF Next, ShellStep, TimerStep

(* What the shell, its timers and its commands' numbers keep to: a foreground     *)
(* command holds its number until the shell has waited for it, there is a timer   *)
(* only for it, and every copy of command_p is its number or that of one that is  *)
(* over.                                                                          *)
THEOREM ShellInvariant == Spec => []ShellInv
<1> QED
  BY InitKeeps, NextKeeps, PTL DEF Spec

-----------------------------------------------------------------------------
(* Whom a signal hits. *)
ReuseOnly == Signal => \A q \in Is("stranger") :
                         proc'[q] # proc[q] => \/ q \in finished
                                               \/ shell = "killing" /\ timer_pid = NoPid

(* A number that a handler or a timer sends to, and that a stranger has, is that  *)
(* of a command that is over: the command that is waited for holds its own.       *)
LEMMA OldNumbers ==
  ASSUME ShellInv, NEW q \in Is("stranger")
  PROVE  /\ q = command_p => q \in finished
         /\ \A u \in HasHandler : q = proc[u].command_p => q \in finished
         /\ q \in Pids /\ q \notin Children
<1>1. q \in Pids /\ q \notin Children /\ q # NoPid
  BY DEF Is, Children, Commands
<1>2. shell = "waiting" => q # pid
  BY DEF ShellInv, PidIsHeld, Is
<1> QED
  BY <1>1, <1>2 DEF ShellInv, CopiesAreOld

LEMMA SignalsReuseOnly == ShellInv /\ [Next]_vars => ReuseOnly
<1> SUFFICES ASSUME ShellInv, Signal, NEW q \in Is("stranger"), proc'[q] # proc[q]
             PROVE  q \in finished \/ (shell = "killing" /\ timer_pid = NoPid)
  BY DEF ReuseOnly
<1>1. TypeOK /\ q \in Pids /\ q \notin Children /\ proc[q].phase = "running"
  BY OldNumbers DEF ShellInv, PhasesFit, Is
<1>2. CASE CtrlC
  <2>1. q \in Children \cup Forwarded
    <3>1. PICK hit, dead : /\ hit = Children \cup Forwarded /\ dead \subseteq hit
                           /\ proc' = [u \in Pids |-> IF u \in hit /\ proc[u].phase = "sleeping"
                                                       THEN [proc[u] EXCEPT !.phase = "awake"]
                                                       ELSE After(dead)[u]]
      BY <1>2 DEF CtrlC
    <3>2. proc'[q] = After(dead)[q]
      BY <1>1, <3>1
    <3>3. q \in dead
      BY <1>1, <3>2, AfterIs
    <3> QED
      BY <3>1, <3>3
  <2> QED
    BY <1>1, <2>1, OldNumbers DEF Forwarded
<1>3. CASE KillTimer
  <2>1. proc' = After(IF timer_pid = NoPid THEN Pids \ Free ELSE {timer_pid}) /\ shell = "killing"
    BY <1>3 DEF KillTimer
  <2>2. timer_pid # NoPid => q = timer_pid
    BY <1>1, <2>1, AfterIs
  <2>3. timer_pid # NoPid => timer_pid \in Children
    BY DEF ShellInv, OneTimer, Children
  <2> QED
    BY <1>1, <2>1, <2>2, <2>3
<1>4. ASSUME NEW u \in Pids, TimerKills(u) PROVE q \in finished
  <2>1. u \in HasHandler /\ proc' = [After({proc[u].command_p} \ Free) EXCEPT ![u].phase = "leaving"]
    BY <1>4 DEF TimerKills, In, HasHandler
  <2>2. u # q /\ u \in Pids
    BY <1>1, <1>4, <2>1 DEF HasHandler
  <2>3. proc'[q] = After({proc[u].command_p} \ Free)[q]
    BY <1>1, <2>1, <2>2, AfterIs
  <2>4. q \in {proc[u].command_p}
    BY <1>1, <2>3, AfterIs
  <2> QED
    BY <2>1, <2>4, OldNumbers
<1> QED
  BY <1>2, <1>3, <1>4 DEF Signal

(* A signal of the shell, its handlers or its timers hits another program's       *)
(* process only by a number that a finished foreground command has had, or when   *)
(* the timer could not be forked and the shell sends SIGKILL to -1.               *)
THEOREM StrangersAreSafe == Spec => StrangersHitByReuseOnly
<1>1. ShellInv /\ [Next]_vars => [ReuseOnly]_vars
  BY SignalsReuseOnly
<1>2. StrangersHitByReuseOnly <=> [][ReuseOnly]_vars
  BY PTL DEF StrangersHitByReuseOnly, ReuseOnly
<1> QED
  BY <1>1, <1>2, ShellInvariant, PTL DEF Spec

-----------------------------------------------------------------------------
(* Pipes.  The scripts first: what each takes care of before a call. *)
(* A call stands before the n-th of a script. *)
Before(s, n, call) == \E m \in 1..n - 1 : s[m] = call

(* What a script takes care of before its n-th call; in P1's script the pipes are *)
(* made, the others have those that P1 makes.                                     *)
MadeBefore(p, s, parent, n, k) ==
  IF p = "P1" THEN Before(s, n, pipe(k)) ELSE \E m \in 1..Len(parent) : parent[m] = pipe(k)
OwnEndGone(s, n, k) == Before(s, n, close(WRITE(k))) /\ ~Before(s, n, dup2(WRITE(k), 1))

GoodPipe(p, s, n) == p = "P1" /\ \E k \in Pipe : s[n] = pipe(k) /\ ~Before(s, n, close(WRITE(k)))
GoodClose(s, n) == \E k \in Pipe : s[n] \in {close(READ(k)), close(WRITE(k))}
GoodDup(p, s, parent, n) ==
  \E k \in Pipe : \/ /\ s[n] = dup2(WRITE(k), 1)
                     /\ MadeBefore(p, s, parent, n, k) /\ ~Before(s, n, close(WRITE(k)))
                     /\ \A j \in Pipe : ~Before(s, n, dup2(WRITE(j), 1))
                  \/ /\ s[n] = dup2(READ(k), 0)
                     /\ MadeBefore(p, s, parent, n, k) /\ ~Before(s, n, close(READ(k)))
                     /\ \A j \in Pipe : ~Before(s, n, dup2(READ(j), 0))
GoodFork(p, s, parent, n) ==
  /\ s[n].child \in {"P2", "P3"}
  /\ \A k \in Pipe : /\ ~Before(s, n, close(READ(k))) /\ ~Before(s, n, close(WRITE(k)))
                     /\ ~Before(s, n, dup2(WRITE(k), 1))
                     /\ (\E m \in 1..Len(parent) : parent[m] = pipe(k)) => MadeBefore(p, s, parent, n, k)
GoodExec(s, n) ==
  \E t \in {"cat", "grep", "sort"} :
    /\ s[n] = exec(t)
    /\ t # "cat" => \E k \in Pipe : Before(s, n, dup2(READ(k), 0)) /\ OwnEndGone(s, n, k)
GoodRead(p, s, parent, n) ==
  \E k \in Pipe : /\ s[n] = read(READ(k))
                  /\ MadeBefore(p, s, parent, n, k) /\ ~Before(s, n, close(READ(k))) /\ OwnEndGone(s, n, k)
GoodWrite(p, s, n) == /\ p = "P1" \/ \E m \in 1..n - 1 : s[m].op = "read"
                      /\ \A m \in 1..n - 1 : s[m].op # "write"

Good(p, s, parent) ==
  \A n \in 1..Len(s) : /\ s[n].op = "pipe" => GoodPipe(p, s, n)
                       /\ s[n].op = "close" => GoodClose(s, n)
                       /\ s[n].op = "dup2" => GoodDup(p, s, parent, n)
                       /\ s[n].op = "fork" => GoodFork(p, s, parent, n)
                       /\ s[n].op = "exec" => GoodExec(s, n)
                       /\ s[n].op = "read" => GoodRead(p, s, parent, n)
                       /\ s[n].op = "write" => GoodWrite(p, s, n)
                       /\ s[n].op = "wait" => p = "P1" /\ s[n] = wait

(* The forks: the process that calls it, which call it is, and the child. *)
Forks == [pipes1 |-> {<<"P1", 3, "P2">>}, pipes2 |-> {<<"P1", 2, "P2">>},
          pipes3 |-> {<<"P1", 3, "P2">>, <<"P2", 1, "P3">>},
          main3 |-> {<<"P1", 1, "P2">>, <<"P1", 2, "P3">>}]
Fathers(g, p, s) == \A n \in 1..Len(s) : s[n].op = "fork" => <<p, n, s[n].child>> \in Forks[g]

(* The scripts of the four programs. *)
LEMMA ProgramsAre == Programs = {"pipes1", "pipes2", "pipes3", "main3"}
BY DEF Programs, Script

LEMMA CodeIs ==
  /\ program = "pipes1" => Code("P1") = Sender /\ Code("P2") = Printer /\ Code("P3") = <<>>
  /\ program = "pipes2" => Code("P1") = CatTwo /\ Code("P2") = GrepTwo /\ Code("P3") = <<>>
  /\ program = "pipes3" => Code("P1") = CatThree /\ Code("P2") = GrepThree /\ Code("P3") = SortThree
  /\ program = "main3" => Code("P1") = Waiter /\ Code("P2") = Sleeper /\ Code("P3") = Sleeper
BY DEF Code, Script

LEMMA GoodNothing == ASSUME NEW p, NEW parent, NEW g PROVE Good(p, <<>>, parent) /\ Fathers(g, p, <<>>)
BY SMT DEF Good, Fathers

LEMMA GoodPipes1 ==
  /\ Good("P1", Sender, Sender) /\ Good("P2", Printer, Sender)
  /\ Fathers("pipes1", "P1", Sender) /\ Fathers("pipes1", "P2", Printer)
<1> USE DEF Sender, Printer, pipe, close, dup2, exec, write, read, sleep, wait, fork, READ, WRITE, Pipe
<1>1. Good("P1", Sender, Sender)
  BY SMT DEF Good, GoodPipe, GoodClose, GoodDup, GoodFork, GoodExec, GoodRead, GoodWrite,
             MadeBefore, Before, OwnEndGone
<1>2. Good("P2", Printer, Sender)
  BY SMTT(30) DEF Good, GoodPipe, GoodClose, GoodDup, GoodFork, GoodExec, GoodRead, GoodWrite,
             MadeBefore, Before, OwnEndGone
<1>3. Fathers("pipes1", "P1", Sender) /\ Fathers("pipes1", "P2", Printer)
  BY SMT DEF Fathers, Forks
<1> QED BY <1>1, <1>2, <1>3

LEMMA GoodPipes2 ==
  /\ Good("P1", CatTwo, CatTwo) /\ Good("P2", GrepTwo, CatTwo)
  /\ Fathers("pipes2", "P1", CatTwo) /\ Fathers("pipes2", "P2", GrepTwo)
<1> USE DEF CatTwo, GrepTwo, pipe, close, dup2, exec, write, read, sleep, wait, fork, READ, WRITE, Pipe
<1>1. Good("P1", CatTwo, CatTwo)
  BY SMT DEF Good, GoodPipe, GoodClose, GoodDup, GoodFork, GoodExec, GoodRead, GoodWrite,
             MadeBefore, Before, OwnEndGone
<1>2. Good("P2", GrepTwo, CatTwo)
  BY SMT DEF Good, GoodPipe, GoodClose, GoodDup, GoodFork, GoodExec, GoodRead, GoodWrite,
             MadeBefore, Before, OwnEndGone
<1>3. Fathers("pipes2", "P1", CatTwo) /\ Fathers("pipes2", "P2", GrepTwo)
  BY SMT DEF Fathers, Forks
<1> QED BY <1>1, <1>2, <1>3

LEMMA GoodPipes3 ==
  /\ Good("P1", CatThree, CatThree) /\ Good("P2", GrepThree, CatThree) /\ Good("P3", SortThree, CatThree)
  /\ Fathers("pipes3", "P1", CatThree) /\ Fathers("pipes3", "P2", GrepThree)
  /\ Fathers("pipes3", "P3", SortThree)
<1> USE DEF CatThree, GrepThree, SortThree, pipe, close, dup2, exec, write, read, sleep, wait, fork,
            READ, WRITE, Pipe
<1>1. Good("P1", CatThree, CatThree)
  BY SMT DEF Good, GoodPipe, GoodClose, GoodDup, GoodFork, GoodExec, GoodRead, GoodWrite,
             MadeBefore, Before, OwnEndGone
<1>2. Good("P2", GrepThree, CatThree)
  <2>1. \A n \in 1..Len(GrepThree) : GrepThree[n].op = "fork" => GoodFork("P2", GrepThree, CatThree, n)
    BY SMT DEF GoodFork, MadeBefore, Before
  <2>2. \A n \in 1..Len(GrepThree) : GrepThree[n].op = "close" => GoodClose(GrepThree, n)
    BY SMT DEF GoodClose
  <2>3. \A n \in 1..Len(GrepThree) : GrepThree[n].op = "dup2" => GoodDup("P2", GrepThree, CatThree, n)
    BY SMT DEF GoodDup, MadeBefore, Before
  <2>4. \A n \in 1..Len(GrepThree) : GrepThree[n].op = "exec" => GoodExec(GrepThree, n)
    BY SMT DEF GoodExec, OwnEndGone, Before
  <2>5. \A n \in 1..Len(GrepThree) : GrepThree[n].op \in {"fork", "close", "dup2", "exec"}
    BY SMT
  <2> HIDE DEF GrepThree, CatThree
  <2> QED BY <2>1, <2>2, <2>3, <2>4, <2>5, SMT DEF Good
<1>3. Good("P3", SortThree, CatThree)
  BY SMT DEF Good, GoodPipe, GoodClose, GoodDup, GoodFork, GoodExec, GoodRead, GoodWrite,
             MadeBefore, Before, OwnEndGone
<1>4. /\ Fathers("pipes3", "P1", CatThree) /\ Fathers("pipes3", "P2", GrepThree)
      /\ Fathers("pipes3", "P3", SortThree)
  BY SMT DEF Fathers, Forks
<1> QED BY <1>1, <1>2, <1>3, <1>4

LEMMA GoodMain3 ==
  /\ Good("P1", Waiter, Waiter) /\ Good("P2", Sleeper, Waiter) /\ Good("P3", Sleeper, Waiter)
  /\ Fathers("main3", "P1", Waiter) /\ Fathers("main3", "P2", Sleeper) /\ Fathers("main3", "P3", Sleeper)
<1> USE DEF Waiter, Sleeper, pipe, close, dup2, exec, write, read, sleep, wait, fork, READ, WRITE, Pipe
<1>1. Good("P1", Waiter, Waiter)
  BY SMT DEF Good, GoodPipe, GoodClose, GoodDup, GoodFork, GoodExec, GoodRead, GoodWrite,
             MadeBefore, Before, OwnEndGone
<1>2. Good("P2", Sleeper, Waiter) /\ Good("P3", Sleeper, Waiter)
  BY SMT DEF Good, GoodPipe, GoodClose, GoodDup, GoodFork, GoodExec, GoodRead, GoodWrite,
             MadeBefore, Before, OwnEndGone
<1>3. Fathers("main3", "P1", Waiter) /\ Fathers("main3", "P2", Sleeper) /\ Fathers("main3", "P3", Sleeper)
  BY SMT DEF Fathers, Forks
<1> QED BY <1>1, <1>2, <1>3

LEMMA LengthsAre ==
  ASSUME program \in Programs, NEW p \in Processes
  PROVE  Len(Code(p)) \in Nat
<1>1. /\ \A s \in {Sender, Printer, CatTwo, GrepTwo} : Len(s) \in Nat
      /\ \A s \in {CatThree, GrepThree, SortThree, Waiter, Sleeper, <<>>} : Len(s) \in Nat
  BY SMT DEF Sender, Printer, CatTwo, GrepTwo, CatThree, GrepThree, SortThree, Waiter, Sleeper
<1> QED BY <1>1, CodeIs, ProgramsAre DEF Processes

LEMMA CodeIsGood ==
  ASSUME program \in Programs, NEW p \in Processes
  PROVE  Good(p, Code(p), Code("P1")) /\ Fathers(program, p, Code(p))
<1>1. p = "P1" \/ p = "P2" \/ p = "P3"
  BY DEF Processes
<1>2. CASE program = "pipes1"
  BY <1>1, <1>2, CodeIs, GoodPipes1, GoodNothing
<1>3. CASE program = "pipes2"
  BY <1>1, <1>3, CodeIs, GoodPipes2, GoodNothing
<1>4. CASE program = "pipes3"
  BY <1>1, <1>4, CodeIs, GoodPipes3
<1>5. CASE program = "main3"
  BY <1>1, <1>5, CodeIs, GoodMain3
<1> QED BY <1>2, <1>3, <1>4, <1>5, ProgramsAre

(* A process is forked by one call only. *)
LEMMA OneFather ==
  ASSUME program \in Programs, NEW p \in Processes, NEW q \in Processes,
         NEW m \in 1..Len(Code(p)), NEW n \in 1..Len(Code(q)),
         Code(p)[m].op = "fork", Code(q)[n].op = "fork", Code(p)[m].child = Code(q)[n].child
  PROVE  p = q /\ m = n
<1>1. <<p, m, Code(p)[m].child>> \in Forks[program] /\ <<q, n, Code(q)[n].child>> \in Forks[program]
  BY CodeIsGood DEF Fathers
<1> QED BY <1>1, ProgramsAre DEF Forks

-----------------------------------------------------------------------------
(* What is left of the steps when a process makes its next call or none. *)
LEMMA FilesDiffer ==
  /\ \A k, j \in Pipe : /\ ReadEnd(k) # WriteEnd(j) /\ ReadEnd(k) # Closed /\ WriteEnd(k) # Closed
                        /\ ReadEnd(k) # Tty /\ WriteEnd(k) # Tty
                        /\ ReadEnd(k) = ReadEnd(j) => k = j
                        /\ WriteEnd(k) = WriteEnd(j) => k = j
                        /\ READ(k) = READ(j) => k = j
                        /\ WRITE(k) = WRITE(j) => k = j
                        /\ READ(k) # WRITE(j) /\ READ(k) \notin {0, 1} /\ WRITE(k) \notin {0, 1}
                        /\ {READ(k), WRITE(k)} \subseteq Descriptors
  /\ 0 \in Descriptors /\ 1 \in Descriptors /\ Tty # Closed
BY SMT DEF ReadEnd, WriteEnd, Closed, Tty, READ, WRITE, Pipe, Descriptors

(* Before its next call a process has made those that stand there. *)
LEMMA CalledBefore ==
  ASSUME NEW p, NEW c
  PROVE  Called(p, c) <=> Before(Code(p), ip[p], c)
BY DEF Called, Before

LEMMA CodeKept == ASSUME UNCHANGED program PROVE \A p : Code(p)' = Code(p)
BY DEF Code

LEMMA CalledGrows ==
  ASSUME PipesTypeOK, UNCHANGED program, NEW p \in Processes, Advance(p), NEW q \in Processes,
         NEW CONSTANT c
  PROVE  /\ Called(q, c)' <=> Called(q, c) \/ (q = p /\ Call(p) = c)
         /\ Called(q, c) => Called(q, c)'
<1>1. ip'[q] = IF q = p THEN ip[p] + 1 ELSE ip[q]
  BY DEF PipesTypeOK, Advance
<1>2. ip[q] \in Nat /\ ip[q] >= 1
  BY DEF PipesTypeOK
<1>3. Called(q, c)' <=> \E n \in 1..ip'[q] - 1 : Code(q)[n] = c
  BY CodeKept DEF Called
<1>4. CASE q = p
  <2>1. 1..ip'[q] - 1 = (1..ip[q] - 1) \cup {ip[p]}
    BY <1>1, <1>2, <1>4
  <2> QED BY <2>1, <1>3, <1>4 DEF Called, Call
<1>5. CASE q # p
  BY <1>1, <1>3, <1>5 DEF Called
<1> QED BY <1>4, <1>5

LEMMA CalledKept ==
  ASSUME UNCHANGED <<program, ip>>, NEW q, NEW CONSTANT c
  PROVE  Called(q, c)' <=> Called(q, c)
BY CodeKept DEF Called

LEMMA MadeGrows ==
  ASSUME PipesTypeOK, UNCHANGED program, NEW p \in Processes, Advance(p), NEW q \in Processes,
         NEW CONSTANT k \in Pipe
  PROVE  Made(q, k)' <=> Made(q, k) \/ (q = p /\ p = "P1" /\ Call(p) = pipe(k))
<1>1. Called(q, pipe(k))' <=> Called(q, pipe(k)) \/ (q = p /\ Call(p) = pipe(k))
  BY CalledGrows
<1> QED BY <1>1, CodeKept DEF Made

LEMMA MadeKept ==
  ASSUME UNCHANGED <<program, ip>>, NEW q, NEW CONSTANT k \in Pipe
  PROVE  Made(q, k)' <=> Made(q, k)
BY CodeKept, CalledKept DEF Made

(* A process makes its next call, or none: the others stay as they are. *)
MakesCall(p) == Advance(p) /\ tool[p] = "own" /\ ip[p] <= Len(Code(p))
Alone(p) == /\ p \in Processes /\ Running(p) /\ PipesTypeOK'
            /\ UNCHANGED program
            /\ UNCHANGED ip \/ MakesCall(p)
            /\ state'[p] # "unborn"
            /\ \A q \in Processes \ {p} : /\ state'[q] = state[q] /\ tool'[q] = tool[q]
                                          /\ fds'[q] = fds[q] /\ held'[q] = held[q]

LEMMA IpGrows ==
  ASSUME PipesTypeOK, NEW p \in Processes, UNCHANGED ip \/ MakesCall(p), NEW q \in Processes
  PROVE  /\ ip'[q] = ip[q] \/ (q = p /\ ip'[q] = ip[p] + 1 /\ ip[p] <= Len(Code(p)))
         /\ ip[q] \in Nat /\ ip'[q] >= ip[q]
BY DEF PipesTypeOK, MakesCall, Advance

LEMMA BornKept ==
  ASSUME PipesTypeOK, Born, NEW p, Alone(p)
  PROVE  Born'
<1>1. state'["P1"] # "unborn"
  BY DEF Alone, Born, Processes
<1>2. ASSUME NEW q \in Processes, state'[q] = "unborn"
      PROVE  ip'[q] = 1 /\ tool'[q] = "own"
  <2>1. q # p
    BY <1>2 DEF Alone
  <2> QED BY <1>2, <2>1, IpGrows DEF Alone, Born
<1>3. ASSUME NEW q \in Processes \ {"P1"}, state'[q] # "unborn"
      PROVE  Forked(q)'
  <2>1. state[q] # "unborn"
    BY <1>3 DEF Alone, Running
  <2>2. PICK f \in Processes : \E n \in 1..ip[f] - 1 : Code(f)[n].op = "fork" /\ Code(f)[n].child = q
    BY <2>1 DEF Born, Forked
  <2>3. PICK n \in 1..ip[f] - 1 : Code(f)[n].op = "fork" /\ Code(f)[n].child = q
    BY <2>2
  <2>4. n \in 1..ip'[f] - 1
    <3>1. ip[f] \in Nat /\ ip'[f] >= ip[f] /\ ip'[f] \in Nat
      BY IpGrows DEF Alone, PipesTypeOK
    <3> QED BY <3>1
  <2>5. Code(f)' = Code(f)
    BY CodeKept DEF Alone
  <2>6. Code(f)'[n].op = "fork" /\ Code(f)'[n].child = q
    BY <2>3, <2>5
  <2>7. \E m \in 1..ip'[f] - 1 : Code(f)'[m].op = "fork" /\ Code(f)'[m].child = q
    BY <2>4, <2>6
  <2> QED BY <2>7 DEF Forked
<1> QED BY <1>1, <1>2, <1>3 DEF Born

FitsAfter(p) ==
  IF tool'[p] = "own" THEN state'[p] = "done" => ip'[p] = Len(Code(p)) + 1
  ELSE /\ state'[p] = "done" => tool'[p] # "sort" /\ held'[p] = <<>>
       /\ ip'[p] <= Len(Code(p)) /\ Code(p)[ip'[p]] = exec(IF tool'[p] = "sorted" THEN "sort" ELSE tool'[p])

LEMMA ToolsKept ==
  ASSUME PipesTypeOK, ToolFits, NEW p, Alone(p), FitsAfter(p)
  PROVE  ToolFits'
<1> SUFFICES ASSUME NEW q \in Processes
             PROVE  IF tool'[q] = "own" THEN state'[q] = "done" => ip'[q] = Len(Code(q)') + 1
                    ELSE /\ state'[q] = "done" => tool'[q] # "sort" /\ held'[q] = <<>>
                         /\ ip'[q] <= Len(Code(q)')
                         /\ Code(q)'[ip'[q]] = exec(IF tool'[q] = "sorted" THEN "sort" ELSE tool'[q])
  BY DEF ToolFits, Call
<1>1. Code(q)' = Code(q)
  BY CodeKept DEF Alone
<1>2. CASE q = p
  BY <1>1, <1>2 DEF FitsAfter
<1>3. CASE q # p
  <2>1. ip'[q] = ip[q] /\ tool'[q] = tool[q] /\ state'[q] = state[q] /\ held'[q] = held[q]
    BY <1>3, IpGrows DEF Alone
  <2> QED BY <1>1, <2>1 DEF ToolFits, Call
<1> QED BY <1>2, <1>3

(* Calls that concern no descriptor. *)
LEMMA FilesKept ==
  ASSUME PipesTypeOK, FilesFit, NEW p, Alone(p),
         state'[p] = "running" => fds'[p] = fds[p],
         UNCHANGED ip \/ Call(p).op \notin {"pipe", "close", "dup2"}
  PROVE  FilesFit'
<1> SUFFICES ASSUME NEW q \in Processes, Running(q)'
             PROVE  FilesFollow(q)'
  BY DEF FilesFit
<1>1. Running(q) /\ fds'[q] = fds[q]
  BY DEF Alone, Running
<1>2. ASSUME NEW CONSTANT k \in Pipe
      PROVE  /\ Made(q, k)' <=> Made(q, k)
             /\ Called(q, close(READ(k)))' <=> Called(q, close(READ(k)))
             /\ Called(q, close(WRITE(k)))' <=> Called(q, close(WRITE(k)))
             /\ Called(q, dup2(READ(k), 0))' <=> Called(q, dup2(READ(k), 0))
             /\ Called(q, dup2(WRITE(k), 1))' <=> Called(q, dup2(WRITE(k), 1))
  <2>1. CASE UNCHANGED ip
    BY <2>1, MadeKept, CalledKept DEF Alone
  <2>2. CASE ip' # ip
    <3>1. Advance(p) /\ p \in Processes /\ UNCHANGED program
      BY <2>2 DEF Alone, MakesCall
    <3>2. \A c : c.op \in {"pipe", "close", "dup2"} => Call(p) # c
      BY <2>2
    <3>3. /\ pipe(k).op = "pipe" /\ close(READ(k)).op = "close" /\ close(WRITE(k)).op = "close"
          /\ dup2(READ(k), 0).op = "dup2" /\ dup2(WRITE(k), 1).op = "dup2"
      BY DEF pipe, close, dup2
    <3>4. /\ Call(p) # pipe(k) /\ Call(p) # close(READ(k)) /\ Call(p) # close(WRITE(k))
          /\ Call(p) # dup2(READ(k), 0) /\ Call(p) # dup2(WRITE(k), 1)
      BY <3>2, <3>3
    <3>5. Made(q, k)' <=> Made(q, k)
      BY <3>1, <3>4, MadeGrows
    <3>6. \A c : Call(p) # c => (Called(q, c)' <=> Called(q, c))
      BY <3>1, CalledGrows
    <3> QED BY <3>4, <3>5, <3>6
  <2> QED BY <2>1, <2>2
<1>3. FilesFollow(q)
  BY <1>1 DEF FilesFit
<1> QED BY <1>1, <1>2, <1>3 DEF FilesFollow

(* The waits that P1 has called. *)
Waits == {n \in 1..ip["P1"] - 1 : Code("P1")[n] = wait}

LEMMA WaitsAre ==
  ASSUME PipesTypeOK, UNCHANGED program, NEW p \in Processes, UNCHANGED ip \/ MakesCall(p)
  PROVE  /\ UNCHANGED ip \/ p # "P1" \/ Call(p) # wait => Waits' = Waits
         /\ MakesCall(p) /\ p = "P1" /\ Call(p) = wait => Waits' = Waits \cup {ip["P1"]}
<1>1. "P1" \in Processes /\ Code("P1")' = Code("P1") /\ ip["P1"] \in Nat /\ ip["P1"] >= 1
  BY CodeKept DEF PipesTypeOK, Processes
<1>2. CASE ip'["P1"] = ip["P1"]
  <2>1. ~(MakesCall(p) /\ p = "P1")
    BY <1>1, <1>2 DEF PipesTypeOK, MakesCall, Advance
  <2> QED BY <1>1, <1>2, <2>1 DEF Waits
<1>3. CASE ip'["P1"] # ip["P1"]
  <2>1. p = "P1" /\ ip'["P1"] = ip["P1"] + 1 /\ ip' # ip
    BY <1>1, <1>3, IpGrows
  <2>2. 1..ip'["P1"] - 1 = (1..ip["P1"] - 1) \cup {ip["P1"]}
    BY <1>1, <2>1
  <2>3. Waits' = {n \in 1..ip'["P1"] - 1 : Code("P1")[n] = wait}
    BY <1>1 DEF Waits
  <2>4. Call(p) = Code("P1")[ip["P1"]]
    BY <2>1 DEF Call
  <2> QED BY <1>1, <2>1, <2>2, <2>3, <2>4 DEF Waits
<1> QED BY <1>2, <1>3

LEMMA WaitsFinite ==
  ASSUME PipesTypeOK
  PROVE  IsFiniteSet(Waits) /\ ip["P1"] \notin Waits
<1>1. ip["P1"] \in Nat
  BY DEF PipesTypeOK, Processes
<1>2. IsFiniteSet(1..ip["P1"] - 1)
  BY <1>1, FS_Interval
<1>3. Waits \subseteq 1..ip["P1"] - 1
  BY DEF Waits
<1>4. IsFiniteSet(Waits)
  BY <1>2, <1>3, FS_Subset
<1>5. ip["P1"] \notin Waits
  BY <1>1 DEF Waits
<1> QED BY <1>4, <1>5

LEMMA WaitedKept ==
  ASSUME PipesTypeOK, Waited, NEW p, Alone(p), reaped' = reaped,
         UNCHANGED ip \/ Call(p).op # "wait"
  PROVE  Waited'
<1>1. ASSUME NEW q \in reaped'
      PROVE  q # "P1" /\ Ended(q)'
  <2>1. q # "P1" /\ Ended(q) /\ q \in Processes
    BY <1>1 DEF Waited, PipesTypeOK
  <2>2. q # p
    BY <2>1 DEF Ended, Alone, Running
  <2> QED BY <2>1, <2>2 DEF Ended, Alone
<1>2. UNCHANGED ip \/ Call(p) # wait
  BY DEF wait
<1>3. Waits' = Waits
  BY <1>2, WaitsAre DEF Alone
<1> QED BY <1>1, <1>3 DEF Waited, Waits

-----------------------------------------------------------------------------
(* The actions.  The types first. *)
LEMMA LinesAre == Scores \in Seq(Lines) /\ Typed \in Lines /\ Junk \in Lines
<1>1. Scores \in Seq(Nat) /\ Len(Scores) \in Nat /\ DOMAIN Scores = 1..Len(Scores)
  BY PipesAssumption
<1>2. \A i \in 1..Len(Scores) : Scores[i] \in Range(Scores)
  BY <1>1 DEF Range
<1>3. \A i \in 1..Len(Scores) : Scores[i] \in Lines
  BY <1>2 DEF Lines
<1> QED BY <1>1, <1>3 DEF Lines

LEMMA SortingsAre ==
  ASSUME NEW lines \in Seq(Lines), NEW ordered \in Sortings(lines)
  PROVE  ordered \in Seq(Lines)
<1>1. PICK order \in Bijection(DOMAIN lines, DOMAIN lines) :
        ordered = [i \in DOMAIN lines |-> lines[order[i]]]
  BY DEF Sortings
<1>2. order \in [DOMAIN lines -> DOMAIN lines]
  BY DEF Bijection, Injection, Surjection
<1>3. DOMAIN lines = 1..Len(lines) /\ Len(lines) \in Nat /\ \A i \in DOMAIN lines : lines[i] \in Lines
  OBVIOUS
<1>4. \A i \in 1..Len(lines) : lines[order[i]] \in Lines
  BY <1>2, <1>3
<1>5. ordered = [i \in 1..Len(lines) |-> lines[order[i]]]
  BY <1>1, <1>3
<1> HIDE DEF Sortings
<1> QED BY <1>3, <1>4, <1>5

LEMMA AdvanceTyped ==
  ASSUME PipesTypeOK, UNCHANGED program, NEW p \in Processes, UNCHANGED ip \/ MakesCall(p)
  PROVE  ip' \in [Processes -> Nat] /\ \A q \in Processes : ip'[q] \in 1..Len(Code(q)') + 1
<1>1. \A q \in Processes : Len(Code(q)) \in Nat /\ Code(q)' = Code(q)
  BY LengthsAre, CodeKept DEF PipesTypeOK
<1>2. ip' \in [Processes -> Nat]
  <2>1. ip \in [Processes -> Nat] /\ ip[p] + 1 \in Nat
    BY DEF PipesTypeOK
  <2>2. ip' = ip \/ ip' = [ip EXCEPT ![p] = ip[p] + 1]
    BY DEF MakesCall, Advance
  <2> QED BY <2>1, <2>2
<1>3. ASSUME NEW q \in Processes
      PROVE  ip'[q] \in 1..Len(Code(q)') + 1
  <2>1. ip[q] \in 1..Len(Code(q)) + 1
    BY DEF PipesTypeOK
  <2>2. ip'[q] = ip[q] \/ (ip'[q] = ip[q] + 1 /\ ip[q] <= Len(Code(q)))
    BY IpGrows
  <2> QED BY <1>1, <2>1, <2>2
<1> QED BY <1>2, <1>3

(* A call of the script. *)
LEMMA AtCall ==
  ASSUME PipesTypeOK, NEW p \in Processes, NEW op, At(p, op)
  PROVE  /\ Running(p) /\ tool[p] = "own" /\ ip[p] \in 1..Len(Code(p)) /\ Call(p).op = op
         /\ Good(p, Code(p), Code("P1")) /\ program \in Programs
BY CodeIsGood DEF PipesTypeOK, At, Call

LEMMA DieIs ==
  ASSUME PipesTypeOK, NEW p \in Processes, NEW how, Die(p, how)
  PROVE  /\ state'[p] = how /\ \A q \in Processes \ {p} : state'[q] = state[q] /\ fds'[q] = fds[q]
         /\ how \in {"done", "failed", "killed"} =>
              /\ state' \in [Processes -> {"unborn", "running", "done", "failed", "killed"}]
              /\ fds' \in [Processes -> [Descriptors -> Files]]
BY DEF PipesTypeOK, Die, Files

(* What the proofs carry from step to step. *)
PipesInd == PipesTypeOK /\ Born /\ ToolFits /\ FilesFit /\ Waited

Quiet(p) == /\ FitsAfter(p)
            /\ state'[p] = "running" => fds'[p] = fds[p]
            /\ UNCHANGED ip \/ Call(p).op \notin {"pipe", "close", "dup2", "wait"}
            /\ reaped' = reaped

LEMMA QuietCalls ==
  ASSUME PipesInd, NEW p, Alone(p), Quiet(p)
  PROVE  PipesInd'
<1>1. PipesTypeOK'
  BY DEF Alone
<1>2. Born'
  BY BornKept DEF PipesInd
<1>3. ToolFits'
  BY ToolsKept DEF PipesInd, Quiet
<1>4. FilesFit'
  BY FilesKept DEF PipesInd, Quiet
<1>5. Waited'
  BY WaitedKept DEF PipesInd, Quiet
<1> QED BY <1>1, <1>2, <1>3, <1>4, <1>5 DEF PipesInd

(* A process that dies where it is, whatever else it leaves alone. *)
LEMMA DyingSteps ==
  ASSUME PipesInd, NEW p \in Processes, Running(p), NEW how \in {"done", "failed", "killed"}, Die(p, how),
         how = "done" => IF tool[p] = "own" THEN ip[p] = Len(Code(p)) + 1
                         ELSE tool[p] # "sort" /\ held[p] = <<>>,
         UNCHANGED <<program, ip, tool, held, pipes, tty, reaped>>, kills' \in 0..MaxKills,
         disturbed' \in BOOLEAN
  PROVE  PipesInd'
<1>1. PipesTypeOK /\ ToolFits
  BY DEF PipesInd
<1>2. PipesTypeOK'
  <2>1. /\ state' \in [Processes -> {"unborn", "running", "done", "failed", "killed"}]
        /\ fds' \in [Processes -> [Descriptors -> Files]]
    BY <1>1, DieIs
  <2>2. ip' \in [Processes -> Nat] /\ \A q \in Processes : ip'[q] \in 1..Len(Code(q)') + 1
    BY <1>1, AdvanceTyped
  <2> QED BY <1>1, <2>1, <2>2 DEF PipesTypeOK, Lines
<1>3. state'[p] = how /\ \A q \in Processes \ {p} : state'[q] = state[q] /\ fds'[q] = fds[q]
  BY <1>1, DieIs
<1>4. Alone(p)
  <2>1. \A q \in Processes \ {p} : /\ state'[q] = state[q] /\ tool'[q] = tool[q]
                                   /\ fds'[q] = fds[q] /\ held'[q] = held[q]
    BY <1>3
  <2>2. state'[p] # "unborn" /\ (UNCHANGED ip \/ MakesCall(p))
    BY <1>3
  <2> QED BY <1>2, <2>1, <2>2 DEF Alone
<1>5. FitsAfter(p)
  <2>1. tool'[p] = tool[p] /\ held'[p] = held[p] /\ ip'[p] = ip[p]
    OBVIOUS
  <2> QED BY <1>1, <1>3, <2>1 DEF FitsAfter, ToolFits, Call
<1>6. Quiet(p)
  BY <1>3, <1>5 DEF Quiet
<1> QED BY <1>4, <1>6, QuietCalls

LEMMA StillTyped ==
  ASSUME PipesTypeOK, UNCHANGED tty, disturbed' = TRUE \/ UNCHANGED disturbed
  PROVE  tty' \in Seq(Lines) /\ disturbed' \in BOOLEAN
BY DEF PipesTypeOK

LEMMA Deaths ==
  ASSUME PipesInd, NEW p \in Processes,
         CannotExec(p) \/ Exit(p) \/ BrokenPipe(p) \/ Kill(p)
  PROVE  PipesInd'
<1>1. PipesTypeOK
  BY DEF PipesInd
<1>2. kills \in 0..MaxKills /\ MaxKills \in Nat
  BY <1>1, PipesAssumption DEF PipesTypeOK
<1>3. CASE CannotExec(p)
  <2>1. Running(p)
    BY <1>1, <1>3, AtCall DEF CannotExec
  <2> QED BY <1>1, <1>2, <1>3, <2>1, StillTyped, DyingSteps DEF CannotExec
<1>4. CASE Exit(p)
  <2>1. tool[p] = "own" => ip[p] = Len(Code(p)) + 1
    <3>1. ip[p] \in 1..Len(Code(p)) + 1 /\ Len(Code(p)) \in Nat
      BY <1>1, LengthsAre DEF PipesTypeOK
    <3> QED BY <1>4, <3>1 DEF Exit
  <2> QED BY <1>1, <1>2, <1>4, <2>1, StillTyped, DyingSteps DEF Exit
<1>5. CASE BrokenPipe(p)
  <2>1. Running(p)
    BY <1>5 DEF BrokenPipe, Writes, At
  <2> QED BY <1>1, <1>2, <1>5, <2>1, StillTyped, DyingSteps DEF BrokenPipe
<1>6. CASE Kill(p)
  <2>1. kills' \in 0..MaxKills
    BY <1>2, <1>6 DEF Kill
  <2> QED BY <1>1, <1>6, <2>1, StillTyped, DyingSteps DEF Kill
<1> QED BY <1>3, <1>4, <1>5, <1>6

(* A process that goes on with its descriptors as they were. *)
LEMMA GoingOn ==
  ASSUME PipesInd, NEW p \in Processes, Running(p), UNCHANGED <<program, state, fds, reaped, kills>>,
         tty' \in Seq(Lines), disturbed' \in BOOLEAN, UNCHANGED ip \/ (MakesCall(p) /\ Call(p).op \notin {"pipe", "close", "dup2", "wait"}),
         tool' \in [Processes -> {"own", "cat", "grep", "sort", "sorted"}],
         \A q \in Processes \ {p} : tool'[q] = tool[q],
         held' \in [Processes -> Seq(Lines)], \A q \in Processes \ {p} : held'[q] = held[q],
         pipes' \in [Pipe -> Seq(Lines)], \A k \in Pipe : Len(pipes'[k]) <= Capacity,
         FitsAfter(p)
  PROVE  PipesInd'
<1>1. PipesTypeOK
  BY DEF PipesInd
<1>2. PipesTypeOK'
  <2>1. ip' \in [Processes -> Nat] /\ \A q \in Processes : ip'[q] \in 1..Len(Code(q)') + 1
    BY <1>1, AdvanceTyped
  <2> QED BY <1>1, <2>1 DEF PipesTypeOK, Lines
<1>3. Alone(p)
  BY <1>2 DEF Alone, Running
<1>4. Quiet(p)
  BY DEF Quiet
<1> QED BY <1>3, <1>4, QuietCalls

LEMMA AdvanceIs ==
  ASSUME PipesTypeOK, NEW p \in Processes, Advance(p)
  PROVE  ip'[p] = ip[p] + 1
BY DEF PipesTypeOK, Advance

LEMMA FailedForks ==
  ASSUME PipesInd, NEW p \in Processes, CannotFork(p)
  PROVE  PipesInd'
<1>1. PipesTypeOK /\ ToolFits
  BY DEF PipesInd
<1>2. Running(p) /\ tool[p] = "own" /\ ip[p] \in 1..Len(Code(p)) /\ Call(p).op = "fork"
  BY <1>1, AtCall DEF CannotFork
<1>3. CASE Call(p).checked
  BY <1>1, <1>2, <1>3, StillTyped, DyingSteps DEF CannotFork, PipesTypeOK
<1>4. CASE ~Call(p).checked
  <2>1. MakesCall(p) /\ UNCHANGED <<state, fds>>
    BY <1>2, <1>4 DEF CannotFork, MakesCall
  <2>2. FitsAfter(p)
    BY <1>2, <2>1 DEF FitsAfter, CannotFork, Running
  <2>3. UNCHANGED <<program, state, fds, reaped, kills, tool, held, pipes>>
    BY <2>1 DEF CannotFork
  <2>4. tty' \in Seq(Lines) /\ disturbed' \in BOOLEAN
    BY <1>1, StillTyped DEF CannotFork
  <2> QED BY <1>1, <1>2, <2>1, <2>2, <2>3, <2>4, GoingOn DEF PipesTypeOK
<1> QED BY <1>3, <1>4

LEMMA Sleeps ==
  ASSUME PipesInd, NEW p \in Processes, Sleep(p)
  PROVE  PipesInd'
<1>1. PipesTypeOK
  BY DEF PipesInd
<1>2. Running(p) /\ tool[p] = "own" /\ ip[p] \in 1..Len(Code(p)) /\ Call(p).op = "sleep"
  BY <1>1, AtCall DEF Sleep
<1>3. MakesCall(p) /\ FitsAfter(p)
  BY <1>2 DEF Sleep, MakesCall, FitsAfter, Running
<1>4. UNCHANGED <<program, state, fds, reaped, kills, tool, held, pipes, tty, disturbed>>
  BY DEF Sleep
<1> QED BY <1>1, <1>2, <1>3, <1>4, GoingOn DEF PipesTypeOK

LEMMA Execs ==
  ASSUME PipesInd, NEW p \in Processes, ExecTool(p)
  PROVE  PipesInd'
<1>1. PipesTypeOK
  BY DEF PipesInd
<1>2. /\ Running(p) /\ tool[p] = "own" /\ ip[p] \in 1..Len(Code(p)) /\ Call(p).op = "exec"
      /\ Good(p, Code(p), Code("P1"))
  BY <1>1, AtCall DEF ExecTool
<1>3. PICK t \in {"cat", "grep", "sort"} : Call(p) = exec(t)
  BY <1>2 DEF Good, GoodExec, Call
<1>4. Call(p).tool = t
  BY <1>3 DEF exec
<1>5. tool' = [tool EXCEPT ![p] = t]
  BY <1>4 DEF ExecTool
<1>6. /\ tool'[p] = t /\ tool' \in [Processes -> {"own", "cat", "grep", "sort", "sorted"}]
      /\ \A q \in Processes \ {p} : tool'[q] = tool[q]
  BY <1>1, <1>5 DEF PipesTypeOK
<1>7. UNCHANGED <<program, state, ip, fds, reaped, kills, pipes, tty, disturbed>>
  BY DEF ExecTool
<1>8. FitsAfter(p)
  <2>1. ip'[p] <= Len(Code(p)) /\ Code(p)[ip'[p]] = exec(t)
    BY <1>2, <1>3, <1>7 DEF Call
  <2>2. state'[p] # "done"
    BY <1>2, <1>7 DEF Running
  <2> QED BY <1>6, <2>1, <2>2 DEF FitsAfter
<1>9. held' \in [Processes -> Seq(Lines)] /\ \A q \in Processes \ {p} : held'[q] = held[q]
  <2>1. held' = [held EXCEPT ![p] = IF t = "cat" THEN Scores ELSE <<>>]
    BY <1>4 DEF ExecTool
  <2>2. <<>> \in Seq(Lines)
    OBVIOUS
  <2> QED BY <1>1, <2>1, <2>2, LinesAre DEF PipesTypeOK
<1> QED BY <1>1, <1>2, <1>6, <1>7, <1>8, <1>9, GoingOn DEF PipesTypeOK

(* Reading and writing, by a call or by a tool. *)
LEMMA ProceedIs ==
  ASSUME PipesTypeOK, NEW p \in Processes, Proceed(p), NEW op \in {"read", "write"},
         tool[p] = "own" => At(p, op)
  PROVE  UNCHANGED ip \/ (MakesCall(p) /\ Call(p).op \notin {"pipe", "close", "dup2", "wait"})
<1>1. CASE tool[p] = "own"
  BY <1>1, AtCall DEF Proceed, MakesCall
<1>2. CASE tool[p] # "own"
  BY <1>2 DEF Proceed
<1> QED BY <1>1, <1>2

LEMMA FitsStill ==
  ASSUME PipesInd, NEW p \in Processes, Running(p), Proceed(p), UNCHANGED state,
         tool'[p] = tool[p] \/ (tool[p] = "sort" /\ tool'[p] = "sorted")
  PROVE  FitsAfter(p)
<1>1. CASE tool[p] = "own"
  BY <1>1 DEF FitsAfter, Running
<1>2. CASE tool[p] # "own"
  <2>1. UNCHANGED ip
    BY <1>2 DEF Proceed
  <2>2. /\ ip[p] <= Len(Code(p))
        /\ Call(p) = exec(IF tool[p] = "sorted" THEN "sort" ELSE tool[p])
    BY <1>2 DEF PipesInd, ToolFits
  <2>3. state'[p] # "done"
    BY DEF Running
  <2> QED BY <1>2, <2>1, <2>2, <2>3 DEF FitsAfter, Call
<1> QED BY <1>1, <1>2

LEMMA ReadLines ==
  ASSUME PipesInd, NEW p \in Processes, ReadLine(p)
  PROVE  PipesInd'
<1>1. PipesTypeOK
  BY DEF PipesInd
<1>2. PICK k \in Pipe :
        /\ pipes[k] # <<>> /\ pipes' = [pipes EXCEPT ![k] = Tail(@)]
        /\ LET line == Head(pipes[k])
           IN held' = [held EXCEPT ![p] = IF tool[p] = "sort" THEN Append(@, line)
                                          ELSE IF tool[p] = "grep" /\ line \notin Wanted THEN <<>>
                                          ELSE <<line>>]
  BY DEF ReadLine
<1>3. /\ Running(p) /\ Proceed(p) /\ (tool[p] = "own" => At(p, "read"))
      /\ UNCHANGED <<program, state, tool, fds, reaped, kills, tty, disturbed>>
  BY DEF ReadLine, Reads, At
<1>4. /\ pipes[k] \in Seq(Lines) /\ Len(pipes[k]) <= Capacity /\ held[p] \in Seq(Lines)
      /\ held \in [Processes -> Seq(Lines)] /\ pipes \in [Pipe -> Seq(Lines)]
  BY <1>1 DEF PipesTypeOK
<1>5. /\ Head(pipes[k]) \in Lines /\ Tail(pipes[k]) \in Seq(Lines)
      /\ Len(Tail(pipes[k])) <= Capacity
  <2>1. Len(Tail(pipes[k])) = Len(pipes[k]) - 1 /\ Len(pipes[k]) \in Nat
    BY <1>2, <1>4
  <2> QED BY <1>2, <1>4, <2>1, PipesAssumption
<1>6. pipes' \in [Pipe -> Seq(Lines)] /\ \A j \in Pipe : Len(pipes'[j]) <= Capacity
  BY <1>1, <1>2, <1>5 DEF PipesTypeOK
<1>7. held' \in [Processes -> Seq(Lines)] /\ \A q \in Processes \ {p} : held'[q] = held[q]
  <2>1. \A line \in Lines : <<line>> \in Seq(Lines) /\ Append(held[p], line) \in Seq(Lines)
    BY <1>4
  <2>2. <<>> \in Seq(Lines)
    OBVIOUS
  <2>3. PICK lines \in Seq(Lines) : held' = [held EXCEPT ![p] = lines]
    BY <1>2, <1>5, <2>1, <2>2
  <2> QED BY <1>4, <2>3
<1>8. UNCHANGED ip \/ (MakesCall(p) /\ Call(p).op \notin {"pipe", "close", "dup2", "wait"})
  BY <1>1, <1>3, ProceedIs
<1>9. FitsAfter(p)
  BY <1>3, FitsStill
<1>10. /\ tool' \in [Processes -> {"own", "cat", "grep", "sort", "sorted"}]
       /\ \A q \in Processes \ {p} : tool'[q] = tool[q]
  BY <1>1, <1>3 DEF PipesTypeOK
<1>11. tty' \in Seq(Lines) /\ disturbed' \in BOOLEAN
  BY <1>1, <1>3, StillTyped
<1> QED BY <1>3, <1>6, <1>7, <1>8, <1>9, <1>10, <1>11, GoingOn

LEMMA ReadEOFs ==
  ASSUME PipesInd, NEW p \in Processes, ReadEOF(p)
  PROVE  PipesInd'
<1>1. PipesTypeOK
  BY DEF PipesInd
<1>2. Running(p) /\ Proceed(p) /\ (tool[p] = "own" => At(p, "read"))
  BY DEF ReadEOF, Reads, At
<1>3. /\ tool' = [tool EXCEPT ![p] = IF tool[p] = "sort" THEN "sorted" ELSE tool[p]]
      /\ UNCHANGED <<program, pipes, tty, reaped, kills, disturbed>>
  BY DEF ReadEOF
<1>4. PICK lines \in AtEOF(p) : held' = [held EXCEPT ![p] = lines]
  BY DEF ReadEOF
<1>5. CASE tool[p] = "grep"
  <2>1. Die(p, "done") /\ UNCHANGED ip
    BY <1>2, <1>5 DEF ReadEOF, Proceed
  <2>2. tool' = tool
    BY <1>1, <1>3, <1>5 DEF PipesTypeOK
  <2>3. lines = held[p]
    BY <1>5 DEF AtEOF
  <2>4. held' = held
    BY <1>1, <1>4, <2>3 DEF PipesTypeOK
  <2>5. kills' \in 0..MaxKills /\ disturbed' \in BOOLEAN
    BY <1>1, <1>3 DEF PipesTypeOK
  <2>6. tool[p] # "sort" /\ held[p] = <<>>
    BY <1>5 DEF ReadEOF, Reads, At
  <2> QED BY <1>2, <1>3, <1>5, <2>1, <2>2, <2>4, <2>5, <2>6, DyingSteps
<1>6. CASE tool[p] # "grep"
  <2>1. lines \in Seq(Lines)
    <3>1. held[p] \in Seq(Lines) /\ <<Junk>> \in Seq(Lines)
      BY <1>1, LinesAre DEF PipesTypeOK
    <3> QED BY <3>1, SortingsAre DEF AtEOF
  <2>2. held' \in [Processes -> Seq(Lines)] /\ \A q \in Processes \ {p} : held'[q] = held[q]
    BY <1>1, <1>4, <2>1 DEF PipesTypeOK
  <2>3. UNCHANGED <<state, fds>>
    BY <1>6 DEF ReadEOF
  <2>4. /\ tool' \in [Processes -> {"own", "cat", "grep", "sort", "sorted"}]
        /\ \A q \in Processes \ {p} : tool'[q] = tool[q]
        /\ tool'[p] = tool[p] \/ (tool[p] = "sort" /\ tool'[p] = "sorted")
    BY <1>1, <1>3 DEF PipesTypeOK
  <2>5. UNCHANGED ip \/ (MakesCall(p) /\ Call(p).op \notin {"pipe", "close", "dup2", "wait"})
    BY <1>1, <1>2, ProceedIs
  <2>6. FitsAfter(p)
    BY <1>2, <2>3, <2>4, FitsStill
  <2>7. pipes' \in [Pipe -> Seq(Lines)] /\ \A k \in Pipe : Len(pipes'[k]) <= Capacity
    BY <1>1, <1>3 DEF PipesTypeOK
  <2>8. tty' \in Seq(Lines) /\ disturbed' \in BOOLEAN
    BY <1>1, <1>3, StillTyped
  <2> QED BY <1>2, <1>3, <2>2, <2>3, <2>4, <2>5, <2>6, <2>7, <2>8, GoingOn
<1> QED BY <1>5, <1>6

LEMMA ReadyToWrite ==
  ASSUME PipesTypeOK, Loaded, NEW p \in Processes, Writes(p)
  PROVE  held[p] # <<>>
<1>1. CASE At(p, "write")
  <2>1. tool[p] = "own" /\ GoodWrite(p, Code(p), ip[p])
    BY <1>1, AtCall DEF Good, Call
  <2> QED BY <2>1 DEF GoodWrite, Loaded, Past
<1> QED BY <1>1 DEF Writes

LEMMA WriteLines ==
  ASSUME PipesInd, Loaded, NEW p \in Processes, WriteLine(p)
  PROVE  PipesInd'
<1>1. held[p] # <<>>
  BY ReadyToWrite DEF WriteLine, PipesInd
<1>2. PipesTypeOK
  BY DEF PipesInd
<1>3. /\ Running(p) /\ Proceed(p) /\ (tool[p] = "own" => At(p, "write"))
      /\ held' = [held EXCEPT ![p] = Tail(held[p])]
      /\ UNCHANGED <<program, state, tool, fds, reaped, kills, disturbed>>
  BY DEF WriteLine, Writes, At
<1>4. held[p] \in Seq(Lines) /\ Head(held[p]) \in Lines /\ Tail(held[p]) \in Seq(Lines)
  BY <1>1, <1>2 DEF PipesTypeOK
<1>5. held' \in [Processes -> Seq(Lines)] /\ \A q \in Processes \ {p} : held'[q] = held[q]
  BY <1>2, <1>3, <1>4 DEF PipesTypeOK
<1>6. pipes' \in [Pipe -> Seq(Lines)] /\ \A k \in Pipe : Len(pipes'[k]) <= Capacity
  <2>1. CASE pipes' = pipes
    BY <1>2, <2>1 DEF PipesTypeOK
  <2>2. CASE pipes' # pipes
    <3>1. PICK k \in Pipe : /\ Len(pipes[k]) < Capacity
                            /\ pipes' = [pipes EXCEPT ![k] = Append(pipes[k], Head(held[p]))]
      BY <2>2 DEF WriteLine
    <3>2. pipes[k] \in Seq(Lines)
      BY <1>2 DEF PipesTypeOK
    <3>3. /\ Append(pipes[k], Head(held[p])) \in Seq(Lines)
          /\ Len(Append(pipes[k], Head(held[p]))) <= Capacity
      BY <1>4, <3>1, <3>2, PipesAssumption
    <3> QED BY <1>2, <3>1, <3>3 DEF PipesTypeOK
  <2> QED BY <2>1, <2>2
<1>7. UNCHANGED ip \/ (MakesCall(p) /\ Call(p).op \notin {"pipe", "close", "dup2", "wait"})
  BY <1>2, <1>3, ProceedIs
<1>8. FitsAfter(p)
  BY <1>3, FitsStill
<1>9. /\ tool' \in [Processes -> {"own", "cat", "grep", "sort", "sorted"}]
      /\ \A q \in Processes \ {p} : tool'[q] = tool[q]
  BY <1>2, <1>3 DEF PipesTypeOK
<1>10. tty' \in Seq(Lines) /\ disturbed' \in BOOLEAN
  <2>1. tty' = tty \/ tty' = Append(tty, Head(held[p]))
    BY DEF WriteLine
  <2>2. tty \in Seq(Lines) /\ disturbed \in BOOLEAN
    BY <1>2 DEF PipesTypeOK
  <2>3. Append(tty, Head(held[p])) \in Seq(Lines)
    BY <1>4, <2>2
  <2> QED BY <1>3, <2>1, <2>2, <2>3
<1> QED BY <1>3, <1>5, <1>6, <1>7, <1>8, <1>9, <1>10, GoingOn

LEMMA PastGrows ==
  ASSUME PipesTypeOK, UNCHANGED program, NEW p \in Processes, UNCHANGED ip \/ MakesCall(p),
         NEW q \in Processes, NEW CONSTANT op
  PROVE  /\ Past(q, op) => Past(q, op)'
         /\ Past(q, op)' => Past(q, op) \/ (q = p /\ MakesCall(p) /\ Call(p).op = op)
         /\ MakesCall(p) /\ Call(p).op = op => Past(p, op)'
<1>1. /\ ip[q] \in Nat /\ ip[q] >= 1 /\ ip[p] \in Nat /\ ip[p] >= 1
      /\ Code(q)' = Code(q) /\ Code(p)' = Code(p)
  BY CodeKept DEF PipesTypeOK
<1>2. CASE UNCHANGED ip /\ ~MakesCall(p)
  BY <1>1, <1>2 DEF Past
<1>3. CASE MakesCall(p)
  <2>1. ip'[p] = ip[p] + 1 /\ (q # p => ip'[q] = ip[q])
    BY <1>3 DEF MakesCall, Advance, PipesTypeOK
  <2>2. 1..ip'[p] - 1 = (1..ip[p] - 1) \cup {ip[p]}
    BY <1>1, <2>1
  <2>3. Past(q, op)' <=> \E n \in 1..ip'[q] - 1 : Code(q)[n].op = op
    BY <1>1 DEF Past
  <2>4. Past(p, op)' <=> \E n \in 1..ip'[p] - 1 : Code(p)[n].op = op
    BY <1>1 DEF Past
  <2>5. CASE q = p
    BY <1>3, <2>2, <2>3, <2>5 DEF Past, Call
  <2>6. CASE q # p
    BY <2>1, <2>2, <2>3, <2>4, <2>6 DEF Past, Call
  <2> QED BY <2>5, <2>6
<1> QED BY <1>2, <1>3

LEMMA LoadedAfter ==
  ASSUME PipesTypeOK, Loaded, UNCHANGED program, NEW p \in Processes, UNCHANGED ip \/ MakesCall(p),
         \A q \in Processes \ {p} : held'[q] = held[q] /\ tool'[q] = tool[q],
         tool'[p] = "own" =>
           /\ tool[p] = "own"
           /\ \/ held'[p] # <<>>
              \/ MakesCall(p) /\ Call(p).op = "write"
              \/ held'[p] = held[p] /\ (MakesCall(p) => Call(p).op # "read")
  PROVE  Loaded'
<1> SUFFICES ASSUME NEW q \in Processes, tool'[q] = "own", q = "P1" \/ Past(q, "read")', ~Past(q, "write")'
             PROVE  held'[q] # <<>>
  BY DEF Loaded
<1>1. ~Past(q, "write")
  BY PastGrows
<1>2. Past(q, "read") \/ q = "P1" \/ (q = p /\ MakesCall(p) /\ Call(p).op = "read")
  BY PastGrows
<1>3. CASE q # p
  BY <1>1, <1>2, <1>3 DEF Loaded
<1>4. CASE q = p
  <2>1. ~(MakesCall(p) /\ Call(p).op = "write")
    BY <1>4, PastGrows
  <2>2. CASE held'[p] = held[p] /\ (MakesCall(p) => Call(p).op # "read")
    BY <1>1, <1>2, <1>4, <2>2 DEF Loaded
  <2> QED BY <1>4, <2>1, <2>2
<1> QED BY <1>3, <1>4

LEMMA CallsOnly ==
  ASSUME PipesTypeOK, NEW p \in Processes, NEW op, At(p, op), Advance(p)
  PROVE  MakesCall(p) /\ Call(p).op = op
BY AtCall DEF MakesCall

LEMMA LoadedSteps ==
  ASSUME PipesTypeOK, Loaded, NEW p \in Processes, Step(p) \/ Kill(p)
  PROVE  Loaded'
<1>1. CASE \/ MakePipe(p) \/ ForkChild(p) \/ CannotFork(p) \/ Close(p) \/ Dup2(p)
           \/ CannotExec(p) \/ Sleep(p) \/ Wait(p) \/ Exit(p) \/ BrokenPipe(p) \/ Kill(p)
  <2>1. UNCHANGED <<program, held, tool>>
    BY <1>1 DEF MakePipe, ForkChild, CannotFork, Close, Dup2, CannotExec, Sleep, Wait, Exit, BrokenPipe, Kill
  <2>2. \/ UNCHANGED ip
        \/ /\ Advance(p)
           /\ \E op \in {"pipe", "fork", "close", "dup2", "sleep", "wait"} : At(p, op)
    BY <1>1 DEF MakePipe, ForkChild, CannotFork, Close, Dup2, CannotExec, Sleep, Wait, Exit, BrokenPipe, Kill
  <2>3. CASE UNCHANGED ip
    <3>1. ~MakesCall(p)
      BY <2>3, AdvanceIs DEF MakesCall, PipesTypeOK
    <3> QED BY <2>1, <2>3, <3>1, LoadedAfter
  <2>4. CASE ip' # ip
    <3>1. MakesCall(p) /\ Call(p).op # "read"
      BY <2>2, <2>4, CallsOnly
    <3> QED BY <2>1, <3>1, LoadedAfter
  <2> QED BY <2>3, <2>4
<1>2. CASE ExecTool(p)
  <2>1. PICK t \in {"cat", "grep", "sort"} : Call(p) = exec(t)
    BY <1>2, AtCall DEF ExecTool, Good, GoodExec, Call
  <2>2. Call(p).tool = t
    BY <2>1 DEF exec
  <2>3. tool'[p] # "own" /\ \A q \in Processes \ {p} : held'[q] = held[q] /\ tool'[q] = tool[q]
    BY <1>2, <2>2 DEF ExecTool, PipesTypeOK
  <2>4. UNCHANGED <<program, ip>>
    BY <1>2 DEF ExecTool
  <2> QED BY <2>3, <2>4, LoadedAfter
<1>3. CASE ReadLine(p)
  <2>1. PICK line : held' = [held EXCEPT ![p] = IF tool[p] = "sort" THEN Append(held[p], line)
                                                ELSE IF tool[p] = "grep" /\ line \notin Wanted THEN <<>>
                                                ELSE <<line>>]
    BY <1>3 DEF ReadLine
  <2>2. /\ \A q \in Processes \ {p} : held'[q] = held[q] /\ tool'[q] = tool[q]
        /\ tool'[p] = tool[p] /\ (tool[p] = "own" => held'[p] = <<line>>)
    BY <1>3, <2>1 DEF ReadLine, PipesTypeOK
  <2>3. UNCHANGED program /\ (UNCHANGED ip \/ MakesCall(p))
    BY <1>3, ProceedIs DEF ReadLine, Reads
  <2> QED BY <2>2, <2>3, LoadedAfter
<1>4. CASE ReadEOF(p)
  <2>1. PICK lines \in AtEOF(p) : held' = [held EXCEPT ![p] = lines]
    BY <1>4 DEF ReadEOF
  <2>2. /\ \A q \in Processes \ {p} : held'[q] = held[q] /\ tool'[q] = tool[q]
        /\ tool'[p] = "own" => tool[p] = "own" /\ held'[p] = lines
    BY <1>4, <2>1 DEF ReadEOF, PipesTypeOK
  <2>3. tool[p] = "own" => lines = <<Junk>>
    BY DEF AtEOF
  <2>4. UNCHANGED program /\ (UNCHANGED ip \/ MakesCall(p))
    BY <1>4, ProceedIs DEF ReadEOF, Reads
  <2> QED BY <2>2, <2>3, <2>4, LoadedAfter
<1>5. CASE WriteLine(p)
  <2>1. /\ \A q \in Processes \ {p} : held'[q] = held[q] /\ tool'[q] = tool[q]
        /\ tool'[p] = tool[p]
    BY <1>5 DEF WriteLine, PipesTypeOK
  <2>2. UNCHANGED program /\ (UNCHANGED ip \/ MakesCall(p))
    BY <1>5, ProceedIs DEF WriteLine, Writes
  <2>3. tool[p] = "own" => MakesCall(p) /\ Call(p).op = "write"
    BY <1>5, CallsOnly DEF WriteLine, Writes, Proceed
  <2> QED BY <2>1, <2>2, <2>3, LoadedAfter
<1> QED BY <1>1, <1>2, <1>3, <1>4, <1>5 DEF Step

-----------------------------------------------------------------------------
(* The calls that change what is at a descriptor. *)
LEMMA FileCalls ==
  ASSUME PipesInd, NEW p \in Processes, NEW op \in {"pipe", "close", "dup2"}, At(p, op), Advance(p),
         UNCHANGED <<program, state, tool, held, pipes, tty, reaped, kills, disturbed>>,
         fds' \in [Processes -> [Descriptors -> Files]],
         \A q \in Processes \ {p} : fds'[q] = fds[q],
         FilesFollow(p)'
  PROVE  PipesInd'
<1>1. PipesTypeOK
  BY DEF PipesInd
<1>2. Running(p) /\ tool[p] = "own" /\ MakesCall(p) /\ Call(p).op = op
  BY <1>1, AtCall, CallsOnly
<1>3. PipesTypeOK'
  <2>1. ip' \in [Processes -> Nat] /\ \A q \in Processes : ip'[q] \in 1..Len(Code(q)') + 1
    BY <1>1, <1>2, AdvanceTyped
  <2> QED BY <1>1, <2>1 DEF PipesTypeOK, Lines
<1>4. Alone(p)
  BY <1>2, <1>3 DEF Alone, Running
<1>5. Born' /\ ToolFits' /\ Waited'
  <2>1. FitsAfter(p)
    BY <1>2 DEF FitsAfter, Running
  <2>2. ToolFits'
    BY <1>1, <1>4, <2>1, ToolsKept DEF PipesInd
  <2> QED BY <1>1, <1>2, <1>4, <2>2, BornKept, WaitedKept DEF PipesInd
<1>6. FilesFit'
  <2> SUFFICES ASSUME NEW q \in Processes, Running(q)', q # p
               PROVE  FilesFollow(q)'
    BY DEF FilesFit
  <2>1. Running(q) /\ fds'[q] = fds[q]
    BY DEF Running
  <2>2. FilesFollow(q)
    BY <2>1 DEF PipesInd, FilesFit
  <2>3. \A c : Called(q, c)' <=> Called(q, c)
    BY <1>1, CalledGrows
  <2>4. \A k \in Pipe : Made(q, k)' <=> Made(q, k)
    BY <1>1, MadeGrows
  <2> QED BY <2>1, <2>2, <2>3, <2>4 DEF FilesFollow
<1> QED BY <1>3, <1>5, <1>6 DEF PipesInd

LEMMA CallsDiffer ==
  \A k, j \in Pipe :
    /\ close(READ(k)) = close(READ(j)) => k = j
    /\ close(WRITE(k)) = close(WRITE(j)) => k = j
    /\ dup2(READ(k), 0) = dup2(READ(j), 0) => k = j
    /\ dup2(WRITE(k), 1) = dup2(WRITE(j), 1) => k = j
    /\ pipe(k) = pipe(j) => k = j
    /\ close(READ(k)) # close(WRITE(j)) /\ dup2(READ(k), 0) # dup2(WRITE(j), 1)
    /\ pipe(k).op = "pipe" /\ close(READ(k)).op = "close" /\ close(WRITE(k)).op = "close"
    /\ dup2(READ(k), 0).op = "dup2" /\ dup2(WRITE(k), 1).op = "dup2"
BY SMT DEF pipe, close, dup2, READ, WRITE, Pipe

(* At a call that changes descriptors: what its script takes care of, in terms of *)
(* the calls made.                                                                *)
LEMMA FileCall ==
  ASSUME PipesInd, NEW p \in Processes, NEW op, At(p, op), Advance(p), UNCHANGED program
  PROVE  /\ Running(p) /\ Call(p).op = op /\ FilesFollow(p)
         /\ Good(p, Code(p), Code("P1")) /\ ip[p] \in 1..Len(Code(p)) /\ Call(p) = Code(p)[ip[p]]
         /\ fds \in [Processes -> [Descriptors -> Files]]
         /\ \A c : Called(p, c)' <=> Called(p, c) \/ Call(p) = c
         /\ \A k \in Pipe : Made(p, k)' <=> Made(p, k) \/ (p = "P1" /\ Call(p) = pipe(k))
         /\ \A c : Before(Code(p), ip[p], c) <=> Called(p, c)
         /\ \A k \in Pipe : MadeBefore(p, Code(p), Code("P1"), ip[p], k) <=> Made(p, k)
<1>1. PipesTypeOK
  BY DEF PipesInd
<1>2. /\ Running(p) /\ Call(p).op = op /\ Good(p, Code(p), Code("P1")) /\ ip[p] \in 1..Len(Code(p))
  BY <1>1, AtCall
<1>3. FilesFollow(p)
  BY <1>2 DEF PipesInd, FilesFit
<1>4. \A c : Called(p, c)' <=> Called(p, c) \/ Call(p) = c
  BY <1>1, CalledGrows
<1>5. \A k \in Pipe : Made(p, k)' <=> Made(p, k) \/ (p = "P1" /\ Call(p) = pipe(k))
  BY <1>1, MadeGrows
<1>6. \A c : Before(Code(p), ip[p], c) <=> Called(p, c)
  BY CalledBefore
<1>7. \A k \in Pipe : MadeBefore(p, Code(p), Code("P1"), ip[p], k) <=> Made(p, k)
  BY <1>6 DEF MadeBefore, Made
<1> QED BY <1>1, <1>2, <1>3, <1>4, <1>5, <1>6, <1>7 DEF PipesTypeOK, Call

LEMMA MakePipes ==
  ASSUME PipesInd, NEW p \in Processes, MakePipe(p)
  PROVE  PipesInd'
<1>1. At(p, "pipe") /\ Advance(p) /\ UNCHANGED <<program, state, tool, held, pipes, tty, reaped, kills, disturbed>>
  BY DEF MakePipe
<1>2. PICK k \in Pipe : p = "P1" /\ Call(p) = pipe(k) /\ ~Called(p, close(WRITE(k)))
  BY <1>1, FileCall DEF Good, GoodPipe
<1>3. Call(p).pipe = k
  BY <1>2 DEF pipe
<1>4. fds' = [fds EXCEPT ![p][READ(k)] = ReadEnd(k), ![p][WRITE(k)] = WriteEnd(k)]
  BY <1>3 DEF MakePipe
<1>5. /\ fds \in [Processes -> [Descriptors -> Files]]
      /\ READ(k) \in Descriptors /\ WRITE(k) \in Descriptors /\ ReadEnd(k) \in Files /\ WriteEnd(k) \in Files
  BY FilesDiffer DEF PipesInd, PipesTypeOK, Files
<1>6. /\ fds' \in [Processes -> [Descriptors -> Files]]
      /\ \A q \in Processes \ {p} : fds'[q] = fds[q]
      /\ \A e \in Descriptors : fds'[p][e] = IF e = WRITE(k) THEN WriteEnd(k)
                                             ELSE IF e = READ(k) THEN ReadEnd(k) ELSE fds[p][e]
  BY <1>4, <1>5
<1>7. FilesFollow(p)'
  <2> SUFFICES ASSUME NEW CONSTANT j \in Pipe
               PROVE  /\ fds'[p][READ(j)] \in {ReadEnd(j), Closed} /\ fds'[p][WRITE(j)] \in {WriteEnd(j), Closed}
                      /\ Made(p, j)' /\ ~Called(p, close(READ(j)))' => fds'[p][READ(j)] = ReadEnd(j)
                      /\ Made(p, j)' /\ ~Called(p, close(WRITE(j)))' => fds'[p][WRITE(j)] = WriteEnd(j)
                      /\ Called(p, close(WRITE(j)))' => fds'[p][WRITE(j)] = Closed
                      /\ Called(p, dup2(READ(j), 0))' => fds'[p][0] = ReadEnd(j)
                      /\ Called(p, dup2(WRITE(j), 1))' <=> fds'[p][1] = WriteEnd(j)
                      /\ fds'[p][1] \in {Tty} \cup {WriteEnd(i) : i \in Pipe}
                      /\ fds'[p][0] # WriteEnd(j)
    BY DEF FilesFollow
  <2>1. /\ Made(p, j)' <=> Made(p, j) \/ j = k
        /\ Called(p, close(READ(j)))' <=> Called(p, close(READ(j)))
        /\ Called(p, close(WRITE(j)))' <=> Called(p, close(WRITE(j)))
        /\ Called(p, dup2(READ(j), 0))' <=> Called(p, dup2(READ(j), 0))
        /\ Called(p, dup2(WRITE(j), 1))' <=> Called(p, dup2(WRITE(j), 1))
    BY <1>1, <1>2, FileCall, CallsDiffer
  <2>2. /\ fds'[p][READ(j)] = (IF j = k THEN ReadEnd(k) ELSE fds[p][READ(j)])
        /\ fds'[p][WRITE(j)] = (IF j = k THEN WriteEnd(k) ELSE fds[p][WRITE(j)])
        /\ fds'[p][0] = fds[p][0] /\ fds'[p][1] = fds[p][1]
    BY <1>6, FilesDiffer
  <2>3. FilesFollow(p)
    BY <1>1, FileCall
  <2> QED BY <1>2, <2>1, <2>2, <2>3 DEF FilesFollow
<1> QED BY <1>1, <1>6, <1>7, FileCalls

LEMMA Closes ==
  ASSUME PipesInd, NEW p \in Processes, Close(p)
  PROVE  PipesInd'
<1>1. At(p, "close") /\ Advance(p) /\ UNCHANGED <<program, state, tool, held, pipes, tty, reaped, kills, disturbed>>
  BY DEF Close
<1>2. PICK k \in Pipe : Call(p) = close(READ(k)) \/ Call(p) = close(WRITE(k))
  BY <1>1, FileCall DEF Good, GoodClose
<1>3. PICK d : Call(p) = close(d) /\ d \in {READ(k), WRITE(k)}
  BY <1>2
<1>4. Call(p).fd = d
  BY <1>3 DEF close
<1>5. fds' = [fds EXCEPT ![p][d] = Closed]
  BY <1>4 DEF Close
<1>6. fds \in [Processes -> [Descriptors -> Files]] /\ d \in Descriptors /\ Closed \in Files
  BY <1>3, FilesDiffer DEF PipesInd, PipesTypeOK, Files
<1>7. /\ fds' \in [Processes -> [Descriptors -> Files]]
      /\ \A q \in Processes \ {p} : fds'[q] = fds[q]
      /\ \A e \in Descriptors : fds'[p][e] = IF e = d THEN Closed ELSE fds[p][e]
  BY <1>5, <1>6
<1>8. FilesFollow(p)'
  <2> SUFFICES ASSUME NEW CONSTANT j \in Pipe
               PROVE  /\ fds'[p][READ(j)] \in {ReadEnd(j), Closed} /\ fds'[p][WRITE(j)] \in {WriteEnd(j), Closed}
                      /\ Made(p, j)' /\ ~Called(p, close(READ(j)))' => fds'[p][READ(j)] = ReadEnd(j)
                      /\ Made(p, j)' /\ ~Called(p, close(WRITE(j)))' => fds'[p][WRITE(j)] = WriteEnd(j)
                      /\ Called(p, close(WRITE(j)))' => fds'[p][WRITE(j)] = Closed
                      /\ Called(p, dup2(READ(j), 0))' => fds'[p][0] = ReadEnd(j)
                      /\ Called(p, dup2(WRITE(j), 1))' <=> fds'[p][1] = WriteEnd(j)
                      /\ fds'[p][1] \in {Tty} \cup {WriteEnd(i) : i \in Pipe}
                      /\ fds'[p][0] # WriteEnd(j)
    BY DEF FilesFollow
  <2>1. /\ Made(p, j)' <=> Made(p, j)
        /\ Called(p, close(READ(j)))' <=> Called(p, close(READ(j))) \/ d = READ(j)
        /\ Called(p, close(WRITE(j)))' <=> Called(p, close(WRITE(j))) \/ d = WRITE(j)
        /\ Called(p, dup2(READ(j), 0))' <=> Called(p, dup2(READ(j), 0))
        /\ Called(p, dup2(WRITE(j), 1))' <=> Called(p, dup2(WRITE(j), 1))
    <3>1. Call(p) = close(READ(j)) <=> d = READ(j)
      BY <1>3, <1>4 DEF close
    <3>2. Call(p) = close(WRITE(j)) <=> d = WRITE(j)
      BY <1>3, <1>4 DEF close
    <3>3. Call(p) # pipe(j) /\ Call(p) # dup2(READ(j), 0) /\ Call(p) # dup2(WRITE(j), 1)
      BY <1>2, CallsDiffer
    <3> QED BY <1>1, <3>1, <3>2, <3>3, FileCall
  <2>2. /\ fds'[p][READ(j)] = (IF d = READ(j) THEN Closed ELSE fds[p][READ(j)])
        /\ fds'[p][WRITE(j)] = (IF d = WRITE(j) THEN Closed ELSE fds[p][WRITE(j)])
        /\ fds'[p][0] = fds[p][0] /\ fds'[p][1] = fds[p][1]
    BY <1>3, <1>7, FilesDiffer
  <2>3. FilesFollow(p)
    BY <1>1, FileCall
  <2> QED BY <2>1, <2>2, <2>3 DEF FilesFollow
<1> QED BY <1>1, <1>7, <1>8, FileCalls

LEMMA Dup2s ==
  ASSUME PipesInd, NEW p \in Processes, Dup2(p)
  PROVE  PipesInd'
<1>1. At(p, "dup2") /\ Advance(p) /\ UNCHANGED <<program, state, tool, held, pipes, tty, reaped, kills, disturbed>>
  BY DEF Dup2
<1>2. PICK k \in Pipe : \/ /\ Call(p) = dup2(WRITE(k), 1)
                           /\ Made(p, k) /\ ~Called(p, close(WRITE(k)))
                           /\ \A j \in Pipe : ~Called(p, dup2(WRITE(j), 1))
                        \/ /\ Call(p) = dup2(READ(k), 0)
                           /\ Made(p, k) /\ ~Called(p, close(READ(k)))
                           /\ \A j \in Pipe : ~Called(p, dup2(READ(j), 0))
  BY <1>1, FileCall DEF Good, GoodDup
<1>3. FilesFollow(p) /\ fds \in [Processes -> [Descriptors -> Files]]
  BY <1>1, FileCall
<1>4. CASE /\ Call(p) = dup2(WRITE(k), 1)
           /\ Made(p, k) /\ ~Called(p, close(WRITE(k)))
           /\ \A j \in Pipe : ~Called(p, dup2(WRITE(j), 1))
  <2>1. Call(p).from = WRITE(k) /\ Call(p).to = 1
    BY <1>4 DEF dup2
  <2>2. fds[p][WRITE(k)] = WriteEnd(k) /\ WriteEnd(k) # Closed
    BY <1>3, <1>4, FilesDiffer DEF FilesFollow
  <2>3. fds' = [fds EXCEPT ![p][1] = WriteEnd(k)]
    BY <2>1, <2>2 DEF Dup2
  <2>4. /\ fds' \in [Processes -> [Descriptors -> Files]]
        /\ \A q \in Processes \ {p} : fds'[q] = fds[q]
        /\ \A e \in Descriptors : fds'[p][e] = IF e = 1 THEN WriteEnd(k) ELSE fds[p][e]
    BY <1>3, <2>3, FilesDiffer DEF Files
  <2>5. FilesFollow(p)'
    <3> SUFFICES ASSUME NEW CONSTANT j \in Pipe
                 PROVE  /\ fds'[p][READ(j)] \in {ReadEnd(j), Closed}
                        /\ fds'[p][WRITE(j)] \in {WriteEnd(j), Closed}
                        /\ Made(p, j)' /\ ~Called(p, close(READ(j)))' => fds'[p][READ(j)] = ReadEnd(j)
                        /\ Made(p, j)' /\ ~Called(p, close(WRITE(j)))' => fds'[p][WRITE(j)] = WriteEnd(j)
                        /\ Called(p, close(WRITE(j)))' => fds'[p][WRITE(j)] = Closed
                        /\ Called(p, dup2(READ(j), 0))' => fds'[p][0] = ReadEnd(j)
                        /\ Called(p, dup2(WRITE(j), 1))' <=> fds'[p][1] = WriteEnd(j)
                        /\ fds'[p][1] \in {Tty} \cup {WriteEnd(i) : i \in Pipe}
                        /\ fds'[p][0] # WriteEnd(j)
      BY DEF FilesFollow
    <3>1. /\ Made(p, j)' <=> Made(p, j)
          /\ Called(p, close(READ(j)))' <=> Called(p, close(READ(j)))
          /\ Called(p, close(WRITE(j)))' <=> Called(p, close(WRITE(j)))
          /\ Called(p, dup2(READ(j), 0))' <=> Called(p, dup2(READ(j), 0))
          /\ Called(p, dup2(WRITE(j), 1))' <=> j = k
      BY <1>1, <1>4, FileCall, CallsDiffer
    <3>2. /\ fds'[p][READ(j)] = fds[p][READ(j)] /\ fds'[p][WRITE(j)] = fds[p][WRITE(j)]
          /\ fds'[p][0] = fds[p][0] /\ fds'[p][1] = WriteEnd(k)
          /\ WriteEnd(k) = WriteEnd(j) <=> j = k
      BY <2>4, FilesDiffer
    <3> QED BY <1>3, <3>1, <3>2 DEF FilesFollow
  <2> QED BY <1>1, <2>4, <2>5, FileCalls
<1>5. CASE /\ Call(p) = dup2(READ(k), 0)
           /\ Made(p, k) /\ ~Called(p, close(READ(k)))
           /\ \A j \in Pipe : ~Called(p, dup2(READ(j), 0))
  <2>1. Call(p).from = READ(k) /\ Call(p).to = 0
    BY <1>5 DEF dup2
  <2>2. fds[p][READ(k)] = ReadEnd(k) /\ ReadEnd(k) # Closed
    BY <1>3, <1>5, FilesDiffer DEF FilesFollow
  <2>3. fds' = [fds EXCEPT ![p][0] = ReadEnd(k)]
    BY <2>1, <2>2 DEF Dup2
  <2>4. /\ fds' \in [Processes -> [Descriptors -> Files]]
        /\ \A q \in Processes \ {p} : fds'[q] = fds[q]
        /\ \A e \in Descriptors : fds'[p][e] = IF e = 0 THEN ReadEnd(k) ELSE fds[p][e]
    BY <1>3, <2>3, FilesDiffer DEF Files
  <2>5. FilesFollow(p)'
    <3> SUFFICES ASSUME NEW CONSTANT j \in Pipe
                 PROVE  /\ fds'[p][READ(j)] \in {ReadEnd(j), Closed}
                        /\ fds'[p][WRITE(j)] \in {WriteEnd(j), Closed}
                        /\ Made(p, j)' /\ ~Called(p, close(READ(j)))' => fds'[p][READ(j)] = ReadEnd(j)
                        /\ Made(p, j)' /\ ~Called(p, close(WRITE(j)))' => fds'[p][WRITE(j)] = WriteEnd(j)
                        /\ Called(p, close(WRITE(j)))' => fds'[p][WRITE(j)] = Closed
                        /\ Called(p, dup2(READ(j), 0))' => fds'[p][0] = ReadEnd(j)
                        /\ Called(p, dup2(WRITE(j), 1))' <=> fds'[p][1] = WriteEnd(j)
                        /\ fds'[p][1] \in {Tty} \cup {WriteEnd(i) : i \in Pipe}
                        /\ fds'[p][0] # WriteEnd(j)
      BY DEF FilesFollow
    <3>1. /\ Made(p, j)' <=> Made(p, j)
          /\ Called(p, close(READ(j)))' <=> Called(p, close(READ(j)))
          /\ Called(p, close(WRITE(j)))' <=> Called(p, close(WRITE(j)))
          /\ Called(p, dup2(READ(j), 0))' <=> j = k
          /\ Called(p, dup2(WRITE(j), 1))' <=> Called(p, dup2(WRITE(j), 1))
      BY <1>1, <1>5, FileCall, CallsDiffer
    <3>2. /\ fds'[p][READ(j)] = fds[p][READ(j)] /\ fds'[p][WRITE(j)] = fds[p][WRITE(j)]
          /\ fds'[p][1] = fds[p][1] /\ fds'[p][0] = ReadEnd(k) /\ ReadEnd(k) # WriteEnd(j)
      BY <2>4, FilesDiffer
    <3> QED BY <1>3, <3>1, <3>2 DEF FilesFollow
  <2> QED BY <1>1, <2>4, <2>5, FileCalls
<1> QED BY <1>2, <1>4, <1>5

-----------------------------------------------------------------------------
(* A fork: its child is not born yet, and gets the descriptors that its parent has. *)
LEMMA ChildUnborn ==
  ASSUME PipesInd, NEW p \in Processes, ForkChild(p)
  PROVE  Call(p).child \in {"P2", "P3"} /\ state[Call(p).child] = "unborn" /\ Call(p).child # p
<1>1. PipesTypeOK
  BY DEF PipesInd
<1>2. /\ Running(p) /\ ip[p] \in 1..Len(Code(p)) /\ Call(p).op = "fork"
      /\ Good(p, Code(p), Code("P1")) /\ program \in Programs
  BY <1>1, AtCall DEF ForkChild
<1>3. Call(p) = Code(p)[ip[p]] /\ GoodFork(p, Code(p), Code("P1"), ip[p])
  BY <1>2 DEF Good, Call
<1>4. PICK c \in {"P2", "P3"} : c = Call(p).child
  BY <1>3 DEF GoodFork
<1>5. c \in Processes /\ c # "P1"
  BY <1>4 DEF Processes
<1>6. state[c] = "unborn" /\ c # p
  <2>1. ASSUME state[c] # "unborn" PROVE FALSE
    <3>1. PICK q \in Processes : \E n \in 1..ip[q] - 1 : Code(q)[n].op = "fork" /\ Code(q)[n].child = c
      BY <1>4, <1>5, <2>1 DEF PipesInd, Born, Forked
    <3>2. PICK n \in 1..ip[q] - 1 : Code(q)[n].op = "fork" /\ Code(q)[n].child = c
      BY <3>1
    <3>3. n \in 1..Len(Code(q)) /\ n # ip[q] /\ ip[p] \in 1..Len(Code(p))
      BY <1>1, <1>2, <3>2, LengthsAre DEF PipesTypeOK
    <3>4. q = p /\ n = ip[p]
      BY <1>2, <1>3, <1>4, <3>2, <3>3, OneFather
    <3> QED BY <3>3, <3>4
  <2> QED BY <1>2, <2>1 DEF Running
<1> QED BY <1>4, <1>6

LEMMA Forking ==
  ASSUME PipesInd, NEW p \in Processes, ForkChild(p)
  PROVE  PipesInd'
<1>1. PipesTypeOK
  BY DEF PipesInd
<1>2. /\ Running(p) /\ tool[p] = "own" /\ ip[p] \in 1..Len(Code(p)) /\ Call(p).op = "fork"
      /\ Good(p, Code(p), Code("P1")) /\ program \in Programs /\ MakesCall(p)
  BY <1>1, AtCall, CallsOnly DEF ForkChild
<1>3. Call(p) = Code(p)[ip[p]] /\ GoodFork(p, Code(p), Code("P1"), ip[p])
  BY <1>2 DEF Good, Call
<1>4. PICK c \in {"P2", "P3"} : c = Call(p).child
  BY <1>3 DEF GoodFork
<1>5. c \in Processes /\ c # "P1"
  BY <1>4 DEF Processes
<1>6. /\ state' = [state EXCEPT ![c] = "running"] /\ fds' = [fds EXCEPT ![c] = fds[p]]
      /\ UNCHANGED <<program, tool, held, pipes, tty, reaped, kills, disturbed>> /\ Advance(p)
  BY <1>4 DEF ForkChild
<1>7. state[c] = "unborn" /\ c # p
  BY <1>4, ChildUnborn
<1>8. /\ ip'[p] = ip[p] + 1 /\ \A q \in Processes \ {p} : ip'[q] = ip[q]
      /\ ip' \in [Processes -> Nat] /\ \A q \in Processes : ip'[q] \in 1..Len(Code(q)') + 1
  BY <1>1, <1>2, <1>6, AdvanceIs, IpGrows, AdvanceTyped
<1>9. /\ state' \in [Processes -> {"unborn", "running", "done", "failed", "killed"}]
      /\ state'[c] = "running" /\ \A q \in Processes \ {c} : state'[q] = state[q]
      /\ fds' \in [Processes -> [Descriptors -> Files]]
      /\ fds'[c] = fds[p] /\ \A q \in Processes \ {c} : fds'[q] = fds[q]
  BY <1>1, <1>4, <1>5, <1>6 DEF PipesTypeOK
<1>10. PipesTypeOK'
  BY <1>1, <1>6, <1>8, <1>9 DEF PipesTypeOK, Lines
<1>11. Born'
  <2>1. state'["P1"] # "unborn"
    BY <1>4, <1>5, <1>9 DEF PipesInd, Born, Processes
  <2>2. ASSUME NEW q \in Processes, state'[q] = "unborn"
        PROVE  ip'[q] = 1 /\ tool'[q] = "own"
    <3>1. q # c /\ state[q] = "unborn"
      BY <1>9, <2>2
    <3>2. q # p /\ ip[q] = 1 /\ tool[q] = "own"
      BY <1>2, <3>1 DEF PipesInd, Born, Running
    <3> QED BY <1>6, <1>8, <3>2
  <2>3. ASSUME NEW q \in Processes \ {"P1"}, state'[q] # "unborn"
        PROVE  Forked(q)'
    <3>1. PICK f \in Processes : \E n \in 1..ip'[f] - 1 : Code(f)[n].op = "fork" /\ Code(f)[n].child = q
      <4>1. CASE q = c
        <5>1. ip[p] \in 1..ip'[p] - 1
          BY <1>1, <1>8 DEF PipesTypeOK
        <5> QED BY <1>2, <1>3, <1>4, <4>1, <5>1
      <4>2. CASE q # c
        <5>1. PICK f \in Processes : \E n \in 1..ip[f] - 1 : Code(f)[n].op = "fork" /\ Code(f)[n].child = q
          BY <1>9, <2>3, <4>2 DEF PipesInd, Born, Forked
        <5>2. ip[f] \in Nat /\ ip'[f] \in Nat /\ ip'[f] >= ip[f]
          BY <1>1, <1>2, <1>8, IpGrows
        <5>3. 1..ip[f] - 1 \subseteq 1..ip'[f] - 1
          BY <5>2
        <5> QED BY <5>1, <5>3
      <4> QED BY <4>1, <4>2
    <3>2. Code(f)' = Code(f)
      BY <1>6, CodeKept
    <3>3. \E n \in 1..ip'[f] - 1 : Code(f)'[n].op = "fork" /\ Code(f)'[n].child = q
      BY <3>1, <3>2
    <3> QED BY <3>3 DEF Forked
  <2> QED BY <2>1, <2>2, <2>3 DEF Born
<1>12. ToolFits'
  <2> SUFFICES ASSUME NEW q \in Processes
               PROVE  IF tool'[q] = "own" THEN state'[q] = "done" => ip'[q] = Len(Code(q)') + 1
                      ELSE /\ state'[q] = "done" => tool'[q] # "sort" /\ held'[q] = <<>>
                           /\ ip'[q] <= Len(Code(q)')
                           /\ Code(q)'[ip'[q]] = exec(IF tool'[q] = "sorted" THEN "sort" ELSE tool'[q])
    BY DEF ToolFits, Call
  <2>1. Code(q)' = Code(q) /\ tool' = tool /\ held' = held
    BY <1>6, CodeKept
  <2>2. CASE q = p
    BY <1>2, <1>7, <1>9, <2>1, <2>2 DEF Running
  <2>3. CASE q = c
    <3>1. tool[q] = "own"
      BY <1>4, <1>5, <1>7, <2>3 DEF PipesInd, Born
    <3> QED BY <1>9, <2>1, <2>3, <3>1
  <2>4. CASE q # p /\ q # c
    BY <1>8, <1>9, <2>1, <2>4 DEF PipesInd, ToolFits, Call
  <2> QED BY <2>2, <2>3, <2>4
<1>13. FilesFit'
  <2> SUFFICES ASSUME NEW q \in Processes, Running(q)'
               PROVE  FilesFollow(q)'
    BY DEF FilesFit
  <2>1. \A k \in Pipe : Call(p) # pipe(k) /\ Call(p) # close(READ(k)) /\ Call(p) # close(WRITE(k))
                        /\ Call(p) # dup2(READ(k), 0) /\ Call(p) # dup2(WRITE(k), 1)
    BY <1>2, CallsDiffer
  <2>2. CASE q # c
    <3>1. FilesFollow(q) /\ fds'[q] = fds[q]
      BY <1>9, <2>2 DEF PipesInd, FilesFit, Running
    <3>2. \A k \in Pipe : Made(q, k)' <=> Made(q, k)
      BY <1>1, <1>6, <2>1, MadeGrows
    <3>3. \A call : Call(p) # call => (Called(q, call)' <=> Called(q, call))
      BY <1>1, <1>6, CalledGrows
    <3> QED BY <2>1, <3>1, <3>2, <3>3 DEF FilesFollow
  <2>3. CASE q = c
    <3>1. \A call : ~Called(c, call)'
      <4>1. ip'[c] = 1
        BY <1>4, <1>5, <1>7, <1>8 DEF PipesInd, Born
      <4> QED BY <4>1 DEF Called
    <3>2. FilesFollow(p)
      BY <1>2 DEF PipesInd, FilesFit
    <3>3. \A k \in Pipe : /\ ~Called(p, close(READ(k))) /\ ~Called(p, close(WRITE(k)))
                          /\ ~Called(p, dup2(WRITE(k), 1))
                          /\ Made(c, k)' => Made(p, k)
      <4>1. \A k \in Pipe : Made(c, k)' <=> \E m \in 1..Len(Code("P1")) : Code("P1")[m] = pipe(k)
        BY <1>4, <1>5, <1>6, CodeKept DEF Made
      <4>2. \A k \in Pipe : MadeBefore(p, Code(p), Code("P1"), ip[p], k) => Made(p, k)
        BY CalledBefore DEF MadeBefore, Made
      <4> QED BY <1>3, <4>1, <4>2, CalledBefore DEF GoodFork
    <3> QED BY <1>9, <2>3, <3>1, <3>2, <3>3 DEF FilesFollow
  <2> QED BY <2>2, <2>3
<1>14. Waited'
  <2>1. ASSUME NEW q \in reaped'
        PROVE  q # "P1" /\ Ended(q)'
    BY <1>1, <1>6, <1>7, <1>9, <2>1 DEF PipesInd, Waited, Ended, PipesTypeOK
  <2>2. Waits' = Waits
    BY <1>1, <1>2, <1>6, WaitsAre DEF wait
  <2> QED BY <1>6, <2>1, <2>2 DEF PipesInd, Waited, Waits
<1> QED BY <1>10, <1>11, <1>12, <1>13, <1>14 DEF PipesInd

LEMMA Pairs ==
  ASSUME NEW x, NEW y, x # y
  PROVE  IsFiniteSet({x, y}) /\ Cardinality({x, y}) = 2
<1>1. IsFiniteSet({x}) /\ Cardinality({x}) = 1
  BY FS_Singleton
<1>2. y \notin {x}
  OBVIOUS
<1>3. IsFiniteSet({x} \cup {y})
  BY <1>1, FS_AddElement
<1>4. Cardinality({x} \cup {y}) = Cardinality({x}) + 1
  BY <1>1, <1>2, FS_AddElement, Zenon
<1>5. {x} \cup {y} = {x, y}
  OBVIOUS
<1> QED BY <1>1, <1>3, <1>4, <1>5

LEMMA FiniteProcesses == IsFiniteSet(Processes)
<1>1. IsFiniteSet({"P1", "P2"} \cup {"P3"})
  BY Pairs, FS_AddElement
<1>2. Processes = {"P1", "P2"} \cup {"P3"}
  BY DEF Processes
<1> QED BY <1>1, <1>2

(* A wait: one more child and one more call. *)
LEMMA Waiting ==
  ASSUME PipesInd, NEW p \in Processes, Wait(p)
  PROVE  PipesInd'
<1>1. PipesTypeOK
  BY DEF PipesInd
<1>2. /\ Running(p) /\ tool[p] = "own" /\ Call(p).op = "wait" /\ ip[p] \in 1..Len(Code(p))
      /\ Good(p, Code(p), Code("P1")) /\ MakesCall(p)
  BY <1>1, AtCall, CallsOnly DEF Wait
<1>3. p = "P1" /\ Call(p) = wait
  BY <1>2 DEF Good, Call
<1>4. PICK q \in Processes \ ({p} \cup reaped) : Ended(q) /\ reaped' = reaped \cup {q}
  BY DEF Wait
<1>5. UNCHANGED <<program, state, tool, fds, held, pipes, tty, kills, disturbed>>
  BY DEF Wait
<1>6. PipesTypeOK'
  <2>1. ip' \in [Processes -> Nat] /\ \A r \in Processes : ip'[r] \in 1..Len(Code(r)') + 1
    BY <1>1, <1>2, <1>5, AdvanceTyped
  <2>2. reaped' \subseteq Processes
    BY <1>1, <1>4 DEF PipesTypeOK
  <2> QED BY <1>1, <1>5, <2>1, <2>2 DEF PipesTypeOK, Lines
<1>7. Alone(p)
  BY <1>2, <1>5, <1>6 DEF Alone, Running
<1>8. Born' /\ ToolFits' /\ FilesFit'
  <2>1. FitsAfter(p)
    BY <1>2, <1>5 DEF FitsAfter, Running
  <2>2. ToolFits'
    BY <1>1, <1>7, <2>1, ToolsKept DEF PipesInd
  <2>3. FilesFit'
    BY <1>1, <1>2, <1>5, <1>7, FilesKept DEF PipesInd
  <2> QED BY <1>1, <1>7, <2>2, <2>3, BornKept DEF PipesInd
<1>9. Waited'
  <2>1. \A r \in reaped' : r # "P1" /\ Ended(r)'
    BY <1>3, <1>4, <1>5 DEF PipesInd, Waited, Ended
  <2>2. Waits' = Waits \cup {ip["P1"]}
    BY <1>1, <1>2, <1>3, <1>5, WaitsAre
  <2>3. Cardinality(Waits') = Cardinality(Waits) + 1
    BY <1>1, <2>2, WaitsFinite, FS_AddElement
  <2>4. IsFiniteSet(reaped)
    <3>1. reaped \subseteq Processes
      BY <1>1 DEF PipesTypeOK
    <3> QED BY <3>1, FiniteProcesses, FS_Subset
  <2>5. Cardinality(reaped') = Cardinality(reaped) + 1
    BY <1>4, <2>4, FS_AddElement
  <2>6. Cardinality(reaped) = Cardinality(Waits)
    BY DEF PipesInd, Waited, Waits
  <2> QED BY <2>1, <2>3, <2>5, <2>6 DEF Waited, Waits
<1> QED BY <1>6, <1>8, <1>9 DEF PipesInd

-----------------------------------------------------------------------------
(* What follows from what the proofs carry: a process that reads can see the end  *)
(* of its input.                                                                  *)
LEMMA NoOtherDescriptor ==
  \A d \in Descriptors : d \in {0, 1} \/ \E k \in Pipe : d \in {READ(k), WRITE(k)}
BY SMT DEF Descriptors, Pipe, READ, WRITE

LEMMA OwnEndIsGone ==
  ASSUME PipesInd, NEW p \in Processes, Running(p), NEW k \in Pipe,
         OwnEndGone(Code(p), ip[p], k)
  PROVE  p \notin Writers(k)
<1>1. FilesFollow(p)
  BY DEF PipesInd, FilesFit
<1>2. Called(p, close(WRITE(k))) /\ ~Called(p, dup2(WRITE(k), 1))
  BY CalledBefore DEF OwnEndGone
<1>3. fds[p][WRITE(k)] = Closed /\ fds[p][0] # WriteEnd(k) /\ fds[p][1] # WriteEnd(k)
  BY <1>1, <1>2 DEF FilesFollow
<1>4. ASSUME NEW j \in Pipe
      PROVE  fds[p][READ(j)] # WriteEnd(k) /\ fds[p][WRITE(j)] # WriteEnd(k)
  <2>1. fds[p][READ(j)] \in {ReadEnd(j), Closed} /\ fds[p][WRITE(j)] \in {WriteEnd(j), Closed}
    BY <1>1 DEF FilesFollow
  <2> QED BY <1>3, <2>1, FilesDiffer
<1> QED BY <1>3, <1>4, NoOtherDescriptor DEF Writers, Holds

LEMMA InputEnds ==
  ASSUME PipesInd
  PROVE  InputsEnd
<1> SUFFICES ASSUME NEW p \in Processes, Reads(p)
             PROVE  \E k \in Pipe : Input(p) = ReadEnd(k) /\ p \notin Writers(k)
  BY DEF InputsEnd
<1>1. PipesTypeOK /\ Running(p)
  BY DEF PipesInd, Reads, At
<1>2. FilesFollow(p)
  BY <1>1 DEF PipesInd, FilesFit
<1>3. Good(p, Code(p), Code("P1"))
  BY <1>1, CodeIsGood DEF PipesTypeOK
<1>4. CASE At(p, "read")
  <2>1. tool[p] = "own" /\ ip[p] \in 1..Len(Code(p)) /\ Code(p)[ip[p]].op = "read"
    BY <1>1, <1>4, AtCall DEF Call
  <2>2. PICK k \in Pipe : /\ Call(p) = read(READ(k))
                          /\ MadeBefore(p, Code(p), Code("P1"), ip[p], k)
                          /\ ~Before(Code(p), ip[p], close(READ(k))) /\ OwnEndGone(Code(p), ip[p], k)
    BY <1>3, <2>1 DEF Good, GoodRead, Call
  <2>3. Made(p, k) /\ ~Called(p, close(READ(k)))
    BY <2>2, CalledBefore DEF Made, MadeBefore
  <2>4. Input(p) = ReadEnd(k)
    BY <1>2, <2>1, <2>2, <2>3 DEF Input, FilesFollow, read
  <2> QED BY <1>1, <2>2, <2>4, OwnEndIsGone
<1>5. CASE tool[p] \in {"grep", "sort"}
  <2>1. ip[p] \in 1..Len(Code(p)) /\ Call(p) = exec(tool[p])
    <3>1. /\ ip[p] <= Len(Code(p)) /\ Call(p) = exec(IF tool[p] = "sorted" THEN "sort" ELSE tool[p])
          /\ tool[p] # "sorted"
      BY <1>5 DEF PipesInd, ToolFits
    <3>2. ip[p] \in 1..Len(Code(p)) + 1 /\ Len(Code(p)) \in Nat
      BY <1>1, LengthsAre DEF PipesTypeOK
    <3> QED BY <3>1, <3>2
  <2>2. Call(p).op = "exec"
    BY <2>1 DEF exec
  <2>3. GoodExec(Code(p), ip[p])
    BY <1>3, <2>1, <2>2 DEF Good, Call
  <2>4. PICK t \in {"cat", "grep", "sort"} :
          /\ Call(p) = exec(t)
          /\ t # "cat" => \E k \in Pipe : /\ Before(Code(p), ip[p], dup2(READ(k), 0))
                                         /\ OwnEndGone(Code(p), ip[p], k)
    BY <2>3 DEF GoodExec, Call
  <2>5. t = tool[p]
    BY <2>1, <2>4 DEF exec
  <2>6. PICK k \in Pipe : Before(Code(p), ip[p], dup2(READ(k), 0)) /\ OwnEndGone(Code(p), ip[p], k)
    BY <1>5, <2>4, <2>5
  <2>7. Input(p) = ReadEnd(k)
    BY <1>2, <1>5, <2>6, CalledBefore DEF Input, FilesFollow
  <2> QED BY <1>1, <2>6, <2>7, OwnEndIsGone
<1> QED BY <1>4, <1>5 DEF Reads

(* A parent that waits is the last to end. *)
LEMMA WaitsCounted ==
  /\ program = "pipes1" /\ ip["P1"] = Len(Code("P1")) + 1 => Waits = {7}
  /\ program = "main3" /\ ip["P1"] = Len(Code("P1")) + 1 => Waits = {3, 4}
<1>1. Len(Sender) = 9 /\ \A n \in 1..9 : Sender[n] = wait <=> n = 7
  BY SMT DEF Sender, pipe, close, write, fork, wait, READ, WRITE
<1>2. Len(Waiter) = 4 /\ \A n \in 1..4 : Waiter[n] = wait <=> n \in {3, 4}
  BY SMT DEF Waiter, fork, wait
<1>3. CASE program = "pipes1" /\ ip["P1"] = Len(Code("P1")) + 1
  <2>1. Code("P1") = Sender /\ ip["P1"] - 1 = 9
    BY <1>1, <1>3, CodeIs
  <2>2. Waits = {n \in 1..9 : Sender[n] = wait}
    BY <2>1 DEF Waits
  <2>3. Waits = {7}
    BY <1>1, <2>2
  <2> QED BY <1>3, <2>3
<1>4. CASE program = "main3" /\ ip["P1"] = Len(Code("P1")) + 1
  <2>1. Code("P1") = Waiter /\ ip["P1"] - 1 = 4
    BY <1>2, <1>4, CodeIs
  <2>2. Waits = {n \in 1..4 : Waiter[n] = wait}
    BY <2>1 DEF Waits
  <2>3. Waits = {3, 4}
    BY <1>2, <2>2
  <2> QED BY <1>4, <2>3
<1> QED BY <1>3, <1>4

LEMMA ParentDoesNotExec ==
  ASSUME program \in {"pipes1", "main3"}, NEW n \in 1..Len(Code("P1"))
  PROVE  Code("P1")[n].op # "exec"
<1>1. CASE program = "pipes1"
  BY <1>1, CodeIs, SMT DEF Sender, pipe, close, write, fork, wait, READ, WRITE
<1>2. CASE program = "main3"
  BY <1>2, CodeIs, SMT DEF Waiter, fork, wait
<1> QED BY <1>1, <1>2

LEMMA ParentIsLast ==
  ASSUME PipesInd
  PROVE  ParentLast
<1> SUFFICES ASSUME program \in {"pipes1", "main3"}, state["P1"] = "done",
                    NEW p \in Processes \ {"P1"}, Running(p)
             PROVE  FALSE
  BY DEF ParentLast
<1>1. PipesTypeOK /\ "P1" \in Processes
  BY DEF PipesInd, Processes
<1>2. ip["P1"] = Len(Code("P1")) + 1
  <2>1. CASE tool["P1"] # "own"
    <3>1. /\ ip["P1"] \in 1..Len(Code("P1"))
          /\ Call("P1") = exec(IF tool["P1"] = "sorted" THEN "sort" ELSE tool["P1"])
      BY <1>1, <2>1, LengthsAre DEF PipesInd, ToolFits, PipesTypeOK
    <3> QED BY <3>1, ParentDoesNotExec DEF Call, exec
  <2> QED BY <1>1, <2>1 DEF PipesInd, ToolFits
<1>3. p \notin reaped /\ reaped \subseteq {"P2", "P3"} /\ p \in {"P2", "P3"}
  BY <1>1 DEF PipesInd, Waited, Ended, Running, PipesTypeOK, Processes
<1>4. Cardinality(reaped) = Cardinality(Waits)
  BY DEF PipesInd, Waited, Waits
<1>5. CASE program = "pipes1"
  <2>1. Cardinality(Waits) = 1
    BY <1>2, <1>5, WaitsCounted, FS_Singleton
  <2>2. \A q \in {"P2", "P3"} : state[q] # "unborn" => q = "P2"
    <3> SUFFICES ASSUME NEW q \in {"P2", "P3"}, state[q] # "unborn"
                 PROVE  q = "P2"
      OBVIOUS
    <3>1. PICK f \in Processes : \E n \in 1..ip[f] - 1 : Code(f)[n].op = "fork" /\ Code(f)[n].child = q
      BY DEF PipesInd, Born, Forked, Processes
    <3>2. PICK n \in 1..ip[f] - 1 : Code(f)[n].op = "fork" /\ Code(f)[n].child = q
      BY <3>1
    <3>3. n \in 1..Len(Code(f))
      BY <1>1, LengthsAre DEF PipesTypeOK
    <3>4. Fathers("pipes1", f, Code(f))
      BY <1>1, <1>5, CodeIsGood DEF PipesTypeOK
    <3>5. <<f, n, q>> \in Forks["pipes1"]
      BY <3>2, <3>3, <3>4, SMTT(30) DEF Fathers
    <3> QED BY <3>5 DEF Forks
  <2>3. p = "P2" /\ "P2" \notin reaped /\ "P3" \notin reaped
    BY <1>3, <2>2 DEF PipesInd, Waited, Ended, Running
  <2>4. reaped = {}
    BY <1>3, <2>3
  <2> QED BY <1>4, <2>1, <2>4, FS_EmptySet
<1>6. CASE program = "main3"
  <2>1. Cardinality(Waits) = 2
    <3>1. Waits = {3, 4}
      BY <1>2, <1>6, WaitsCounted
    <3>2. \A x, y : x # y => Cardinality({x, y}) = 2
      BY Pairs
    <3>3. 3 # 4
      OBVIOUS
    <3>4. Cardinality({3, 4}) = 2
      BY <3>2, <3>3, Zenon
    <3> QED BY <3>1, <3>4
  <2>2. PICK q \in {"P2", "P3"} : reaped \subseteq {q}
    BY <1>3
  <2>3. Cardinality(reaped) <= 1
    <3>1. IsFiniteSet({q}) /\ Cardinality({q}) = 1
      BY FS_Singleton
    <3>2. Cardinality(reaped) <= Cardinality({q})
      BY <2>2, <3>1, FS_Subset
    <3> QED BY <3>1, <3>2
  <2> QED BY <1>4, <2>1, <2>3
<1> QED BY <1>5, <1>6

-----------------------------------------------------------------------------
LEMMA PipesStart ==
  ASSUME PipesInit
  PROVE  PipesInd /\ Loaded
<1>1. program \in Programs /\ \A p \in Processes : ip[p] = 1 /\ tool[p] = "own"
  BY DEF PipesInit
<1>2. PipesTypeOK
  <2>1. \A p \in Processes : 1 \in 1..Len(Code(p)) + 1
    BY <1>1, LengthsAre
  <2>2. <<Typed>> \in Seq(Lines) /\ <<>> \in Seq(Lines) /\ Len(<<>>) = 0
    BY LinesAre
  <2>3. held \in [Processes -> Seq(Lines)] /\ pipes \in [Pipe -> Seq(Lines)]
    BY <2>2 DEF PipesInit
  <2>4. \A k \in Pipe : Len(pipes[k]) <= Capacity
    BY <2>2, PipesAssumption DEF PipesInit
  <2>5. fds \in [Processes -> [Descriptors -> Files]]
    BY DEF PipesInit, Files
  <2>6. state \in [Processes -> {"unborn", "running", "done", "failed", "killed"}]
    BY DEF PipesInit
  <2>7. /\ tool \in [Processes -> {"own", "cat", "grep", "sort", "sorted"}] /\ ip \in [Processes -> Nat]
        /\ reaped \subseteq Processes /\ kills \in 0..MaxKills
    BY PipesAssumption DEF PipesInit
  <2>8. tty \in Seq(Lines) /\ disturbed \in BOOLEAN
    BY <2>2 DEF PipesInit
  <2> QED BY <1>1, <2>1, <2>3, <2>4, <2>5, <2>6, <2>7, <2>8 DEF PipesTypeOK
<1>3. \A p \in Processes : \A call : ~Called(p, call)
  BY <1>1 DEF Called
<1>4. Born
  BY <1>1 DEF PipesInit, Born, Processes
<1>5. ToolFits
  BY <1>1 DEF PipesInit, ToolFits
<1>6. FilesFit
  <2> SUFFICES ASSUME NEW p \in Processes, Running(p)
               PROVE  FilesFollow(p)
    BY DEF FilesFit
  <2>1. p = "P1"
    BY DEF PipesInit, Running
  <2>2. \A d \in Descriptors : fds[p][d] = IF d \in {0, 1} THEN Tty ELSE Closed
    BY <2>1 DEF PipesInit
  <2>3. \A k \in Pipe : ~Made(p, k)
    BY <1>3, <2>1 DEF Made
  <2>4. \A k \in Pipe : /\ fds[p][READ(k)] = Closed /\ fds[p][WRITE(k)] = Closed
                        /\ fds[p][0] = Tty /\ fds[p][1] = Tty
    BY <2>2, FilesDiffer
  <2> QED BY <1>3, <2>3, <2>4, FilesDiffer DEF FilesFollow
<1>7. Waited
  <2>1. {n \in 1..ip["P1"] - 1 : Code("P1")[n] = wait} = {}
    BY <1>1 DEF Processes
  <2> QED BY <2>1, FS_EmptySet DEF PipesInit, Waited
<1>8. Loaded
  <2>1. \A p \in Processes : ~Past(p, "read")
    BY <1>1 DEF Past
  <2>2. held["P1"] = <<Typed>> /\ <<Typed>> # <<>>
    BY DEF PipesInit, Processes
  <2> QED BY <2>1, <2>2 DEF Loaded
<1> QED BY <1>2, <1>4, <1>5, <1>6, <1>7, <1>8 DEF PipesInd

LEMMA PipesStutter ==
  ASSUME PipesInd, Loaded, UNCHANGED pipesVars
  PROVE  (PipesInd /\ Loaded)'
<1>1. PipesTypeOK'
  BY DEF pipesVars, PipesInd, PipesTypeOK, Code, Lines
<1>2. Born' /\ ToolFits' /\ Waited'
  BY DEF pipesVars, PipesInd, Born, Forked, ToolFits, Waited, Ended, Code, Call
<1>3. FilesFit'
  BY DEF pipesVars, PipesInd, FilesFit, FilesFollow, Made, Called, Running, Code
<1>4. Loaded'
  BY DEF pipesVars, Loaded, Past, Code
<1> QED BY <1>1, <1>2, <1>3, <1>4 DEF PipesInd

LEMMA PipesSteps ==
  ASSUME PipesInd, Loaded, PipesNext
  PROVE  (PipesInd /\ Loaded)'
<1>1. CASE UNCHANGED pipesVars
  BY <1>1, PipesStutter
<1>2. ASSUME NEW p \in Processes, Step(p) \/ Kill(p)
      PROVE  (PipesInd /\ Loaded)'
  <2>1. Loaded'
    BY <1>2, LoadedSteps DEF PipesInd
  <2>2. PipesInd'
    BY <1>2, MakePipes, Forking, FailedForks, Closes, Dup2s, Execs, Deaths, Sleeps, Waiting,
       ReadLines, ReadEOFs, WriteLines DEF Step
  <2> QED BY <2>1, <2>2
<1> QED BY <1>1, <1>2 DEF PipesNext

-----------------------------------------------------------------------------
(* Induction, with sets for predicates. *)
LEMMA LeastNatural ==
  ASSUME NEW S \in SUBSET Nat, S # {}
  PROVE  \E n \in S : \A m \in S : n <= m
<1>1. PICK n \in S : \A m \in S : <<m, n>> \notin OpToRel(<, Nat)
  BY NatLessThanWellFounded, WFMin
<1>2. \A m \in S : ~(m < n)
  BY <1>1 DEF OpToRel
<1> QED
  BY <1>2

LEMMA AllNaturals ==
  ASSUME NEW G, 0 \in G, \A n \in Nat : n \in G => n + 1 \in G
  PROVE  \A n \in Nat : n \in G
<1> DEFINE bad == {n \in Nat : n \notin G}
<1> SUFFICES ASSUME bad # {} PROVE FALSE
  OBVIOUS
<1>1. PICK n \in bad : \A m \in bad : n <= m
  BY LeastNatural
<1>2. n # 0 /\ n \in Nat
  OBVIOUS
<1>3. n - 1 \in Nat /\ ~(n <= n - 1) /\ (n - 1) + 1 = n
  BY <1>2
<1>4. n - 1 \in G
  BY <1>1, <1>3
<1> QED
  BY <1>3, <1>4

(* Sequences: a line that goes from the head of one to the end of another. *)
LEMMA Moved ==
  ASSUME NEW s \in Seq(Lines), NEW t \in Seq(Lines), t # <<>>
  PROVE  Append(s, Head(t)) \o Tail(t) = s \o t
OBVIOUS

LEMMA Joined ==
  ASSUME NEW s \in Seq(Lines), NEW t \in Seq(Lines), NEW u \in Seq(Lines)
  PROVE  /\ s \o (t \o u) = (s \o t) \o u /\ s \o t \in Seq(Lines)
         /\ Len(s \o t) = Len(s) + Len(t)
         /\ s \o <<>> = s /\ <<>> \o s = s
OBVIOUS

LEMMA Associates ==
  ASSUME NEW s \in Seq(Lines), NEW t \in Seq(Lines), NEW u \in Seq(Lines)
  PROVE  s \o (t \o u) = (s \o t) \o u
BY SMTT(30)

LEMMA MovedBetween ==
  ASSUME NEW s \in Seq(Lines), NEW t \in Seq(Lines), t # <<>>, NEW u \in Seq(Lines)
  PROVE  s \o (t \o u) = Append(s, Head(t)) \o (Tail(t) \o u)
<1>1. Append(s, Head(t)) \in Seq(Lines) /\ Tail(t) \in Seq(Lines)
  OBVIOUS
<1>2. PICK a \in Seq(Lines), b \in Seq(Lines) : a = Append(s, Head(t)) /\ b = Tail(t)
  BY <1>1
<1>3. a \o (b \o u) = (a \o b) \o u
  BY Associates, ZenonT(30)
<1>4. s \o (t \o u) = (s \o t) \o u
  BY Associates, ZenonT(30)
<1>5. Append(s, Head(t)) \o Tail(t) = s \o t
  BY Moved
<1> QED BY <1>2, <1>3, <1>4, <1>5

LEMMA AppendJoined ==
  ASSUME NEW s \in Seq(Lines), NEW t \in Seq(Lines), NEW line \in Lines
  PROVE  Append(s \o t, line) = s \o Append(t, line)
OBVIOUS

LEMMA PrefixJoined ==
  ASSUME NEW s \in Seq(Lines), NEW t \in Seq(Lines)
  PROVE  s \in Prefixes(s \o t) /\ IsPrefix(s, s \o t)
<1>1. Len(s) \in Nat /\ Len(s) <= Len(s \o t) /\ Len(s \o t) \in Nat
  OBVIOUS
<1>2. SubSeq(s \o t, 1, Len(s)) = s /\ SubSeq(s, 1, Len(s)) = s
  OBVIOUS
<1>3. Len(s) \in 0..Len(s \o t)
  BY <1>1
<1> QED BY <1>1, <1>2, <1>3 DEF Prefixes, IsPrefix

LEMMA SameSequence ==
  ASSUME NEW s \in Seq(Lines), NEW t \in Seq(Lines), Len(s) = Len(t), \A i \in 1..Len(t) : s[i] = t[i]
  PROVE  s = t
OBVIOUS

LEMMA PrefixLeaves ==
  ASSUME NEW t \in Seq(Lines), NEW s \in Prefixes(t)
  PROVE  s \in Seq(Lines) /\ \E rest \in Seq(Lines) : t = s \o rest
<1>1. PICK l \in 0..Len(t) : s = SubSeq(t, 1, l)
  BY DEF Prefixes
<1>2. s \in Seq(Lines) /\ SubSeq(t, l + 1, Len(t)) \in Seq(Lines)
  BY <1>1
<1> DEFINE rest == SubSeq(t, l + 1, Len(t))
<1>3. /\ Len(s) = l /\ Len(rest) = Len(t) - l /\ l \in Nat /\ Len(t) \in Nat
      /\ \A i \in 1..l : s[i] = t[i]
      /\ \A i \in 1..Len(t) - l : rest[i] = t[l + i]
  <2>1. l \in Nat /\ Len(t) \in Nat /\ l <= Len(t) /\ Len(s) = l /\ \A i \in 1..l : s[i] = t[i]
    BY <1>1
  <2>2. Len(rest) = Len(t) - l
    BY <2>1
  <2>3. ASSUME NEW i \in 1..Len(t) - l
        PROVE  rest[i] = t[l + i]
    BY <2>1, <2>2
  <2> QED BY <2>1, <2>2, <2>3
<1>4. rest \in Seq(Lines)
  BY <1>2
<1> HIDE DEF rest
<1>5. Len(s \o rest) = Len(t) /\ s \o rest \in Seq(Lines)
  BY <1>2, <1>3, <1>4
<1>6. ASSUME NEW i \in 1..Len(t)
      PROVE  (s \o rest)[i] = t[i]
  <2>1. CASE i <= l
    BY <1>2, <1>3, <1>4, <2>1
  <2>2. CASE ~(i <= l)
    <3>1. i - l \in 1..Len(t) - l /\ l + (i - l) = i
      BY <1>3, <2>2
    <3>2. rest[i - l] = t[i]
      BY <1>3, <3>1
    <3>3. (s \o rest)[i] = rest[i - l]
      BY <1>2, <1>3, <1>4, <2>2, <3>1
    <3> QED BY <3>2, <3>3
  <2> QED BY <2>1, <2>2
<1>7. t = s \o rest
  BY <1>5, <1>6, SameSequence
<1> QED BY <1>2, <1>4, <1>7

(* The lines of the file that grep lets through, as a recursion. *)
KeptUpTo(n, kept) ==
  kept = [i \in 0..n |-> IF i = 0 THEN <<>>
                         ELSE IF Scores[i] \in Wanted THEN Append(kept[i - 1], Scores[i])
                         ELSE kept[i - 1]]

LEMMA KeptExists == \E kept : KeptUpTo(Len(Scores), kept)
<1> DEFINE G == {n \in Nat : \E kept : KeptUpTo(n, kept)}
<1>1. 0 \in G
  <2>1. KeptUpTo(0, [i \in 0..0 |-> <<>>])
    BY DEF KeptUpTo
  <2> QED BY <2>1
<1>2. ASSUME NEW n \in Nat, n \in G PROVE n + 1 \in G
  <2>1. PICK kept : KeptUpTo(n, kept)
    BY <1>2
  <2> DEFINE more == [i \in 0..n + 1 |-> IF i = 0 THEN <<>>
                                         ELSE IF Scores[i] \in Wanted THEN Append(kept[i - 1], Scores[i])
                                         ELSE kept[i - 1]]
  <2>2. ASSUME NEW i \in 0..n PROVE i \in 0..n + 1 /\ more[i] = kept[i]
    <3>1. i \in 0..n + 1
      OBVIOUS
    <3>2. kept[i] = IF i = 0 THEN <<>>
                    ELSE IF Scores[i] \in Wanted THEN Append(kept[i - 1], Scores[i]) ELSE kept[i - 1]
      BY <2>1, Zenon DEF KeptUpTo
    <3> QED BY <3>1, <3>2
  <2>3. ASSUME NEW i \in 0..n + 1, i # 0 PROVE i - 1 \in 0..n
    BY <2>3
  <2> HIDE DEF more
  <2>4. ASSUME NEW i \in 0..n + 1, i # 0 PROVE more[i - 1] = kept[i - 1]
    BY <2>2, <2>3, <2>4
  <2>5. KeptUpTo(n + 1, more)
    BY <2>4 DEF KeptUpTo, more
  <2> QED BY <2>5
<1> HIDE DEF G
<1>3. \A n \in Nat : n \in G
  BY <1>1, <1>2, AllNaturals
<1>4. Len(Scores) \in Nat
  BY PipesAssumption
<1> QED BY <1>3, <1>4 DEF G

LEMMA KeptIs ==
  /\ Kept[0] = <<>>
  /\ \A n \in 1..Len(Scores) :
       Kept[n] = IF Scores[n] \in Wanted THEN Append(Kept[n - 1], Scores[n]) ELSE Kept[n - 1]
<1>1. KeptUpTo(Len(Scores), Kept)
  <2>1. Kept = CHOOSE kept : KeptUpTo(Len(Scores), kept)
    BY Zenon DEF Kept, KeptUpTo
  <2> QED BY <2>1, KeptExists, Zenon
<1>2. \A n \in 0..Len(Scores) :
        Kept[n] = IF n = 0 THEN <<>>
                  ELSE IF Scores[n] \in Wanted THEN Append(Kept[n - 1], Scores[n]) ELSE Kept[n - 1]
  BY <1>1, Zenon DEF KeptUpTo
<1>3. Len(Scores) \in Nat
  BY PipesAssumption
<1> HIDE DEF Kept
<1> QED BY <1>2, <1>3

(* It grows with the file. *)
Goes(from, to) == \E rest \in Seq(Lines) : to = from \o rest

LEMMA KeptGrows ==
  ASSUME NEW m \in 0..Len(Scores), NEW n \in 0..Len(Scores), m <= n
  PROVE  Kept[m] \in Seq(Lines) /\ Goes(Kept[m], Kept[n])
<1>0. Len(Scores) \in Nat /\ \A i \in 1..Len(Scores) : Scores[i] \in Lines
  BY LinesAre
<1> DEFINE G == {i \in Nat : i <= Len(Scores) => Kept[i] \in Seq(Lines)}
<1>1. 0 \in G
  <2>1. Kept[0] \in Seq(Lines)
    BY KeptIs
  <2> QED BY <2>1
<1>2. ASSUME NEW i \in Nat, i \in G PROVE i + 1 \in G
  <2> SUFFICES ASSUME i + 1 <= Len(Scores) PROVE Kept[i + 1] \in Seq(Lines)
    OBVIOUS
  <2>1. i + 1 \in 1..Len(Scores) /\ (i + 1) - 1 = i /\ i <= Len(Scores)
    BY <1>0
  <2>2. Kept[i + 1] = IF Scores[i + 1] \in Wanted THEN Append(Kept[i], Scores[i + 1]) ELSE Kept[i]
    BY <2>1, KeptIs
  <2>3. Kept[i] \in Seq(Lines) /\ Scores[i + 1] \in Lines
    BY <1>0, <1>2, <2>1
  <2> QED BY <2>2, <2>3
<1> HIDE DEF G
<1>3. \A i \in Nat : i \in G
  BY <1>1, <1>2, AllNaturals
<1>4. \A i \in 0..Len(Scores) : Kept[i] \in Seq(Lines)
  BY <1>0, <1>3 DEF G
<1> DEFINE H == {i \in Nat : m + i <= Len(Scores) => Goes(Kept[m], Kept[m + i])}
<1>5. 0 \in H
  <2>1. m + 0 = m /\ Kept[m] \o <<>> = Kept[m]
    BY <1>4
  <2>2. Goes(Kept[m], Kept[m])
    <3>1. <<>> \in Seq(Lines)
      OBVIOUS
    <3> QED BY <2>1, <3>1 DEF Goes
  <2> QED BY <2>1, <2>2
<1>6. ASSUME NEW i \in Nat, i \in H PROVE i + 1 \in H
  <2> SUFFICES ASSUME m + (i + 1) <= Len(Scores)
               PROVE  Goes(Kept[m], Kept[m + (i + 1)])
    OBVIOUS
  <2>1. /\ m + (i + 1) \in 1..Len(Scores) /\ (m + (i + 1)) - 1 = m + i /\ m + i <= Len(Scores)
    BY <1>0
  <2>2. Kept[m + (i + 1)] = IF Scores[m + (i + 1)] \in Wanted THEN Append(Kept[m + i], Scores[m + (i + 1)])
                            ELSE Kept[m + i]
    BY <2>1, KeptIs
  <2>3. PICK rest \in Seq(Lines) : Kept[m + i] = Kept[m] \o rest
    BY <1>6, <2>1 DEF Goes
  <2>4. Scores[m + (i + 1)] \in Lines /\ Kept[m] \in Seq(Lines)
    BY <1>0, <1>4, <2>1
  <2>5. Append(Kept[m] \o rest, Scores[m + (i + 1)]) = Kept[m] \o Append(rest, Scores[m + (i + 1)])
    BY <2>4, AppendJoined
  <2>6. Append(rest, Scores[m + (i + 1)]) \in Seq(Lines)
    BY <2>4
  <2> QED BY <2>2, <2>3, <2>5, <2>6 DEF Goes
<1> HIDE DEF H
<1>7. \A i \in Nat : i \in H
  BY <1>5, <1>6, AllNaturals
<1>8. n - m \in Nat /\ m + (n - m) = n /\ n <= Len(Scores)
  BY <1>0
<1>9. Goes(Kept[m], Kept[n])
  BY <1>7, <1>8 DEF H
<1> QED BY <1>4, <1>9

-----------------------------------------------------------------------------
(* Which process executes what, reads and writes, and at which call. *)
ExecTable == [pipes1 |-> {}, pipes2 |-> {<<"P1", 5, "cat">>, <<"P2", 3, "grep">>},
          pipes3 |-> {<<"P1", 9, "cat">>, <<"P2", 8, "grep">>, <<"P3", 6, "sort">>}, main3 |-> {}]
TransferTable == [pipes1 |-> {<<"P2", 3, read(READ(1))>>, <<"P1", 6, write(WRITE(1))>>, <<"P2", 4, write(1)>>},
              pipes2 |-> {}, pipes3 |-> {}, main3 |-> {}]
Tabled(g, p, s) ==
  \A n \in 1..Len(s) : /\ s[n].op = "exec" => <<p, n, s[n].tool>> \in ExecTable[g]
                       /\ s[n].op \in {"read", "write"} => <<p, n, s[n]>> \in TransferTable[g]

LEMMA TabledNothing == ASSUME NEW g, NEW p PROVE Tabled(g, p, <<>>)
BY SMT DEF Tabled

LEMMA TabledPipes ==
  /\ Tabled("pipes1", "P1", Sender) /\ Tabled("pipes1", "P2", Printer)
  /\ Tabled("pipes2", "P1", CatTwo) /\ Tabled("pipes2", "P2", GrepTwo)
  /\ Tabled("pipes3", "P1", CatThree) /\ Tabled("pipes3", "P2", GrepThree)
  /\ Tabled("pipes3", "P3", SortThree)
  /\ Tabled("main3", "P1", Waiter) /\ Tabled("main3", "P2", Sleeper) /\ Tabled("main3", "P3", Sleeper)
<1> USE DEF pipe, close, dup2, exec, write, read, sleep, wait, fork, READ, WRITE, Pipe, ExecTable, TransferTable, Tabled
<1>1. Tabled("pipes1", "P1", Sender) /\ Tabled("pipes1", "P2", Printer)
  BY SMT DEF Sender, Printer
<1>2. Tabled("pipes2", "P1", CatTwo) /\ Tabled("pipes2", "P2", GrepTwo)
  BY SMT DEF CatTwo, GrepTwo
<1>3. Tabled("pipes3", "P1", CatThree) /\ Tabled("pipes3", "P2", GrepThree)
  BY SMT DEF CatThree, GrepThree
<1>4. Tabled("pipes3", "P3", SortThree)
  BY SMT DEF SortThree
<1>5. Tabled("main3", "P1", Waiter) /\ Tabled("main3", "P2", Sleeper) /\ Tabled("main3", "P3", Sleeper)
  BY SMT DEF Waiter, Sleeper
<1> HIDE DEF Tabled
<1> QED BY <1>1, <1>2, <1>3, <1>4, <1>5

LEMMA CodeIsTabled ==
  ASSUME program \in Programs, NEW p \in Processes
  PROVE  Tabled(program, p, Code(p))
<1>1. p = "P1" \/ p = "P2" \/ p = "P3"
  BY DEF Processes
<1>2. CASE program = "pipes1"
  BY <1>1, <1>2, CodeIs, TabledPipes, TabledNothing
<1>3. CASE program = "pipes2"
  BY <1>1, <1>3, CodeIs, TabledPipes, TabledNothing
<1>4. CASE program = "pipes3"
  BY <1>1, <1>4, CodeIs, TabledPipes
<1>5. CASE program = "main3"
  BY <1>1, <1>5, CodeIs, TabledPipes
<1> QED BY <1>2, <1>3, <1>4, <1>5, ProgramsAre

(* The tools. *)
LEMMA ToolIsTabled ==
  ASSUME PipesInd, NEW p \in Processes, tool[p] # "own"
  PROVE  <<p, ip[p], IF tool[p] = "sorted" THEN "sort" ELSE tool[p]>> \in ExecTable[program]
<1>1. PipesTypeOK
  BY DEF PipesInd
<1> DEFINE t == IF tool[p] = "sorted" THEN "sort" ELSE tool[p]
<1>2. ip[p] \in 1..Len(Code(p)) /\ Code(p)[ip[p]] = exec(t)
  BY <1>1, LengthsAre DEF PipesInd, ToolFits, PipesTypeOK, Call
<1>3. exec(t).op = "exec" /\ exec(t).tool = t
  BY DEF exec
<1> HIDE DEF t
<1>4. <<p, ip[p], t>> \in ExecTable[program]
  BY <1>1, <1>2, <1>3, CodeIsTabled DEF Tabled, PipesTypeOK
<1> QED BY <1>4 DEF t

LEMMA ToolsAre ==
  ASSUME PipesInd
  PROVE  /\ program \in {"pipes1", "main3"} => \A p \in Processes : tool[p] = "own"
         /\ tool["P1"] \in {"own", "cat"} /\ tool["P2"] \in {"own", "grep"}
         /\ tool["P3"] \in {"own", "sort", "sorted"} /\ (program # "pipes3" => tool["P3"] = "own")
         /\ tool["P1"] = "cat" => ip["P1"] = (IF program = "pipes2" THEN 5 ELSE 9)
         /\ tool["P2"] = "grep" => ip["P2"] = (IF program = "pipes2" THEN 3 ELSE 8)
         /\ tool["P3"] # "own" => ip["P3"] = 6
<1>1. program \in {"pipes1", "pipes2", "pipes3", "main3"} /\ tool \in [Processes -> {"own", "cat", "grep", "sort", "sorted"}]
  BY ProgramsAre DEF PipesInd, PipesTypeOK
<1>2. "P1" \in Processes /\ "P2" \in Processes /\ "P3" \in Processes
  BY DEF Processes
<1>3. CASE program \in {"pipes1", "main3"}
  <2>1. ExecTable[program] = {}
    BY <1>3 DEF ExecTable
  <2>2. \A p \in Processes : tool[p] = "own"
    BY <2>1, ToolIsTabled
  <2> QED BY <1>2, <1>3, <2>2
<1>4. CASE program = "pipes2"
  <2>1. \A p \in Processes : tool[p] # "own" =>
          <<p, ip[p], IF tool[p] = "sorted" THEN "sort" ELSE tool[p]>> \in {<<"P1", 5, "cat">>, <<"P2", 3, "grep">>}
    BY <1>4, ToolIsTabled DEF ExecTable
  <2> QED BY <1>1, <1>2, <1>4, <2>1
<1>5. CASE program = "pipes3"
  <2>1. \A p \in Processes : tool[p] # "own" =>
          <<p, ip[p], IF tool[p] = "sorted" THEN "sort" ELSE tool[p]>>
             \in {<<"P1", 9, "cat">>, <<"P2", 8, "grep">>, <<"P3", 6, "sort">>}
    BY <1>5, ToolIsTabled DEF ExecTable
  <2> QED BY <1>1, <1>2, <1>5, <2>1
<1> QED BY <1>1, <1>3, <1>4, <1>5

(* Where the calls stand that the descriptors at an end follow from. *)
LEMMA ScriptsAre ==
  /\ Len(Sender) = 9 /\ Len(Printer) = 6 /\ Len(CatTwo) = 5 /\ Len(GrepTwo) = 3
  /\ Len(CatThree) = 9 /\ Len(GrepThree) = 8 /\ Len(SortThree) = 6
  /\ Sender[1] = pipe(1) /\ Sender[7] = wait /\ \A n \in 1..9 : Sender[n] = close(WRITE(1)) => n = 9
  /\ \A n \in 1..6 : Printer[n] = close(READ(1)) => n = 5
  /\ \A n \in 1..6 : \A k \in Pipe : Printer[n] # dup2(WRITE(k), 1)
  /\ CatTwo[1] = pipe(1) /\ CatTwo[3] = dup2(WRITE(1), 1)
  /\ \A n \in 1..5 : CatTwo[n] # close(WRITE(1))
  /\ GrepTwo[1] = dup2(READ(1), 0)
  /\ \A n \in 1..3 : GrepTwo[n] # close(READ(1)) /\ \A k \in Pipe : GrepTwo[n] # dup2(WRITE(k), 1)
  /\ CatThree[1] = pipe(1) /\ CatThree[2] = pipe(2) /\ CatThree[7] = dup2(WRITE(1), 1)
  /\ \A n \in 1..9 : CatThree[n] = close(WRITE(1)) => n = 8
  /\ GrepThree[4] = dup2(READ(1), 0) /\ GrepThree[6] = dup2(WRITE(2), 1)
  /\ \A n \in 1..8 : /\ GrepThree[n] = close(READ(1)) => n = 5
                     /\ GrepThree[n] = close(WRITE(2)) => n = 7
  /\ SortThree[4] = dup2(READ(2), 0) /\ \A n \in 1..6 : SortThree[n] = close(READ(2)) => n = 5
  /\ \A n \in 1..6 : \A k \in Pipe : SortThree[n] # dup2(WRITE(k), 1)
<1> USE DEF pipe, close, dup2, exec, write, read, sleep, wait, fork, READ, WRITE, Pipe
<1>1. /\ Len(Sender) = 9 /\ Len(Printer) = 6 /\ Len(CatTwo) = 5 /\ Len(GrepTwo) = 3
      /\ Len(CatThree) = 9 /\ Len(GrepThree) = 8 /\ Len(SortThree) = 6
  BY SMT DEF Sender, Printer, CatTwo, GrepTwo, CatThree, GrepThree, SortThree
<1>2. Sender[1] = pipe(1) /\ Sender[7] = wait /\ \A n \in 1..9 : Sender[n] = close(WRITE(1)) => n = 9
  BY SMT DEF Sender
<1>3. /\ \A n \in 1..6 : Printer[n] = close(READ(1)) => n = 5
      /\ \A n \in 1..6 : \A k \in Pipe : Printer[n] # dup2(WRITE(k), 1)
  BY SMT DEF Printer
<1>4. /\ CatTwo[1] = pipe(1) /\ CatTwo[3] = dup2(WRITE(1), 1)
      /\ \A n \in 1..5 : CatTwo[n] # close(WRITE(1))
  BY SMT DEF CatTwo
<1>5. /\ GrepTwo[1] = dup2(READ(1), 0)
      /\ \A n \in 1..3 : GrepTwo[n] # close(READ(1)) /\ \A k \in Pipe : GrepTwo[n] # dup2(WRITE(k), 1)
  BY SMT DEF GrepTwo
<1>6. /\ CatThree[1] = pipe(1) /\ CatThree[2] = pipe(2) /\ CatThree[7] = dup2(WRITE(1), 1)
      /\ \A n \in 1..9 : CatThree[n] = close(WRITE(1)) => n = 8
  BY SMT DEF CatThree
<1>7. /\ GrepThree[4] = dup2(READ(1), 0) /\ GrepThree[6] = dup2(WRITE(2), 1)
      /\ \A n \in 1..8 : /\ GrepThree[n] = close(READ(1)) => n = 5
                         /\ GrepThree[n] = close(WRITE(2)) => n = 7
  BY SMT DEF GrepThree
<1>8. /\ SortThree[4] = dup2(READ(2), 0) /\ \A n \in 1..6 : SortThree[n] = close(READ(2)) => n = 5
      /\ \A n \in 1..6 : \A k \in Pipe : SortThree[n] # dup2(WRITE(k), 1)
  BY SMT DEF SortThree
<1> QED BY <1>1, <1>2, <1>3, <1>4, <1>5, <1>6, <1>7, <1>8

(* A call that stands at a place has been made once that place is passed, and only then. *)
LEMMA CalledAt ==
  ASSUME PipesTypeOK, NEW p \in Processes, NEW n \in Nat \ {0}, NEW c, Code(p)[n] = c, ip[p] > n
  PROVE  Called(p, c)
<1>1. n \in 1..ip[p] - 1
  BY DEF PipesTypeOK
<1> QED BY <1>1 DEF Called

LEMMA OnlyAt ==
  ASSUME PipesTypeOK, NEW p \in Processes, NEW n \in Nat \ {0}, NEW c,
         \A m \in 1..Len(Code(p)) : Code(p)[m] = c => m = n, Called(p, c)
  PROVE  ip[p] > n
<1>1. PICK m \in 1..ip[p] - 1 : Code(p)[m] = c
  BY DEF Called
<1>2. m \in 1..Len(Code(p)) /\ m < ip[p]
  BY LengthsAre DEF PipesTypeOK
<1> QED BY <1>1, <1>2

LEMMA NeverAt ==
  ASSUME PipesTypeOK, NEW p \in Processes, NEW c, \A m \in 1..Len(Code(p)) : Code(p)[m] # c
  PROVE  ~Called(p, c)
<1> SUFFICES ASSUME NEW m \in 1..ip[p] - 1, Code(p)[m] = c PROVE FALSE
  BY DEF Called
<1>1. m \in 1..Len(Code(p))
  BY LengthsAre DEF PipesTypeOK
<1> QED BY <1>1

LEMMA CallsMade ==
  ASSUME PipesTypeOK
  PROVE  /\ program = "pipes1" => /\ ip["P1"] > 1 => Called("P1", pipe(1))
                                  /\ ip["P1"] > 7 => Called("P1", wait)
                                  /\ Called("P1", close(WRITE(1))) => ip["P1"] > 9
                                  /\ Called("P2", close(READ(1))) => ip["P2"] > 5
                                  /\ \A k \in Pipe : ~Called("P2", dup2(WRITE(k), 1))
         /\ program = "pipes2" => /\ ip["P1"] > 1 => Called("P1", pipe(1))
                                  /\ ip["P1"] > 3 => Called("P1", dup2(WRITE(1), 1))
                                  /\ ~Called("P1", close(WRITE(1)))
                                  /\ ip["P2"] > 1 => Called("P2", dup2(READ(1), 0))
                                  /\ ~Called("P2", close(READ(1)))
                                  /\ \A k \in Pipe : ~Called("P2", dup2(WRITE(k), 1))
         /\ program = "pipes3" => /\ ip["P1"] > 1 => Called("P1", pipe(1))
                                  /\ ip["P1"] > 7 => Called("P1", dup2(WRITE(1), 1))
                                  /\ Called("P1", close(WRITE(1))) => ip["P1"] > 8
                                  /\ ip["P2"] > 4 => Called("P2", dup2(READ(1), 0))
                                  /\ ip["P2"] > 6 => Called("P2", dup2(WRITE(2), 1))
                                  /\ Called("P2", close(READ(1))) => ip["P2"] > 5
                                  /\ Called("P2", close(WRITE(2))) => ip["P2"] > 7
                                  /\ ip["P3"] > 4 => Called("P3", dup2(READ(2), 0))
                                  /\ Called("P3", close(READ(2))) => ip["P3"] > 5
                                  /\ \A k \in Pipe : ~Called("P3", dup2(WRITE(k), 1))
<1>1. "P1" \in Processes /\ "P2" \in Processes /\ "P3" \in Processes
  BY DEF Processes
<1>2. ASSUME program = "pipes1"
      PROVE  /\ ip["P1"] > 1 => Called("P1", pipe(1))
             /\ ip["P1"] > 7 => Called("P1", wait)
             /\ Called("P1", close(WRITE(1))) => ip["P1"] > 9
             /\ Called("P2", close(READ(1))) => ip["P2"] > 5
             /\ \A k \in Pipe : ~Called("P2", dup2(WRITE(k), 1))
  <2>1. /\ Code("P1")[1] = pipe(1) /\ Code("P1")[7] = wait
        /\ \A m \in 1..Len(Code("P1")) : Code("P1")[m] = close(WRITE(1)) => m = 9
        /\ \A m \in 1..Len(Code("P2")) : Code("P2")[m] = close(READ(1)) => m = 5
        /\ \A k \in Pipe : \A m \in 1..Len(Code("P2")) : Code("P2")[m] # dup2(WRITE(k), 1)
    <3>1. Code("P1") = Sender /\ Code("P2") = Printer /\ Len(Sender) = 9 /\ Len(Printer) = 6
      BY <1>2, CodeIs, ScriptsAre
    <3>2. /\ Sender[1] = pipe(1) /\ Sender[7] = wait /\ \A m \in 1..9 : Sender[m] = close(WRITE(1)) => m = 9
          /\ \A m \in 1..6 : Printer[m] = close(READ(1)) => m = 5
          /\ \A m \in 1..6 : \A k \in Pipe : Printer[m] # dup2(WRITE(k), 1)
      BY ScriptsAre
    <3> QED BY <3>1, <3>2
  <2>2. ip["P1"] > 1 => Called("P1", pipe(1))
    BY <1>1, <2>1, CalledAt
  <2>3. ip["P1"] > 7 => Called("P1", wait)
    BY <1>1, <2>1, CalledAt
  <2>4. Called("P1", close(WRITE(1))) => ip["P1"] > 9
    BY <1>1, <2>1, OnlyAt
  <2>5. Called("P2", close(READ(1))) => ip["P2"] > 5
    BY <1>1, <2>1, OnlyAt
  <2>6. \A k \in Pipe : ~Called("P2", dup2(WRITE(k), 1))
    BY <1>1, <2>1, NeverAt
  <2> QED BY <2>2, <2>3, <2>4, <2>5, <2>6
<1>3. ASSUME program = "pipes2"
      PROVE  /\ ip["P1"] > 1 => Called("P1", pipe(1))
             /\ ip["P1"] > 3 => Called("P1", dup2(WRITE(1), 1))
             /\ ~Called("P1", close(WRITE(1)))
             /\ ip["P2"] > 1 => Called("P2", dup2(READ(1), 0))
             /\ ~Called("P2", close(READ(1)))
             /\ \A k \in Pipe : ~Called("P2", dup2(WRITE(k), 1))
  <2>1. /\ Code("P1")[1] = pipe(1) /\ Code("P1")[3] = dup2(WRITE(1), 1) /\ Code("P2")[1] = dup2(READ(1), 0)
        /\ \A m \in 1..Len(Code("P1")) : Code("P1")[m] # close(WRITE(1))
        /\ \A m \in 1..Len(Code("P2")) : Code("P2")[m] # close(READ(1))
        /\ \A k \in Pipe : \A m \in 1..Len(Code("P2")) : Code("P2")[m] # dup2(WRITE(k), 1)
    <3>1. /\ Code("P1") = CatTwo /\ Code("P2") = GrepTwo /\ Len(CatTwo) = 5 /\ Len(GrepTwo) = 3
      BY <1>3, CodeIs, ScriptsAre
    <3>2. /\ CatTwo[1] = pipe(1) /\ CatTwo[3] = dup2(WRITE(1), 1) /\ GrepTwo[1] = dup2(READ(1), 0)
          /\ \A m \in 1..5 : CatTwo[m] # close(WRITE(1))
          /\ \A m \in 1..3 : GrepTwo[m] # close(READ(1)) /\ \A k \in Pipe : GrepTwo[m] # dup2(WRITE(k), 1)
      BY ScriptsAre
    <3> QED BY <3>1, <3>2
  <2>2. ip["P1"] > 1 => Called("P1", pipe(1))
    BY <1>1, <2>1, CalledAt
  <2>3. ip["P1"] > 3 => Called("P1", dup2(WRITE(1), 1))
    BY <1>1, <2>1, CalledAt
  <2>4. ip["P2"] > 1 => Called("P2", dup2(READ(1), 0))
    BY <1>1, <2>1, CalledAt
  <2>5. ~Called("P1", close(WRITE(1))) /\ ~Called("P2", close(READ(1)))
    BY <1>1, <2>1, NeverAt
  <2>6. \A k \in Pipe : ~Called("P2", dup2(WRITE(k), 1))
    BY <1>1, <2>1, NeverAt
  <2> QED BY <2>2, <2>3, <2>4, <2>5, <2>6
<1>4. ASSUME program = "pipes3"
      PROVE  /\ ip["P1"] > 1 => Called("P1", pipe(1))
             /\ ip["P1"] > 7 => Called("P1", dup2(WRITE(1), 1))
             /\ Called("P1", close(WRITE(1))) => ip["P1"] > 8
             /\ ip["P2"] > 4 => Called("P2", dup2(READ(1), 0))
             /\ ip["P2"] > 6 => Called("P2", dup2(WRITE(2), 1))
             /\ Called("P2", close(READ(1))) => ip["P2"] > 5
             /\ Called("P2", close(WRITE(2))) => ip["P2"] > 7
             /\ ip["P3"] > 4 => Called("P3", dup2(READ(2), 0))
             /\ Called("P3", close(READ(2))) => ip["P3"] > 5
             /\ \A k \in Pipe : ~Called("P3", dup2(WRITE(k), 1))
  <2>1. /\ Code("P1")[1] = pipe(1) /\ Code("P1")[7] = dup2(WRITE(1), 1)
        /\ Code("P2")[4] = dup2(READ(1), 0) /\ Code("P2")[6] = dup2(WRITE(2), 1)
        /\ Code("P3")[4] = dup2(READ(2), 0)
    BY <1>4, CodeIs, ScriptsAre
  <2>2. /\ \A m \in 1..Len(Code("P1")) : Code("P1")[m] = close(WRITE(1)) => m = 8
        /\ \A m \in 1..Len(Code("P2")) : /\ Code("P2")[m] = close(READ(1)) => m = 5
                                         /\ Code("P2")[m] = close(WRITE(2)) => m = 7
        /\ \A m \in 1..Len(Code("P3")) : Code("P3")[m] = close(READ(2)) => m = 5
        /\ \A k \in Pipe : \A m \in 1..Len(Code("P3")) : Code("P3")[m] # dup2(WRITE(k), 1)
    <3>1. /\ Code("P1") = CatThree /\ Code("P2") = GrepThree /\ Code("P3") = SortThree
          /\ Len(CatThree) = 9 /\ Len(GrepThree) = 8 /\ Len(SortThree) = 6
      BY <1>4, CodeIs, ScriptsAre
    <3>2. /\ \A m \in 1..9 : CatThree[m] = close(WRITE(1)) => m = 8
          /\ \A m \in 1..8 : /\ GrepThree[m] = close(READ(1)) => m = 5
                             /\ GrepThree[m] = close(WRITE(2)) => m = 7
          /\ \A m \in 1..6 : SortThree[m] = close(READ(2)) => m = 5
          /\ \A m \in 1..6 : \A k \in Pipe : SortThree[m] # dup2(WRITE(k), 1)
      BY ScriptsAre
    <3> QED BY <3>1, <3>2
  <2>3. ip["P1"] > 1 => Called("P1", pipe(1))
    BY <1>1, <2>1, CalledAt
  <2>4. ip["P1"] > 7 => Called("P1", dup2(WRITE(1), 1))
    BY <1>1, <2>1, CalledAt
  <2>5. ip["P2"] > 4 => Called("P2", dup2(READ(1), 0))
    BY <1>1, <2>1, CalledAt
  <2>6. ip["P2"] > 6 => Called("P2", dup2(WRITE(2), 1))
    BY <1>1, <2>1, CalledAt
  <2>7. ip["P3"] > 4 => Called("P3", dup2(READ(2), 0))
    BY <1>1, <2>1, CalledAt
  <2>8. Called("P1", close(WRITE(1))) => ip["P1"] > 8
    BY <1>1, <2>2, OnlyAt
  <2>9. Called("P2", close(READ(1))) => ip["P2"] > 5
    BY <1>1, <2>2, OnlyAt
  <2>10. Called("P2", close(WRITE(2))) => ip["P2"] > 7
    BY <1>1, <2>2, OnlyAt
  <2>11. Called("P3", close(READ(2))) => ip["P3"] > 5
    BY <1>1, <2>2, OnlyAt
  <2>12. \A k \in Pipe : ~Called("P3", dup2(WRITE(k), 1))
    BY <1>1, <2>2, NeverAt
  <2> QED BY <2>3, <2>4, <2>5, <2>6, <2>7, <2>8, <2>9, <2>10, <2>11, <2>12
<1> QED BY <1>2, <1>3, <1>4

LEMMA MadeChild ==
  ASSUME NEW p \in Processes \ {"P1"}
  PROVE  /\ program \in {"pipes1", "pipes2", "pipes3"} => Made(p, 1)
         /\ program = "pipes3" => Made(p, 2)
<1>1. program = "pipes1" => Code("P1")[1] = pipe(1) /\ 1 \in 1..Len(Code("P1"))
  BY CodeIs, ScriptsAre
<1>2. program = "pipes2" => Code("P1")[1] = pipe(1) /\ 1 \in 1..Len(Code("P1"))
  BY CodeIs, ScriptsAre
<1>3. program = "pipes3" => /\ Code("P1")[1] = pipe(1) /\ 1 \in 1..Len(Code("P1"))
                            /\ Code("P1")[2] = pipe(2) /\ 2 \in 1..Len(Code("P1"))
  BY CodeIs, ScriptsAre
<1>4. p # "P1"
  OBVIOUS
<1> QED BY <1>1, <1>2, <1>3, <1>4 DEF Made

(* A process that goes on in a pipeline holds the ends that it reads from and writes to. *)
LEMMA HoldsIts ==
  ASSUME NEW p \in Processes, NEW d \in Descriptors, NEW k
  PROVE  /\ fds[p][d] = ReadEnd(k) => p \in Readers(k)
         /\ fds[p][d] = WriteEnd(k) => p \in Writers(k)
BY DEF Readers, Writers, Holds

LEMMA ReadersHold ==
  ASSUME PipesInd
  PROVE  /\ program \in {"pipes2", "pipes3"} /\ Running("P2") => "P2" \in Readers(1)
         /\ program = "pipes3" /\ Running("P3") => "P3" \in Readers(2)
         /\ program = "pipes1" /\ Running("P2") /\ ip["P2"] <= 5 => "P2" \in Readers(1)
<1>1. /\ PipesTypeOK /\ "P2" \in Processes \ {"P1"} /\ "P3" \in Processes \ {"P1"} /\ 1 \in Pipe /\ 2 \in Pipe
      /\ ip["P2"] \in Nat /\ ip["P3"] \in Nat
  BY DEF PipesInd, Processes, Pipe, PipesTypeOK
<1>2. ASSUME program \in {"pipes1", "pipes2", "pipes3"}, Running("P2"), program = "pipes1" => ip["P2"] <= 5
      PROVE  "P2" \in Readers(1)
  <2>1. ~Called("P2", close(READ(1))) \/ Called("P2", dup2(READ(1), 0))
    BY <1>1, <1>2, CallsMade
  <2>2. FilesFollow("P2") /\ Made("P2", 1)
    BY <1>1, <1>2, MadeChild DEF PipesInd, FilesFit
  <2>3. fds["P2"][READ(1)] = ReadEnd(1) \/ fds["P2"][0] = ReadEnd(1)
    BY <1>1, <2>1, <2>2 DEF FilesFollow
  <2> QED BY <1>1, <2>3, HoldsIts, FilesDiffer
<1>3. ASSUME program = "pipes3", Running("P3")
      PROVE  "P3" \in Readers(2)
  <2>1. ~Called("P3", close(READ(2))) \/ Called("P3", dup2(READ(2), 0))
    BY <1>1, <1>3, CallsMade
  <2>2. FilesFollow("P3") /\ Made("P3", 2)
    BY <1>1, <1>3, MadeChild DEF PipesInd, FilesFit
  <2>3. fds["P3"][READ(2)] = ReadEnd(2) \/ fds["P3"][0] = ReadEnd(2)
    BY <1>1, <2>1, <2>2 DEF FilesFollow
  <2> QED BY <1>1, <2>3, HoldsIts, FilesDiffer
<1> QED BY <1>2, <1>3

LEMMA WritersHold ==
  ASSUME PipesInd
  PROVE  /\ program \in {"pipes2", "pipes3"} /\ Running("P1") /\ ip["P1"] > 1 => "P1" \in Writers(1)
         /\ program = "pipes3" /\ Running("P2") => "P2" \in Writers(2)
         /\ program = "pipes1" /\ Running("P1") /\ ip["P1"] \in 2..9 => "P1" \in Writers(1)
<1>1. /\ PipesTypeOK /\ "P1" \in Processes /\ "P2" \in Processes \ {"P1"} /\ 1 \in Pipe /\ 2 \in Pipe
      /\ ip["P1"] \in Nat /\ ip["P2"] \in Nat
  BY DEF PipesInd, Processes, Pipe, PipesTypeOK
<1>2. ASSUME program \in {"pipes1", "pipes2", "pipes3"}, Running("P1"), ip["P1"] > 1,
             program = "pipes1" => ip["P1"] <= 9
      PROVE  "P1" \in Writers(1)
  <2>1. ~Called("P1", close(WRITE(1))) \/ Called("P1", dup2(WRITE(1), 1))
    BY <1>1, <1>2, CallsMade
  <2>2. FilesFollow("P1") /\ Called("P1", pipe(1))
    BY <1>1, <1>2, CallsMade DEF PipesInd, FilesFit
  <2>3. fds["P1"][WRITE(1)] = WriteEnd(1) \/ fds["P1"][1] = WriteEnd(1)
    BY <1>1, <2>1, <2>2 DEF FilesFollow, Made
  <2> QED BY <1>1, <2>3, HoldsIts, FilesDiffer
<1>3. ASSUME program = "pipes3", Running("P2")
      PROVE  "P2" \in Writers(2)
  <2>1. ~Called("P2", close(WRITE(2))) \/ Called("P2", dup2(WRITE(2), 1))
    BY <1>1, <1>3, CallsMade
  <2>2. FilesFollow("P2") /\ Made("P2", 2)
    BY <1>1, <1>3, MadeChild DEF PipesInd, FilesFit
  <2>3. fds["P2"][WRITE(2)] = WriteEnd(2) \/ fds["P2"][1] = WriteEnd(2)
    BY <1>1, <2>1, <2>2 DEF FilesFollow
  <2> QED BY <1>1, <2>3, HoldsIts, FilesDiffer
<1>4. ip["P1"] \in 2..9 <=> ip["P1"] > 1 /\ ip["P1"] <= 9
  BY <1>1
<1> QED BY <1>2, <1>3, <1>4

LEMMA TransfersAre ==
  ASSUME PipesInd, NEW p \in Processes, NEW op \in {"read", "write"}, At(p, op)
  PROVE  /\ program = "pipes1" /\ tool[p] = "own"
         /\ op = "read" => p = "P2" /\ ip[p] = 3 /\ Call(p) = read(READ(1))
         /\ op = "write" => \/ p = "P1" /\ ip[p] = 6 /\ Call(p) = write(WRITE(1))
                            \/ p = "P2" /\ ip[p] = 4 /\ Call(p) = write(1)
<1>1. PipesTypeOK /\ program \in {"pipes1", "pipes2", "pipes3", "main3"}
  BY ProgramsAre DEF PipesInd, PipesTypeOK
<1>2. tool[p] = "own" /\ ip[p] \in 1..Len(Code(p)) /\ Call(p) = Code(p)[ip[p]] /\ Call(p).op = op
  BY <1>1, AtCall DEF Call
<1>3. <<p, ip[p], Call(p)>> \in TransferTable[program]
  BY <1>1, <1>2, CodeIsTabled DEF Tabled, PipesTypeOK
<1>4. program = "pipes1"
  BY <1>1, <1>3 DEF TransferTable
<1>5. <<p, ip[p], Call(p)>> \in
        {<<"P2", 3, read(READ(1))>>, <<"P1", 6, write(WRITE(1))>>, <<"P2", 4, write(1)>>}
  BY <1>3, <1>4 DEF TransferTable
<1>6. read(READ(1)).op = "read" /\ write(WRITE(1)).op = "write" /\ write(1).op = "write"
  BY DEF read, write
<1> QED BY <1>2, <1>4, <1>5, <1>6

LEMMA OutputToTty ==
  ASSUME NEW p, FilesFollow(p), \A k \in Pipe : ~Called(p, dup2(WRITE(k), 1))
  PROVE  fds[p][1] = Tty
<1>1. 1 \in Pipe
  BY DEF Pipe
<1>2. fds[p][1] \in {Tty} \cup {WriteEnd(j) : j \in Pipe} /\ \A k \in Pipe : fds[p][1] # WriteEnd(k)
  BY <1>1 DEF FilesFollow
<1> QED BY <1>2

(* Who reads, and from where. *)
Reading(p, k) == \/ program = "pipes1" /\ p = "P2" /\ tool[p] = "own" /\ ip[p] = 3 /\ k = 1
                 \/ program \in {"pipes2", "pipes3"} /\ p = "P2" /\ tool[p] = "grep" /\ held[p] = <<>> /\ k = 1
                 \/ program = "pipes3" /\ p = "P3" /\ tool[p] = "sort" /\ k = 2

LEMMA ReaderIs ==
  ASSUME PipesInd, NEW p \in Processes, Reads(p)
  PROVE  \E k \in Pipe : Reading(p, k) /\ Input(p) = ReadEnd(k) /\ Running(p)
<1>1. /\ PipesTypeOK /\ Running(p) /\ FilesFollow(p) /\ 1 \in Pipe /\ 2 \in Pipe
      /\ program \in {"pipes1", "pipes2", "pipes3", "main3"} /\ p \in {"P1", "P2", "P3"}
  BY ProgramsAre DEF PipesInd, FilesFit, Reads, At, PipesTypeOK, Pipe, Processes
<1>2. CASE At(p, "read")
  <2>1. program = "pipes1" /\ tool[p] = "own" /\ p = "P2" /\ ip[p] = 3 /\ Call(p) = read(READ(1))
    BY <1>2, TransfersAre
  <2>2. ~Called("P2", close(READ(1))) /\ Made("P2", 1)
    BY <1>1, <2>1, CallsMade, MadeChild
  <2>3. Input(p) = ReadEnd(1)
    BY <1>1, <2>1, <2>2 DEF Input, read, FilesFollow
  <2> QED BY <1>1, <2>1, <2>3 DEF Reading
<1>3. CASE tool[p] = "grep" /\ held[p] = <<>>
  <2>1. p = "P2" /\ program \in {"pipes2", "pipes3"} /\ ip["P2"] > 1 /\ (program = "pipes3" => ip["P2"] > 4)
    BY <1>1, <1>3, ToolsAre
  <2>2. Called("P2", dup2(READ(1), 0))
    BY <1>1, <2>1, CallsMade
  <2>3. Input(p) = ReadEnd(1)
    BY <1>1, <1>3, <2>1, <2>2 DEF Input, FilesFollow
  <2> QED BY <1>1, <1>3, <2>1, <2>3 DEF Reading
<1>4. CASE tool[p] = "sort"
  <2>1. p = "P3" /\ program = "pipes3" /\ ip["P3"] > 4
    BY <1>1, <1>4, ToolsAre
  <2>2. Called("P3", dup2(READ(2), 0))
    BY <1>1, <2>1, CallsMade
  <2>3. Input(p) = ReadEnd(2)
    BY <1>1, <1>4, <2>1, <2>2 DEF Input, FilesFollow
  <2> QED BY <1>1, <1>4, <2>1, <2>3 DEF Reading
<1> QED BY <1>2, <1>3, <1>4 DEF Reads

(* Who writes to a pipe, and who to the terminal. *)
Sending(p, k) == \/ program = "pipes1" /\ p = "P1" /\ tool[p] = "own" /\ ip[p] = 6 /\ k = 1
                 \/ program \in {"pipes2", "pipes3"} /\ p = "P1" /\ tool[p] = "cat" /\ k = 1
                 \/ program = "pipes3" /\ p = "P2" /\ tool[p] = "grep" /\ k = 2
Printing(p) == \/ program = "pipes1" /\ p = "P2" /\ tool[p] = "own" /\ ip[p] = 4
               \/ program = "pipes2" /\ p = "P2" /\ tool[p] = "grep"
               \/ program = "pipes3" /\ p = "P3" /\ tool[p] = "sorted"

LEMMA WriterIs ==
  ASSUME PipesInd, NEW p \in Processes, Writes(p)
  PROVE  /\ Running(p)
         /\ \/ Printing(p) /\ Output(p) = Tty
            \/ \E k \in Pipe : Sending(p, k) /\ Output(p) = WriteEnd(k)
<1>1. /\ PipesTypeOK /\ Running(p) /\ FilesFollow(p) /\ 1 \in Pipe /\ 2 \in Pipe
      /\ program \in {"pipes1", "pipes2", "pipes3", "main3"} /\ p \in {"P1", "P2", "P3"}
  BY ProgramsAre DEF PipesInd, FilesFit, Writes, At, PipesTypeOK, Pipe, Processes
<1>2. CASE At(p, "write") /\ p = "P1"
  <2>1. program = "pipes1" /\ tool[p] = "own" /\ ip["P1"] = 6 /\ Call(p) = write(WRITE(1))
    BY <1>2, TransfersAre
  <2>2. ~Called("P1", close(WRITE(1))) /\ Called("P1", pipe(1))
    BY <1>1, <2>1, CallsMade
  <2>3. Output(p) = WriteEnd(1)
    BY <1>1, <1>2, <2>1, <2>2 DEF Output, write, FilesFollow, Made
  <2> QED BY <1>1, <1>2, <2>1, <2>3 DEF Sending
<1>3. CASE At(p, "write") /\ p # "P1"
  <2>1. program = "pipes1" /\ tool[p] = "own" /\ p = "P2" /\ ip[p] = 4 /\ Call(p) = write(1)
    BY <1>3, TransfersAre
  <2>2. \A k \in Pipe : ~Called(p, dup2(WRITE(k), 1))
    BY <1>1, <2>1, CallsMade
  <2>3. Output(p) = Tty
    BY <1>1, <2>1, <2>2, OutputToTty DEF Output, write
  <2> QED BY <1>1, <2>1, <2>3 DEF Printing
<1>4. CASE tool[p] = "cat"
  <2>1. p = "P1" /\ program \in {"pipes2", "pipes3"} /\ ip["P1"] > 3 /\ (program = "pipes3" => ip["P1"] > 7)
    BY <1>1, <1>4, ToolsAre
  <2>2. Called("P1", dup2(WRITE(1), 1))
    BY <1>1, <2>1, CallsMade
  <2>3. Output(p) = WriteEnd(1)
    BY <1>1, <1>4, <2>1, <2>2 DEF Output, FilesFollow
  <2> QED BY <1>1, <1>4, <2>1, <2>3 DEF Sending
<1>5. CASE tool[p] = "grep"
  <2>1. p = "P2" /\ program \in {"pipes2", "pipes3"} /\ (program = "pipes3" => ip["P2"] > 6)
    BY <1>1, <1>5, ToolsAre
  <2>2. CASE program = "pipes2"
    <3>1. \A k \in Pipe : ~Called(p, dup2(WRITE(k), 1))
      BY <1>1, <2>1, <2>2, CallsMade
    <3>2. Output(p) = Tty
      BY <1>1, <1>5, <3>1, OutputToTty DEF Output
    <3> QED BY <1>1, <1>5, <2>1, <2>2, <3>2 DEF Printing
  <2>3. CASE program = "pipes3"
    <3>1. Called("P2", dup2(WRITE(2), 1))
      BY <1>1, <2>1, <2>3, CallsMade
    <3>2. Output(p) = WriteEnd(2)
      BY <1>1, <1>5, <2>1, <3>1 DEF Output, FilesFollow
    <3> QED BY <1>1, <1>5, <2>1, <2>3, <3>2 DEF Sending
  <2> QED BY <2>1, <2>2, <2>3
<1>6. CASE tool[p] = "sorted"
  <2>1. p = "P3" /\ program = "pipes3"
    BY <1>1, <1>6, ToolsAre
  <2>2. \A k \in Pipe : ~Called(p, dup2(WRITE(k), 1))
    BY <1>1, <2>1, CallsMade
  <2>3. Output(p) = Tty
    BY <1>1, <1>6, <2>2, OutputToTty DEF Output
  <2> QED BY <1>1, <1>6, <2>1, <2>3 DEF Printing
<1> QED BY <1>2, <1>3, <1>4, <1>5, <1>6 DEF Writes

-----------------------------------------------------------------------------
(* LinesFlow of the values that its variables have: the program, what P1 executes *)
(* and holds, what is in the first pipe, the same of P2 and the second pipe, of   *)
(* P3, and what is on the terminal.                                               *)
SentOf(t1, h1) == IF t1 = "cat" THEN Len(Scores) - Len(h1) ELSE 0
ThroughOf(t1, h1, p1) == SentOf(t1, h1) - Len(p1)
CatPart(t1, h1, p1, t2, h2) ==
  /\ SentOf(t1, h1) \in Nat /\ ThroughOf(t1, h1, p1) \in Nat
  /\ t1 = "cat" => \A i \in 1..Len(h1) : h1[i] = Scores[SentOf(t1, h1) + i]
  /\ \A i \in 1..Len(p1) : p1[i] = Scores[ThroughOf(t1, h1, p1) + i]
  /\ t2 = "own" => h2 = <<>>
SortPart(kept, h2, p2, t3, h3, out) ==
  \E got \in Prefixes(kept) :
    /\ kept = got \o (p2 \o h2)
    /\ t3 = "own" => got = <<>> /\ h3 = <<>>
    /\ t3 = "sort" => got = h3
    /\ IF t3 = "sorted" THEN out \o h3 \in Sortings(got) ELSE out = <<>>
Flow(g, t1, h1, p1, t2, h2, p2, t3, h3, out) ==
  /\ g \in {"pipes2", "pipes3"} => CatPart(t1, h1, p1, t2, h2)
  /\ g = "pipes2" => Kept[ThroughOf(t1, h1, p1)] = out \o h2
  /\ g = "pipes3" => SortPart(Kept[ThroughOf(t1, h1, p1)], h2, p2, t3, h3, out)
  /\ g = "main3" => out = <<>>

LEMMA FlowIs ==
  /\ LinesFlow <=> Flow(program, tool["P1"], held["P1"], pipes[1], tool["P2"], held["P2"], pipes[2],
                        tool["P3"], held["P3"], tty)
  /\ LinesFlow' <=> Flow(program', tool'["P1"], held'["P1"], pipes'[1], tool'["P2"], held'["P2"], pipes'[2],
                         tool'["P3"], held'["P3"], tty')
BY DEF LinesFlow, CatFlows, SortFlows, Sent, Through, Flow, CatPart, SortPart, SentOf, ThroughOf

(* How far grep has come in the file. *)
LEMMA FarEnough ==
  ASSUME NEW t1, NEW h1 \in Seq(Lines), NEW p1 \in Seq(Lines), NEW t2, NEW h2, CatPart(t1, h1, p1, t2, h2)
  PROVE  /\ ThroughOf(t1, h1, p1) \in 0..Len(Scores) /\ SentOf(t1, h1) \in 0..Len(Scores)
         /\ ThroughOf(t1, h1, p1) + Len(p1) = SentOf(t1, h1)
         /\ Len(Scores) \in Nat /\ Len(p1) \in Nat /\ Len(h1) \in Nat
<1>1. Len(Scores) \in Nat /\ Len(p1) \in Nat /\ Len(h1) \in Nat
  BY PipesAssumption
<1> QED BY <1>1 DEF CatPart, SentOf, ThroughOf

LEMMA SortPartOf ==
  ASSUME NEW h2 \in Seq(Lines), NEW p2 \in Seq(Lines), NEW t3, NEW h3, NEW out, NEW got \in Seq(Lines),
         NEW kept, kept = got \o (p2 \o h2), t3 = "own" => got = <<>> /\ h3 = <<>>, t3 = "sort" => got = h3,
         IF t3 = "sorted" THEN out \o h3 \in Sortings(got) ELSE out = <<>>
  PROVE  SortPart(kept, h2, p2, t3, h3, out)
<1>1. p2 \o h2 \in Seq(Lines)
  OBVIOUS
<1>2. got \in Prefixes(kept)
  BY <1>1, PrefixJoined
<1> QED BY <1>2 DEF SortPart

LEMMA SortPartHas ==
  ASSUME NEW h2, NEW p2, NEW t3, NEW h3, NEW out, NEW kept \in Seq(Lines), SortPart(kept, h2, p2, t3, h3, out)
  PROVE  \E got \in Seq(Lines) : /\ kept = got \o (p2 \o h2)
                                 /\ t3 = "own" => got = <<>> /\ h3 = <<>>
                                 /\ t3 = "sort" => got = h3
                                 /\ IF t3 = "sorted" THEN out \o h3 \in Sortings(got) ELSE out = <<>>
BY PrefixLeaves DEF SortPart

LEMMA SortHolds ==
  ASSUME NEW h2, NEW p2, NEW h3, NEW out, NEW kept \in Seq(Lines), SortPart(kept, h2, p2, "sort", h3, out)
  PROVE  kept = h3 \o (p2 \o h2) /\ out = <<>>
BY DEF SortPart

(* grep reads a line, and keeps it or not. *)
LEMMA GrepReads ==
  ASSUME NEW g \in {"pipes2", "pipes3"}, NEW t1, NEW h1 \in Seq(Lines), NEW p1 \in Seq(Lines), p1 # <<>>,
         NEW p2 \in Seq(Lines), NEW t3, NEW h3, NEW out \in Seq(Lines), NEW h2,
         h2 = IF Head(p1) \notin Wanted THEN <<>> ELSE <<Head(p1)>>,
         Flow(g, t1, h1, p1, "grep", <<>>, p2, t3, h3, out)
  PROVE  Flow(g, t1, h1, Tail(p1), "grep", h2, p2, t3, h3, out)
<1> DEFINE n == ThroughOf(t1, h1, p1)
<1>1. CatPart(t1, h1, p1, "grep", <<>>)
  BY DEF Flow
<1>2. /\ n \in 0..Len(Scores) /\ SentOf(t1, h1) \in 0..Len(Scores) /\ n + Len(p1) = SentOf(t1, h1)
      /\ Len(Scores) \in Nat /\ Len(p1) \in Nat
  BY <1>1, FarEnough
<1>3. /\ Tail(p1) \in Seq(Lines) /\ Len(Tail(p1)) = Len(p1) - 1 /\ Len(p1) >= 1 /\ Head(p1) = p1[1]
      /\ Head(p1) \in Lines /\ \A i \in 1..Len(p1) - 1 : Tail(p1)[i] = p1[i + 1]
  OBVIOUS
<1>4. ThroughOf(t1, h1, Tail(p1)) = n + 1 /\ n + 1 \in 1..Len(Scores) /\ (n + 1) - 1 = n
  BY <1>2, <1>3 DEF ThroughOf
<1>5. \A i \in 1..Len(p1) : p1[i] = Scores[n + i]
  BY <1>1 DEF CatPart
<1>6. Head(p1) = Scores[n + 1]
  BY <1>2, <1>3, <1>5
<1>7. Kept[n + 1] = IF Head(p1) \in Wanted THEN Append(Kept[n], Head(p1)) ELSE Kept[n]
  BY <1>4, <1>6, KeptIs
<1>8. CatPart(t1, h1, Tail(p1), "grep", h2)
  <2>1. \A i \in 1..Len(p1) - 1 : Tail(p1)[i] = Scores[(n + 1) + i]
    <3> SUFFICES ASSUME NEW i \in 1..Len(p1) - 1 PROVE Tail(p1)[i] = Scores[(n + 1) + i]
      OBVIOUS
    <3>1. i + 1 \in 1..Len(p1) /\ n + (i + 1) = (n + 1) + i
      BY <1>2, <1>3
    <3>2. Tail(p1)[i] = p1[i + 1]
      BY <1>3
    <3>3. p1[i + 1] = Scores[n + (i + 1)]
      BY <1>5, <3>1
    <3> QED BY <3>1, <3>2, <3>3
  <2>2. ThroughOf(t1, h1, Tail(p1)) \in Nat
    BY <1>2, <1>4
  <2> HIDE DEF n
  <2> QED BY <1>1, <1>3, <1>4, <2>1, <2>2 DEF CatPart
<1> HIDE DEF n
<1>9. CASE g = "pipes2"
  <2>1. Kept[n] = out \o <<>>
    BY <1>9 DEF Flow, n
  <2>2. Kept[n] = out /\ out \o <<>> = out
    BY <2>1
  <2>3. Append(out, Head(p1)) = out \o <<Head(p1)>>
    BY <1>3
  <2>4. Kept[n + 1] = out \o h2
    BY <1>7, <2>2, <2>3
  <2> QED BY <1>4, <1>8, <1>9, <2>4 DEF Flow
<1>10. CASE g = "pipes3"
  <2>0. Kept[n] \in Seq(Lines)
    BY <1>2, KeptGrows
  <2>1. SortPart(Kept[n], <<>>, p2, t3, h3, out)
    BY <1>10 DEF Flow, n
  <2>2. PICK got \in Seq(Lines) : /\ Kept[n] = got \o (p2 \o <<>>)
                                  /\ t3 = "own" => got = <<>> /\ h3 = <<>>
                                  /\ t3 = "sort" => got = h3
                                  /\ IF t3 = "sorted" THEN out \o h3 \in Sortings(got) ELSE out = <<>>
    BY <2>0, <2>1, SortPartHas
  <2>3. p2 \o <<>> = p2 /\ Append(got \o p2, Head(p1)) = got \o (p2 \o <<Head(p1)>>)
    <3>1. p2 \o <<>> = p2 /\ Append(p2, Head(p1)) = p2 \o <<Head(p1)>>
      BY <1>3
    <3>2. Append(got \o p2, Head(p1)) = got \o Append(p2, Head(p1))
      BY <1>3, <2>2, AppendJoined, Zenon
    <3> QED BY <3>1, <3>2
  <2>4. Kept[n + 1] = got \o (p2 \o h2)
    BY <1>7, <2>2, <2>3
  <2>5. h2 \in Seq(Lines)
    BY <1>3
  <2>6. SortPart(Kept[n + 1], h2, p2, t3, h3, out)
    BY <2>2, <2>4, <2>5, SortPartOf
  <2> QED BY <1>4, <1>8, <1>10, <2>6 DEF Flow
<1> QED BY <1>9, <1>10

(* sort reads a line. *)
LEMMA SortReads ==
  ASSUME NEW t1, NEW h1 \in Seq(Lines), NEW p1 \in Seq(Lines), NEW t2, NEW h2 \in Seq(Lines),
         NEW p2 \in Seq(Lines), p2 # <<>>, NEW h3 \in Seq(Lines), NEW out,
         Flow("pipes3", t1, h1, p1, t2, h2, p2, "sort", h3, out)
  PROVE  Flow("pipes3", t1, h1, p1, t2, h2, Tail(p2), "sort", Append(h3, Head(p2)), out)
<1> DEFINE n == ThroughOf(t1, h1, p1)
<1>1. CatPart(t1, h1, p1, t2, h2) /\ SortPart(Kept[n], h2, p2, "sort", h3, out)
  BY DEF Flow
<1>2. n \in 0..Len(Scores) /\ Len(Scores) \in Nat
  BY <1>1, FarEnough
<1> HIDE DEF n
<1>3. Kept[n] \in Seq(Lines)
  BY <1>2, KeptGrows
<1>4. Kept[n] = h3 \o (p2 \o h2) /\ out = <<>>
  BY <1>1, <1>3, SortHolds
<1>5. Tail(p2) \in Seq(Lines) /\ Append(h3, Head(p2)) \in Seq(Lines)
  OBVIOUS
<1>6. h3 \o (p2 \o h2) = Append(h3, Head(p2)) \o (Tail(p2) \o h2)
  BY MovedBetween
<1>7. SortPart(Kept[n], h2, Tail(p2), "sort", Append(h3, Head(p2)), out)
  BY <1>4, <1>5, <1>6, SortPartOf
<1> QED BY <1>1, <1>7 DEF Flow, n

(* sort has read everything and puts its lines in order. *)
LEMMA SortSorts ==
  ASSUME NEW t1, NEW h1 \in Seq(Lines), NEW p1 \in Seq(Lines), NEW t2, NEW h2 \in Seq(Lines),
         NEW p2 \in Seq(Lines), NEW h3 \in Seq(Lines), NEW ordered \in Sortings(h3), NEW out,
         Flow("pipes3", t1, h1, p1, t2, h2, p2, "sort", h3, out)
  PROVE  Flow("pipes3", t1, h1, p1, t2, h2, p2, "sorted", ordered, out)
<1> DEFINE n == ThroughOf(t1, h1, p1)
<1>1. CatPart(t1, h1, p1, t2, h2) /\ SortPart(Kept[n], h2, p2, "sort", h3, out)
  BY DEF Flow
<1>2. n \in 0..Len(Scores) /\ Len(Scores) \in Nat
  BY <1>1, FarEnough
<1> HIDE DEF n
<1>3. Kept[n] \in Seq(Lines)
  BY <1>2, KeptGrows
<1>4. Kept[n] = h3 \o (p2 \o h2) /\ out = <<>>
  BY <1>1, <1>3, SortHolds
<1>5. out \o ordered = ordered
  BY <1>4, SortingsAre
<1>6. SortPart(Kept[n], h2, p2, "sorted", ordered, out)
  BY <1>4, <1>5, SortPartOf
<1> QED BY <1>1, <1>6 DEF Flow, n

(* cat writes a line. *)
LEMMA CatWrites ==
  ASSUME NEW g \in {"pipes2", "pipes3"}, NEW h1 \in Seq(Lines), h1 # <<>>, NEW p1 \in Seq(Lines),
         NEW t2, NEW h2, NEW p2, NEW t3, NEW h3, NEW out,
         Flow(g, "cat", h1, p1, t2, h2, p2, t3, h3, out)
  PROVE  Flow(g, "cat", Tail(h1), Append(p1, Head(h1)), t2, h2, p2, t3, h3, out)
<1> DEFINE n == ThroughOf("cat", h1, p1)
           sent == SentOf("cat", h1)
           more == Append(p1, Head(h1))
<1>1. CatPart("cat", h1, p1, t2, h2)
  BY DEF Flow
<1>2. /\ n \in 0..Len(Scores) /\ sent \in 0..Len(Scores) /\ n + Len(p1) = sent
      /\ Len(Scores) \in Nat /\ Len(p1) \in Nat /\ Len(h1) \in Nat
  BY <1>1, FarEnough
<1>3. /\ Tail(h1) \in Seq(Lines) /\ Len(Tail(h1)) = Len(h1) - 1 /\ Len(h1) >= 1 /\ Head(h1) = h1[1]
      /\ Head(h1) \in Lines /\ \A i \in 1..Len(h1) - 1 : Tail(h1)[i] = h1[i + 1]
  OBVIOUS
<1>4. /\ Len(more) = Len(p1) + 1 /\ more[Len(p1) + 1] = Head(h1)
      /\ \A i \in 1..Len(p1) : more[i] = p1[i]
  BY <1>3
<1> HIDE DEF more
<1>5. SentOf("cat", Tail(h1)) = sent + 1 /\ ThroughOf("cat", Tail(h1), more) = n
  BY <1>2, <1>3, <1>4 DEF SentOf, ThroughOf
<1>6. /\ \A i \in 1..Len(p1) : p1[i] = Scores[n + i]
      /\ \A i \in 1..Len(h1) : h1[i] = Scores[sent + i]
      /\ t2 = "own" => h2 = <<>>
  BY <1>1 DEF CatPart
<1> HIDE DEF n, sent
<1>7. ASSUME NEW i \in 1..Len(more)
      PROVE  more[i] = Scores[n + i]
  <2>1. CASE i \in 1..Len(p1)
    BY <1>4, <1>6, <2>1
  <2>2. CASE i = Len(p1) + 1
    <3>1. 1 \in 1..Len(h1) /\ n + i = sent + 1
      BY <1>2, <1>3, <2>2
    <3>2. h1[1] = Scores[sent + 1]
      BY <1>6, <3>1
    <3> QED BY <1>3, <1>4, <2>2, <3>1, <3>2
  <2> QED BY <1>2, <1>4, <2>1, <2>2
<1>8. ASSUME NEW i \in 1..Len(Tail(h1))
      PROVE  Tail(h1)[i] = Scores[(sent + 1) + i]
  <2>1. i \in 1..Len(h1) - 1 /\ i + 1 \in 1..Len(h1) /\ sent + (i + 1) = (sent + 1) + i
    BY <1>2, <1>3
  <2>2. Tail(h1)[i] = h1[i + 1]
    BY <1>3, <2>1
  <2>3. h1[i + 1] = Scores[sent + (i + 1)]
    BY <1>6, <2>1
  <2> QED BY <2>1, <2>2, <2>3
<1>9. CatPart("cat", Tail(h1), more, t2, h2)
  <2>1. sent + 1 \in Nat /\ n \in Nat
    BY <1>2
  <2> QED BY <1>5, <1>6, <1>7, <1>8, <2>1 DEF CatPart
<1> QED BY <1>5, <1>9 DEF Flow, n, more

(* grep writes a line, to the terminal or to sort. *)
LEMMA GrepPrints ==
  ASSUME NEW t1, NEW h1, NEW p1, NEW h2 \in Seq(Lines), h2 # <<>>, NEW p2, NEW t3, NEW h3, NEW out \in Seq(Lines),
         Flow("pipes2", t1, h1, p1, "grep", h2, p2, t3, h3, out)
  PROVE  Flow("pipes2", t1, h1, p1, "grep", Tail(h2), p2, t3, h3, Append(out, Head(h2)))
<1>1. CatPart(t1, h1, p1, "grep", Tail(h2))
  BY DEF Flow, CatPart
<1>2. Append(out, Head(h2)) \o Tail(h2) = out \o h2
  BY Moved
<1> QED BY <1>1, <1>2 DEF Flow

LEMMA GrepWrites ==
  ASSUME NEW t1, NEW h1 \in Seq(Lines), NEW p1 \in Seq(Lines), NEW h2 \in Seq(Lines), h2 # <<>>,
         NEW p2 \in Seq(Lines), NEW t3, NEW h3, NEW out,
         Flow("pipes3", t1, h1, p1, "grep", h2, p2, t3, h3, out)
  PROVE  Flow("pipes3", t1, h1, p1, "grep", Tail(h2), Append(p2, Head(h2)), t3, h3, out)
<1> DEFINE n == ThroughOf(t1, h1, p1)
<1>1. CatPart(t1, h1, p1, "grep", h2) /\ SortPart(Kept[n], h2, p2, t3, h3, out)
  BY DEF Flow
<1>2. n \in 0..Len(Scores) /\ Len(Scores) \in Nat
  BY <1>1, FarEnough
<1>3. CatPart(t1, h1, p1, "grep", Tail(h2))
  BY <1>1 DEF CatPart
<1> HIDE DEF n
<1>4. Kept[n] \in Seq(Lines)
  BY <1>2, KeptGrows
<1>5. PICK got \in Seq(Lines) : /\ Kept[n] = got \o (p2 \o h2)
                                /\ t3 = "own" => got = <<>> /\ h3 = <<>>
                                /\ t3 = "sort" => got = h3
                                /\ IF t3 = "sorted" THEN out \o h3 \in Sortings(got) ELSE out = <<>>
  BY <1>1, <1>4, SortPartHas
<1>6. Append(p2, Head(h2)) \o Tail(h2) = p2 \o h2
  BY Moved
<1>7. Append(p2, Head(h2)) \in Seq(Lines) /\ Tail(h2) \in Seq(Lines)
  OBVIOUS
<1>8. SortPart(Kept[n], Tail(h2), Append(p2, Head(h2)), t3, h3, out)
  BY <1>5, <1>6, <1>7, SortPartOf
<1> QED BY <1>3, <1>8 DEF Flow, n

(* sort writes a line. *)
LEMMA SortPrints ==
  ASSUME NEW t1, NEW h1, NEW p1, NEW t2, NEW h2, NEW p2,
         NEW h3 \in Seq(Lines), h3 # <<>>, NEW out \in Seq(Lines),
         Flow("pipes3", t1, h1, p1, t2, h2, p2, "sorted", h3, out)
  PROVE  Flow("pipes3", t1, h1, p1, t2, h2, p2, "sorted", Tail(h3), Append(out, Head(h3)))
<1>1. Append(out, Head(h3)) \o Tail(h3) = out \o h3
  BY Moved
<1> QED BY <1>1 DEF Flow, SortPart

(* A process becomes cat, grep or sort. *)
LEMMA CatStarts ==
  ASSUME NEW g \in {"pipes2", "pipes3"}, NEW h1, NEW p1 \in Seq(Lines), NEW t2, NEW h2, NEW p2, NEW t3, NEW h3,
         NEW out, Flow(g, "own", h1, p1, t2, h2, p2, t3, h3, out)
  PROVE  Flow(g, "cat", Scores, p1, t2, h2, p2, t3, h3, out)
<1>0. Len(Scores) \in Nat /\ Len(p1) \in Nat /\ Len(Scores) - Len(Scores) = 0 /\ \A i \in 1..Len(Scores) : 0 + i = i
  BY PipesAssumption
<1>1. /\ SentOf("own", h1) = 0 /\ SentOf("cat", Scores) = 0
      /\ ThroughOf("cat", Scores, p1) = ThroughOf("own", h1, p1)
  BY <1>0 DEF SentOf, ThroughOf
<1>2. CatPart("own", h1, p1, t2, h2)
  BY DEF Flow
<1>3. CatPart("cat", Scores, p1, t2, h2)
  BY <1>0, <1>1, <1>2 DEF CatPart
<1> QED BY <1>1, <1>3 DEF Flow

LEMMA GrepStarts ==
  ASSUME NEW g, NEW t1, NEW h1, NEW p1, NEW h2, NEW p2, NEW t3, NEW h3, NEW out,
         g \in {"pipes2", "pipes3"}, Flow(g, t1, h1, p1, "own", h2, p2, t3, h3, out)
  PROVE  Flow(g, t1, h1, p1, "grep", <<>>, p2, t3, h3, out)
<1>1. CatPart(t1, h1, p1, "own", h2) /\ h2 = <<>>
  BY DEF Flow, CatPart
<1>2. CatPart(t1, h1, p1, "grep", <<>>)
  BY <1>1 DEF CatPart
<1> QED BY <1>1, <1>2 DEF Flow

LEMMA SortStarts ==
  ASSUME NEW t1, NEW h1, NEW p1, NEW t2, NEW h2, NEW p2, NEW h3, NEW out,
         Flow("pipes3", t1, h1, p1, t2, h2, p2, "own", h3, out)
  PROVE  Flow("pipes3", t1, h1, p1, t2, h2, p2, "sort", <<>>, out)
BY DEF Flow, SortPart

(* The steps that move lines, by who takes them. *)
LEMMA NamesAre ==
  /\ "P1" \in Processes /\ "P2" \in Processes /\ "P3" \in Processes
  /\ 1 \in Pipe /\ 2 \in Pipe /\ Processes = {"P1", "P2", "P3"} /\ Pipe = {1, 2}
BY DEF Processes, Pipe

LEMMA ReadLineIs ==
  ASSUME PipesInd, NEW p \in Processes, ReadLine(p)
  PROVE  \E k \in Pipe :
           /\ Reading(p, k) /\ Running(p) /\ pipes[k] # <<>>
           /\ pipes'[k] = Tail(pipes[k]) /\ \A j \in Pipe \ {k} : pipes'[j] = pipes[j]
           /\ held'[p] = IF tool[p] = "sort" THEN Append(held[p], Head(pipes[k]))
                         ELSE IF tool[p] = "grep" /\ Head(pipes[k]) \notin Wanted THEN <<>>
                         ELSE <<Head(pipes[k])>>
           /\ \A q \in Processes \ {p} : held'[q] = held[q]
<1>1. PICK k \in Pipe : Reading(p, k) /\ Input(p) = ReadEnd(k) /\ Running(p)
  BY ReaderIs DEF ReadLine
<1>2. PICK j \in Pipe :
        /\ Input(p) = ReadEnd(j) /\ pipes[j] # <<>> /\ pipes' = [pipes EXCEPT ![j] = Tail(pipes[j])]
        /\ held' = [held EXCEPT ![p] = IF tool[p] = "sort" THEN Append(held[p], Head(pipes[j]))
                                       ELSE IF tool[p] = "grep" /\ Head(pipes[j]) \notin Wanted THEN <<>>
                                       ELSE <<Head(pipes[j])>>]
  BY DEF ReadLine
<1>3. j = k
  BY <1>1, <1>2, FilesDiffer
<1>4. DOMAIN held = Processes /\ DOMAIN pipes = Pipe
  BY DEF PipesInd, PipesTypeOK
<1> QED BY <1>1, <1>2, <1>3, <1>4

LEMMA ReadEOFIs ==
  ASSUME PipesInd, NEW p \in Processes, ReadEOF(p)
  PROVE  \E k \in Pipe :
           /\ Reading(p, k) /\ Running(p) /\ pipes[k] = <<>> /\ Writers(k) = {}
           /\ tool'[p] = (IF tool[p] = "sort" THEN "sorted" ELSE tool[p]) /\ held'[p] \in AtEOF(p)
           /\ \A q \in Processes \ {p} : held'[q] = held[q] /\ tool'[q] = tool[q]
<1>1. PICK k \in Pipe : Reading(p, k) /\ Input(p) = ReadEnd(k) /\ Running(p)
  BY ReaderIs DEF ReadEOF
<1>2. PICK j \in Pipe : Input(p) = ReadEnd(j) /\ pipes[j] = <<>> /\ Writers(j) = {}
  BY DEF ReadEOF
<1>3. j = k
  BY <1>1, <1>2, FilesDiffer
<1>4. DOMAIN held = Processes /\ DOMAIN tool = Processes
  BY DEF PipesInd, PipesTypeOK
<1>5. tool' = [tool EXCEPT ![p] = IF tool[p] = "sort" THEN "sorted" ELSE tool[p]]
  BY DEF ReadEOF
<1>6. PICK lines \in AtEOF(p) : held' = [held EXCEPT ![p] = lines]
  BY DEF ReadEOF
<1>7. held'[p] \in AtEOF(p) /\ \A q \in Processes \ {p} : held'[q] = held[q] /\ tool'[q] = tool[q]
  BY <1>4, <1>5, <1>6
<1>8. tool'[p] = IF tool[p] = "sort" THEN "sorted" ELSE tool[p]
  BY <1>4, <1>5
<1> QED BY <1>1, <1>2, <1>3, <1>7, <1>8

LEMMA WriteLineIs ==
  ASSUME PipesInd, Loaded, NEW p \in Processes, WriteLine(p)
  PROVE  /\ Running(p) /\ held[p] # <<>> /\ held'[p] = Tail(held[p])
         /\ \A q \in Processes \ {p} : held'[q] = held[q]
         /\ \/ Printing(p) /\ tty' = Append(tty, Head(held[p])) /\ pipes' = pipes
            \/ \E k \in Pipe : /\ Sending(p, k) /\ tty' = tty
                               /\ pipes'[k] = Append(pipes[k], Head(held[p]))
                               /\ \A j \in Pipe \ {k} : pipes'[j] = pipes[j]
<1>1. Writes(p) /\ PipesTypeOK
  BY DEF WriteLine, PipesInd
<1>2. held[p] # <<>> /\ DOMAIN held = Processes /\ DOMAIN pipes = Pipe
  BY <1>1, ReadyToWrite DEF PipesTypeOK
<1>3. held' = [held EXCEPT ![p] = Tail(held[p])]
  BY DEF WriteLine
<1>4. CASE Printing(p) /\ Output(p) = Tty
  <2>1. tty' = Append(tty, Head(held[p])) /\ pipes' = pipes
    BY <1>4, FilesDiffer DEF WriteLine
  <2> QED BY <1>1, <1>2, <1>3, <1>4, <2>1, WriterIs
<1>5. CASE \E k \in Pipe : Sending(p, k) /\ Output(p) = WriteEnd(k)
  <2>1. PICK k \in Pipe : Sending(p, k) /\ Output(p) = WriteEnd(k)
    BY <1>5
  <2>2. PICK j \in Pipe : /\ Output(p) = WriteEnd(j) /\ tty' = tty
                          /\ pipes' = [pipes EXCEPT ![j] = Append(pipes[j], Head(held[p]))]
    BY <2>1, FilesDiffer DEF WriteLine
  <2>3. j = k
    BY <2>1, <2>2, FilesDiffer
  <2>4. pipes'[k] = Append(pipes[k], Head(held[p])) /\ \A i \in Pipe \ {k} : pipes'[i] = pipes[i]
    BY <1>2, <2>2, <2>3
  <2> QED BY <1>1, <1>2, <1>3, <2>1, <2>2, <2>4, WriterIs
<1> QED BY <1>1, <1>4, <1>5, WriterIs

LEMMA BrokenPipeIs ==
  ASSUME PipesInd, NEW p \in Processes, BrokenPipe(p)
  PROVE  \E k \in Pipe : Sending(p, k) /\ Readers(k) = {}
<1>1. PICK k \in Pipe : Output(p) = WriteEnd(k) /\ Readers(k) = {}
  BY DEF BrokenPipe
<1>2. PICK j \in Pipe : Sending(p, j) /\ Output(p) = WriteEnd(j)
  BY <1>1, WriterIs, FilesDiffer DEF BrokenPipe
<1> QED BY <1>1, <1>2, FilesDiffer

LEMMA ExecIs ==
  ASSUME PipesInd, NEW p \in Processes, ExecTool(p)
  PROVE  /\ tool[p] = "own" /\ Running(p)
         /\ \/ program \in {"pipes2", "pipes3"} /\ p = "P1" /\ tool'[p] = "cat" /\ held'[p] = Scores
            \/ program \in {"pipes2", "pipes3"} /\ p = "P2" /\ tool'[p] = "grep" /\ held'[p] = <<>>
            \/ program = "pipes3" /\ p = "P3" /\ tool'[p] = "sort" /\ held'[p] = <<>>
         /\ \A q \in Processes \ {p} : held'[q] = held[q] /\ tool'[q] = tool[q]
<1>1. PipesTypeOK /\ program \in {"pipes1", "pipes2", "pipes3", "main3"}
  BY ProgramsAre DEF PipesInd, PipesTypeOK
<1>2. Running(p) /\ tool[p] = "own" /\ ip[p] \in 1..Len(Code(p)) /\ Call(p) = Code(p)[ip[p]] /\ Call(p).op = "exec"
  BY <1>1, AtCall DEF ExecTool, Call
<1>3. <<p, ip[p], Call(p).tool>> \in ExecTable[program]
  BY <1>1, <1>2, CodeIsTabled DEF Tabled, PipesTypeOK
<1> DEFINE t == Call(p).tool
<1>4. \/ program \in {"pipes2", "pipes3"} /\ p = "P1" /\ t = "cat"
      \/ program \in {"pipes2", "pipes3"} /\ p = "P2" /\ t = "grep"
      \/ program = "pipes3" /\ p = "P3" /\ t = "sort"
  BY <1>1, <1>3 DEF ExecTable
<1>5. tool' = [tool EXCEPT ![p] = t] /\ held' = [held EXCEPT ![p] = IF t = "cat" THEN Scores ELSE <<>>]
  BY DEF ExecTool
<1>6. DOMAIN held = Processes /\ DOMAIN tool = Processes
  BY <1>1 DEF PipesTypeOK
<1> HIDE DEF t
<1> QED BY <1>2, <1>4, <1>5, <1>6

(* The lines flow from file to terminal at every step. *)
LEMMA FlowStays ==
  ASSUME LinesFlow, UNCHANGED <<program, tool, held, pipes, tty>>
  PROVE  LinesFlow'
BY FlowIs

LEMMA FlowTypes ==
  ASSUME PipesInd
  PROVE  /\ \A p \in {"P1", "P2", "P3"} : held[p] \in Seq(Lines)
         /\ pipes[1] \in Seq(Lines) /\ pipes[2] \in Seq(Lines) /\ tty \in Seq(Lines)
         /\ program \in {"pipes1", "pipes2", "pipes3", "main3"}
         /\ tool["P1"] \in {"own", "cat"} /\ tool["P2"] \in {"own", "grep"}
         /\ tool["P3"] \in {"own", "sort", "sorted"}
BY NamesAre, ProgramsAre, ToolsAre DEF PipesInd, PipesTypeOK

LEMMA FlowExecs ==
  ASSUME PipesInd, LinesFlow, NEW p \in Processes, ExecTool(p)
  PROVE  LinesFlow'
<1>1. UNCHANGED <<program, pipes, tty>>
  BY DEF ExecTool
<1>2. tool[p] = "own" /\ \A q \in Processes \ {p} : held'[q] = held[q] /\ tool'[q] = tool[q]
  BY ExecIs
<1>3. Flow(program, tool["P1"], held["P1"], pipes[1], tool["P2"], held["P2"], pipes[2],
           tool["P3"], held["P3"], tty)
  BY FlowIs
<1>4. CASE program \in {"pipes2", "pipes3"} /\ p = "P1" /\ tool'[p] = "cat" /\ held'[p] = Scores
  <2>1. Flow(program, "cat", Scores, pipes[1], tool["P2"], held["P2"], pipes[2], tool["P3"], held["P3"], tty)
    BY <1>2, <1>3, <1>4, FlowTypes, CatStarts
  <2> QED BY <1>1, <1>2, <1>4, <2>1, NamesAre, FlowIs
<1>5. CASE program \in {"pipes2", "pipes3"} /\ p = "P2" /\ tool'[p] = "grep" /\ held'[p] = <<>>
  <2>1. Flow(program, tool["P1"], held["P1"], pipes[1], "grep", <<>>, pipes[2], tool["P3"], held["P3"], tty)
    BY <1>2, <1>3, <1>5, GrepStarts
  <2> QED BY <1>1, <1>2, <1>5, <2>1, NamesAre, FlowIs
<1>6. CASE program = "pipes3" /\ p = "P3" /\ tool'[p] = "sort" /\ held'[p] = <<>>
  <2>1. Flow("pipes3", tool["P1"], held["P1"], pipes[1], tool["P2"], held["P2"], pipes[2], "sort", <<>>, tty)
    BY <1>2, <1>3, <1>6, SortStarts
  <2> QED BY <1>1, <1>2, <1>6, <2>1, NamesAre, FlowIs
<1> QED BY <1>4, <1>5, <1>6, ExecIs

(* Nothing is said of the lines of pipes1 here. *)
LEMMA FlowElsewhere ==
  ASSUME program = "pipes1", UNCHANGED program
  PROVE  LinesFlow'
BY DEF LinesFlow

LEMMA FlowReads ==
  ASSUME PipesInd, LinesFlow, NEW p \in Processes, ReadLine(p)
  PROVE  LinesFlow'
<1>1. UNCHANGED <<program, tool, tty>>
  BY DEF ReadLine
<1>2. PICK k \in Pipe :
        /\ Reading(p, k) /\ Running(p) /\ pipes[k] # <<>>
        /\ pipes'[k] = Tail(pipes[k]) /\ \A j \in Pipe \ {k} : pipes'[j] = pipes[j]
        /\ held'[p] = IF tool[p] = "sort" THEN Append(held[p], Head(pipes[k]))
                      ELSE IF tool[p] = "grep" /\ Head(pipes[k]) \notin Wanted THEN <<>>
                      ELSE <<Head(pipes[k])>>
        /\ \A q \in Processes \ {p} : held'[q] = held[q]
  BY ReadLineIs
<1>3. Flow(program, tool["P1"], held["P1"], pipes[1], tool["P2"], held["P2"], pipes[2],
           tool["P3"], held["P3"], tty)
  BY FlowIs
<1>4. CASE program = "pipes1"
  BY <1>1, <1>4, FlowElsewhere
<1>5. CASE program \in {"pipes2", "pipes3"} /\ p = "P2" /\ tool[p] = "grep" /\ held[p] = <<>> /\ k = 1
  <2>1. held'["P2"] = IF Head(pipes[1]) \notin Wanted THEN <<>> ELSE <<Head(pipes[1])>>
    BY <1>2, <1>5
  <2>2. Flow(program, tool["P1"], held["P1"], Tail(pipes[1]), "grep", held'["P2"], pipes[2],
             tool["P3"], held["P3"], tty)
    BY <1>2, <1>3, <1>5, <2>1, FlowTypes, GrepReads
  <2>3. /\ held'["P1"] = held["P1"] /\ held'["P3"] = held["P3"] /\ pipes'[1] = Tail(pipes[1])
        /\ pipes'[2] = pipes[2]
    BY <1>2, <1>5, NamesAre
  <2> QED BY <1>1, <1>5, <2>2, <2>3, FlowIs
<1>6. CASE program = "pipes3" /\ p = "P3" /\ tool[p] = "sort" /\ k = 2
  <2>1. held'["P3"] = Append(held["P3"], Head(pipes[2]))
    BY <1>2, <1>6
  <2>2. Flow("pipes3", tool["P1"], held["P1"], pipes[1], tool["P2"], held["P2"], Tail(pipes[2]),
             "sort", Append(held["P3"], Head(pipes[2])), tty)
    BY <1>2, <1>3, <1>6, FlowTypes, SortReads
  <2>3. /\ held'["P1"] = held["P1"] /\ held'["P2"] = held["P2"] /\ pipes'[2] = Tail(pipes[2])
        /\ pipes'[1] = pipes[1]
    BY <1>2, <1>6, NamesAre
  <2> QED BY <1>1, <1>6, <2>1, <2>2, <2>3, FlowIs
<1> QED BY <1>2, <1>4, <1>5, <1>6 DEF Reading

LEMMA FlowEnds ==
  ASSUME PipesInd, LinesFlow, NEW p \in Processes, ReadEOF(p)
  PROVE  LinesFlow'
<1>1. UNCHANGED <<program, pipes, tty>>
  BY DEF ReadEOF
<1>2. PICK k \in Pipe :
        /\ Reading(p, k) /\ Running(p) /\ pipes[k] = <<>> /\ Writers(k) = {}
        /\ tool'[p] = (IF tool[p] = "sort" THEN "sorted" ELSE tool[p]) /\ held'[p] \in AtEOF(p)
        /\ \A q \in Processes \ {p} : held'[q] = held[q] /\ tool'[q] = tool[q]
  BY ReadEOFIs
<1>3. Flow(program, tool["P1"], held["P1"], pipes[1], tool["P2"], held["P2"], pipes[2],
           tool["P3"], held["P3"], tty)
  BY FlowIs
<1>4. CASE program = "pipes1"
  BY <1>1, <1>4, FlowElsewhere
<1>5. CASE program \in {"pipes2", "pipes3"} /\ p = "P2" /\ tool[p] = "grep"
  <2>1. AtEOF(p) = {held[p]}
    BY <1>5 DEF AtEOF
  <2>2. \A q \in {"P1", "P2", "P3"} : held'[q] = held[q] /\ tool'[q] = tool[q]
    BY <1>2, <1>5, <2>1, NamesAre
  <2> QED BY <1>1, <1>3, <2>2, FlowIs
<1>6. CASE program = "pipes3" /\ p = "P3" /\ tool[p] = "sort"
  <2>1. AtEOF(p) = Sortings(held["P3"])
    BY <1>6 DEF AtEOF
  <2>2. PICK ordered \in Sortings(held["P3"]) : held'["P3"] = ordered
    BY <1>2, <1>6, <2>1
  <2>3. Flow("pipes3", tool["P1"], held["P1"], pipes[1], tool["P2"], held["P2"], pipes[2],
             "sorted", ordered, tty)
    BY <1>3, <1>6, FlowTypes, SortSorts
  <2>4. /\ held'["P1"] = held["P1"] /\ held'["P2"] = held["P2"] /\ tool'["P3"] = "sorted"
        /\ tool'["P1"] = tool["P1"] /\ tool'["P2"] = tool["P2"]
    BY <1>2, <1>6, NamesAre
  <2> QED BY <1>1, <1>6, <2>2, <2>3, <2>4, FlowIs
<1> QED BY <1>2, <1>4, <1>5, <1>6 DEF Reading

LEMMA FlowWrites ==
  ASSUME PipesInd, Loaded, LinesFlow, NEW p \in Processes, WriteLine(p)
  PROVE  LinesFlow'
<1>1. UNCHANGED <<program, tool>>
  BY DEF WriteLine
<1>2. /\ Running(p) /\ held[p] # <<>> /\ held'[p] = Tail(held[p])
      /\ \A q \in Processes \ {p} : held'[q] = held[q]
      /\ \/ Printing(p) /\ tty' = Append(tty, Head(held[p])) /\ pipes' = pipes
         \/ \E k \in Pipe : /\ Sending(p, k) /\ tty' = tty
                            /\ pipes'[k] = Append(pipes[k], Head(held[p]))
                            /\ \A j \in Pipe \ {k} : pipes'[j] = pipes[j]
  BY WriteLineIs
<1>3. Flow(program, tool["P1"], held["P1"], pipes[1], tool["P2"], held["P2"], pipes[2],
           tool["P3"], held["P3"], tty)
  BY FlowIs
<1>4. CASE program = "pipes1"
  BY <1>1, <1>4, FlowElsewhere
<1>5. CASE Printing(p) /\ program # "pipes1"
  <2>1. tty' = Append(tty, Head(held[p])) /\ pipes' = pipes
    BY <1>2, <1>5 DEF Printing, Sending
  <2>2. CASE program = "pipes2" /\ p = "P2" /\ tool[p] = "grep"
    <3>1. Flow("pipes2", tool["P1"], held["P1"], pipes[1], "grep", Tail(held["P2"]), pipes[2],
               tool["P3"], held["P3"], Append(tty, Head(held["P2"])))
      BY <1>2, <1>3, <2>2, FlowTypes, GrepPrints
    <3>2. held'["P1"] = held["P1"] /\ held'["P3"] = held["P3"]
      BY <1>2, <2>2, NamesAre
    <3> QED BY <1>1, <1>2, <2>1, <2>2, <3>1, <3>2, FlowIs
  <2>3. CASE program = "pipes3" /\ p = "P3" /\ tool[p] = "sorted"
    <3>1. Flow("pipes3", tool["P1"], held["P1"], pipes[1], tool["P2"], held["P2"], pipes[2],
               "sorted", Tail(held["P3"]), Append(tty, Head(held["P3"])))
      BY <1>2, <1>3, <2>3, FlowTypes, SortPrints
    <3>2. held'["P1"] = held["P1"] /\ held'["P2"] = held["P2"]
      BY <1>2, <2>3, NamesAre
    <3> QED BY <1>1, <1>2, <2>1, <2>3, <3>1, <3>2, FlowIs
  <2> QED BY <1>5, <2>2, <2>3 DEF Printing
<1>6. CASE ~Printing(p) /\ program # "pipes1"
  <2>1. PICK k \in Pipe : /\ Sending(p, k) /\ tty' = tty
                          /\ pipes'[k] = Append(pipes[k], Head(held[p]))
                          /\ \A j \in Pipe \ {k} : pipes'[j] = pipes[j]
    BY <1>2, <1>6
  <2>2. CASE program \in {"pipes2", "pipes3"} /\ p = "P1" /\ tool[p] = "cat" /\ k = 1
    <3>1. Flow(program, "cat", Tail(held["P1"]), Append(pipes[1], Head(held["P1"])), tool["P2"], held["P2"],
               pipes[2], tool["P3"], held["P3"], tty)
      BY <1>2, <1>3, <2>2, FlowTypes, CatWrites
    <3>2. /\ held'["P2"] = held["P2"] /\ held'["P3"] = held["P3"] /\ pipes'[2] = pipes[2]
          /\ pipes'[1] = Append(pipes[1], Head(held["P1"]))
      BY <1>2, <2>1, <2>2, NamesAre
    <3> QED BY <1>1, <1>2, <2>1, <2>2, <3>1, <3>2, FlowIs
  <2>3. CASE program = "pipes3" /\ p = "P2" /\ tool[p] = "grep" /\ k = 2
    <3>1. Flow("pipes3", tool["P1"], held["P1"], pipes[1], "grep", Tail(held["P2"]),
               Append(pipes[2], Head(held["P2"])), tool["P3"], held["P3"], tty)
      BY <1>2, <1>3, <2>3, FlowTypes, GrepWrites
    <3>2. /\ held'["P1"] = held["P1"] /\ held'["P3"] = held["P3"] /\ pipes'[1] = pipes[1]
          /\ pipes'[2] = Append(pipes[2], Head(held["P2"]))
      BY <1>2, <2>1, <2>3, NamesAre
    <3> QED BY <1>1, <1>2, <2>1, <2>3, <3>1, <3>2, FlowIs
  <2> QED BY <1>6, <2>1, <2>2, <2>3 DEF Sending
<1> QED BY <1>4, <1>5, <1>6

LEMMA FlowSteps ==
  ASSUME PipesInd, Loaded, LinesFlow, PipesNext
  PROVE  LinesFlow'
<1>1. CASE UNCHANGED pipesVars
  BY <1>1, FlowStays DEF pipesVars
<1>2. ASSUME NEW p \in Processes, Step(p) \/ Kill(p)
      PROVE  LinesFlow'
  <2>1. CASE \/ MakePipe(p) \/ ForkChild(p) \/ CannotFork(p) \/ Close(p) \/ Dup2(p)
             \/ CannotExec(p) \/ Sleep(p) \/ Wait(p) \/ Exit(p) \/ BrokenPipe(p) \/ Kill(p)
    <3>1. UNCHANGED <<program, tool, held, pipes, tty>>
      BY <2>1 DEF MakePipe, ForkChild, CannotFork, Close, Dup2, CannotExec, Sleep, Wait, Exit, BrokenPipe, Kill
    <3> QED BY <3>1, FlowStays
  <2> QED BY <1>2, <2>1, FlowExecs, FlowReads, FlowEnds, FlowWrites DEF Step
<1> QED BY <1>1, <1>2 DEF PipesNext

LEMMA FlowStart ==
  ASSUME PipesInit
  PROVE  LinesFlow
<1>1. /\ tool["P1"] = "own" /\ tool["P2"] = "own" /\ tool["P3"] = "own" /\ tty = <<>>
      /\ held["P2"] = <<>> /\ held["P3"] = <<>> /\ pipes[1] = <<>> /\ pipes[2] = <<>>
  BY NamesAre DEF PipesInit
<1>2. Sent = 0 /\ Through = 0
  <2>1. Sent = 0
    BY <1>1 DEF Sent
  <2>2. Len(pipes[1]) = 0
    BY <1>1
  <2> QED BY <2>1, <2>2 DEF Through
<1>3. CatFlows
  BY <1>1, <1>2 DEF CatFlows
<1>4. Kept[0] = <<>> /\ <<>> \o <<>> = <<>> /\ <<>> \o (<<>> \o <<>>) = <<>>
  BY KeptIs
<1>5. Kept[Through] = tty \o held["P2"]
  BY <1>1, <1>2, <1>4
<1>6. SortFlows
  <2>1. <<>> \in Prefixes(<<>>)
    <3>1. <<>> \in Seq(Lines)
      OBVIOUS
    <3> QED BY <1>4, <3>1, PrefixJoined
  <2> HIDE DEF Kept
  <2>2. Kept[Through] = <<>>
    BY <1>2, <1>4
  <2> QED BY <1>1, <1>4, <2>1, <2>2 DEF SortFlows
<1> QED BY <1>1, <1>3, <1>5, <1>6 DEF LinesFlow

-----------------------------------------------------------------------------
(* A step makes the next call of its process or none, and never passes an exec. *)
LEMMA NextCall ==
  ASSUME PipesTypeOK, NEW p \in Processes, Step(p) \/ Kill(p)
  PROVE  /\ UNCHANGED program /\ Running(p) /\ (UNCHANGED ip \/ MakesCall(p))
         /\ MakesCall(p) => /\ Call(p).op # "exec"
                            /\ Call(p).op = "fork" => ForkChild(p) \/ CannotFork(p)
                            /\ Call(p).op = "write" => WriteLine(p)
<1>1. ASSUME NEW op \in {"pipe", "fork", "close", "dup2", "sleep", "wait"}, At(p, op),
             Advance(p) \/ UNCHANGED ip
      PROVE  /\ Running(p) /\ (UNCHANGED ip \/ MakesCall(p))
             /\ MakesCall(p) => Call(p).op = op
  <2>1. Running(p) /\ tool[p] = "own" /\ ip[p] <= Len(Code(p)) /\ Call(p).op = op
    BY <1>1, AtCall
  <2> QED BY <1>1, <2>1 DEF MakesCall
<1>2. ASSUME UNCHANGED ip PROVE ~MakesCall(p)
  BY <1>2, AdvanceIs DEF MakesCall, PipesTypeOK
<1>3. CASE MakePipe(p) \/ Close(p) \/ Dup2(p) \/ Sleep(p) \/ Wait(p)
  <2>1. UNCHANGED program /\ Advance(p) /\ \E op \in {"pipe", "close", "dup2", "sleep", "wait"} : At(p, op)
    BY <1>3 DEF MakePipe, Close, Dup2, Sleep, Wait
  <2> QED BY <1>1, <2>1
<1>4. CASE ForkChild(p) \/ CannotFork(p)
  <2>1. UNCHANGED program /\ At(p, "fork") /\ (Advance(p) \/ UNCHANGED ip)
    BY <1>4 DEF ForkChild, CannotFork
  <2> QED BY <1>1, <1>4, <2>1
<1>5. CASE ExecTool(p) \/ CannotExec(p) \/ Exit(p) \/ BrokenPipe(p) \/ Kill(p)
  <2>1. UNCHANGED <<program, ip>> /\ Running(p)
    BY <1>5 DEF ExecTool, CannotExec, Exit, BrokenPipe, Kill, At, Writes
  <2> QED BY <1>2, <2>1
<1>6. CASE ReadLine(p) \/ ReadEOF(p)
  <2>1. UNCHANGED program /\ Running(p) /\ Proceed(p) /\ (tool[p] = "own" => At(p, "read"))
    BY <1>6 DEF ReadLine, ReadEOF, Reads, At
  <2>2. CASE tool[p] = "own"
    <3>1. MakesCall(p) /\ Call(p).op = "read"
      BY <2>1, <2>2, CallsOnly DEF Proceed
    <3> QED BY <2>1, <3>1
  <2>3. CASE tool[p] # "own"
    BY <1>2, <2>1, <2>3 DEF Proceed
  <2> QED BY <2>2, <2>3
<1>7. CASE WriteLine(p)
  <2>1. UNCHANGED program /\ Running(p) /\ Proceed(p) /\ (tool[p] = "own" => At(p, "write"))
    BY <1>7 DEF WriteLine, Writes, At
  <2>2. CASE tool[p] = "own"
    <3>1. MakesCall(p) /\ Call(p).op = "write"
      BY <2>1, <2>2, CallsOnly DEF Proceed
    <3> QED BY <1>7, <2>1, <3>1
  <2>3. CASE tool[p] # "own"
    BY <1>2, <2>1, <2>3 DEF Proceed
  <2> QED BY <2>2, <2>3
<1> QED BY <1>3, <1>4, <1>5, <1>6, <1>7 DEF Step

LEMMA ExecStaysLast ==
  ASSUME PipesTypeOK, ExecIsLast, NEW p \in Processes, Step(p) \/ Kill(p)
  PROVE  ExecIsLast'
<1> SUFFICES ASSUME NEW q \in Processes PROVE ~Past(q, "exec")'
  BY DEF ExecIsLast
<1>1. ~Past(q, "exec")
  BY DEF ExecIsLast
<1>2. UNCHANGED program /\ (UNCHANGED ip \/ MakesCall(p)) /\ (MakesCall(p) => Call(p).op # "exec")
  BY NextCall
<1> QED BY <1>1, <1>2, PastGrows

(* Who is born stays so, and a process that has ended does not come back. *)
LEMMA StatesGrow ==
  ASSUME PipesInd, NEW p \in Processes, Step(p) \/ Kill(p), NEW q \in Processes
  PROVE  /\ state[q] # "unborn" => state'[q] # "unborn"
         /\ state[q] = "done" => state'[q] = "done"
         /\ state'[q] # state[q] => \/ ForkChild(p) /\ state'[q] = "running"
                                    \/ q = p /\ (Exit(p) \/ ReadEOF(p)) /\ state'[q] = "done"
                                    \/ q = p /\ BrokenPipe(p)
                                    \/ CannotFork(p) \/ CannotExec(p) \/ Kill(p)
<1>1. PipesTypeOK /\ Running(p)
  BY NextCall DEF PipesInd
<1>2. CASE MakePipe(p) \/ Close(p) \/ Dup2(p) \/ Sleep(p) \/ Wait(p) \/ ExecTool(p) \/ ReadLine(p) \/ WriteLine(p)
  <2>1. UNCHANGED state
    BY <1>2 DEF MakePipe, Close, Dup2, Sleep, Wait, ExecTool, ReadLine, WriteLine
  <2> QED BY <2>1
<1>3. CASE ForkChild(p)
  <2>1. At(p, "fork") /\ state' = [state EXCEPT ![Call(p).child] = "running"]
    BY <1>3 DEF ForkChild
  <2>2. state[Call(p).child] = "unborn"
    BY <1>3, ChildUnborn
  <2>3. state'[q] = state[q] \/ (q = Call(p).child /\ state'[q] = "running")
    BY <1>1, <2>1 DEF PipesTypeOK
  <2> QED BY <1>3, <2>2, <2>3
<1>4. ASSUME NEW how \in {"done", "failed", "killed"}, Die(p, how)
      PROVE  /\ state[q] # "unborn" => state'[q] # "unborn"
             /\ state[q] = "done" => state'[q] = "done"
             /\ state'[q] # state[q] => q = p /\ state'[q] = how
  <2>1. state'[p] = how /\ \A r \in Processes \ {p} : state'[r] = state[r]
    BY <1>1, <1>4, DieIs
  <2>2. CASE q = p
    BY <1>1, <2>1, <2>2 DEF Running
  <2>3. CASE q # p
    BY <2>1, <2>3
  <2> QED BY <2>2, <2>3
<1>5. CASE CannotFork(p)
  <2>1. Die(p, "failed") \/ UNCHANGED state
    BY <1>5 DEF CannotFork
  <2> QED BY <1>4, <1>5, <2>1
<1>6. CASE CannotExec(p) \/ Kill(p)
  <2>1. Die(p, "failed") \/ Die(p, "killed")
    BY <1>6 DEF CannotExec, Kill
  <2> QED BY <1>4, <1>6, <2>1
<1>7. CASE Exit(p)
  <2>1. Die(p, "done")
    BY <1>7 DEF Exit
  <2> QED BY <1>4, <1>7, <2>1
<1>8. CASE BrokenPipe(p)
  <2>1. Die(p, "killed")
    BY <1>8 DEF BrokenPipe
  <2> QED BY <1>4, <1>8, <2>1
<1>9. CASE ReadEOF(p)
  <2>1. Die(p, "done") \/ UNCHANGED state
    BY <1>9 DEF ReadEOF
  <2> QED BY <1>4, <1>9, <2>1
<1> QED BY <1>2, <1>3, <1>5, <1>6, <1>7, <1>8, <1>9 DEF Step

(* Where the forks stand, and that a process of a pipeline ends its code with an exec. *)
LEMMA ForksAre ==
  /\ Sender[3] = fork("P2", TRUE) /\ CatTwo[2] = fork("P2", FALSE) /\ CatThree[3] = fork("P2", TRUE)
  /\ GrepThree[1] = fork("P3", TRUE)
  /\ Printer[3].op = "read" /\ Printer[4].op = "write"
  /\ \A n \in 1..3 : Printer[n].op # "write"
  /\ CatTwo[5].op = "exec" /\ GrepTwo[3].op = "exec"
  /\ CatThree[9].op = "exec" /\ GrepThree[8].op = "exec" /\ SortThree[6].op = "exec"
  /\ \A n \in 1..5 : Sender[n].op # "write"
<1> USE DEF pipe, close, dup2, exec, write, read, sleep, wait, fork, READ, WRITE, Pipe
<1>1. Sender[3] = fork("P2", TRUE) /\ \A n \in 1..5 : Sender[n].op # "write"
  BY SMT DEF Sender
<1>2. Printer[3].op = "read" /\ Printer[4].op = "write" /\ \A n \in 1..3 : Printer[n].op # "write"
  BY SMT DEF Printer
<1>3. CatTwo[2] = fork("P2", FALSE) /\ CatTwo[5].op = "exec" /\ GrepTwo[3].op = "exec"
  BY SMT DEF CatTwo, GrepTwo
<1>4. CatThree[3] = fork("P2", TRUE) /\ CatThree[9].op = "exec"
  BY SMT DEF CatThree
<1>5. GrepThree[1] = fork("P3", TRUE) /\ GrepThree[8].op = "exec"
  BY SMT DEF GrepThree
<1>6. SortThree[6].op = "exec"
  BY SMT DEF SortThree
<1> QED BY <1>1, <1>2, <1>3, <1>4, <1>5, <1>6

LEMMA ForkCalls ==
  /\ program = "pipes1" => Code("P1")[3] = fork("P2", TRUE)
  /\ program = "pipes2" => Code("P1")[2] = fork("P2", FALSE)
  /\ program = "pipes3" => Code("P1")[3] = fork("P2", TRUE) /\ Code("P2")[1] = fork("P3", TRUE)
  /\ program = "pipes1" => Len(Code("P1")) = 9 /\ Len(Code("P2")) = 6 /\ Code("P2")[4].op = "write"
<1>1. program = "pipes1" => Code("P1")[3] = fork("P2", TRUE)
  BY CodeIs, ForksAre, Zenon
<1>2. program = "pipes2" => Code("P1")[2] = fork("P2", FALSE)
  BY CodeIs, ForksAre, Zenon
<1>3. program = "pipes3" => Code("P1")[3] = fork("P2", TRUE) /\ Code("P2")[1] = fork("P3", TRUE)
  BY CodeIs, ForksAre, Zenon
<1>4. program = "pipes1" => Len(Code("P1")) = 9 /\ Len(Code("P2")) = 6 /\ Code("P2")[4].op = "write"
  BY CodeIs, ForksAre, ScriptsAre, Zenon
<1> QED BY <1>1, <1>2, <1>3, <1>4

EndsInExec(s) == Len(s) \in Nat \ {0} /\ s[Len(s)].op = "exec"

LEMMA EndsWithExec ==
  ASSUME NEW p \in Processes, program = "pipes3" \/ (program = "pipes2" /\ p # "P3")
  PROVE  EndsInExec(Code(p))
<1>1. EndsInExec(CatTwo) /\ EndsInExec(GrepTwo)
  BY ScriptsAre, ForksAre DEF EndsInExec
<1>2. EndsInExec(CatThree) /\ EndsInExec(GrepThree) /\ EndsInExec(SortThree)
  BY ScriptsAre, ForksAre DEF EndsInExec
<1>3. p = "P1" \/ p = "P2" \/ p = "P3"
  BY NamesAre
<1>4. CASE program = "pipes2"
  BY <1>1, <1>3, <1>4, CodeIs
<1>5. CASE program = "pipes3"
  BY <1>2, <1>3, <1>5, CodeIs
<1> QED BY <1>4, <1>5

LEMMA FatherIs ==
  ASSUME PipesInd, NEW q \in {"P2", "P3"}, state[q] # "unborn"
  PROVE  /\ program = "pipes1" => q = "P2" /\ ip["P1"] > 3
         /\ program = "pipes2" => q = "P2" /\ ip["P1"] > 2
         /\ program = "pipes3" => /\ q = "P2" => ip["P1"] > 3
                                  /\ q = "P3" => ip["P2"] > 1
<1>1. PipesTypeOK /\ q \in Processes \ {"P1"}
  BY DEF PipesInd, Processes
<1>2. PICK f \in Processes : \E n \in 1..ip[f] - 1 : Code(f)[n].op = "fork" /\ Code(f)[n].child = q
  BY <1>1 DEF PipesInd, Born, Forked
<1>3. PICK n \in 1..ip[f] - 1 : Code(f)[n].op = "fork" /\ Code(f)[n].child = q
  BY <1>2
<1>4. n \in 1..Len(Code(f)) /\ ip[f] > n
  BY <1>1, <1>3, LengthsAre DEF PipesTypeOK
<1>5. <<f, n, q>> \in Forks[program]
  BY <1>1, <1>3, <1>4, CodeIsGood DEF Fathers, PipesTypeOK
<1>6. CASE program = "pipes1"
  <2>1. <<f, n, q>> = <<"P1", 3, "P2">>
    BY <1>5, <1>6 DEF Forks
  <2> QED BY <1>4, <1>6, <2>1
<1>7. CASE program = "pipes2"
  <2>1. <<f, n, q>> = <<"P1", 2, "P2">>
    BY <1>5, <1>7 DEF Forks
  <2> QED BY <1>4, <1>7, <2>1
<1>8. CASE program = "pipes3"
  <2>1. <<f, n, q>> \in {<<"P1", 3, "P2">>, <<"P2", 1, "P3">>}
    BY <1>5, <1>8 DEF Forks
  <2> QED BY <1>4, <1>8, <2>1
<1> QED BY <1>6, <1>7, <1>8

(* The parts of InOrder. *)
NoneKilled == \A p \in Processes : state[p] \in {"unborn", "running", "done"}
ForkedBorn == \A p \in Processes : \A n \in 1..ip[p] - 1 : Code(p)[n].op = "fork" => state[Code(p)[n].child] # "unborn"
GrepAfterCat == program \in {"pipes2", "pipes3"} /\ state["P2"] = "done" => state["P1"] = "done" /\ pipes[1] = <<>>
SortAfterGrep == program = "pipes3" /\ tool["P3"] = "sorted" => state["P2"] = "done" /\ pipes[2] = <<>>
LineKept == program = "pipes1" => /\ (tty \o held["P2"]) \o (pipes[1] \o held["P1"]) = <<Typed>>
                                  /\ Past("P2", "write") => tty # <<>>

LEMMA InOrderIs ==
  /\ InOrder <=> (~disturbed => NoneKilled /\ ForkedBorn /\ GrepAfterCat /\ SortAfterGrep /\ LineKept)
  /\ InOrder' <=> (~disturbed' => NoneKilled' /\ ForkedBorn' /\ GrepAfterCat' /\ SortAfterGrep' /\ LineKept')
BY DEF InOrder, NoneKilled, ForkedBorn, GrepAfterCat, SortAfterGrep, LineKept

LEMMA BornAfter ==
  ASSUME PipesInd, ForkedBorn
  PROVE  /\ program = "pipes1" /\ ip["P1"] > 3 => state["P2"] # "unborn"
         /\ program = "pipes2" /\ ip["P1"] > 2 => state["P2"] # "unborn"
         /\ program = "pipes3" /\ ip["P1"] > 3 => state["P2"] # "unborn"
         /\ program = "pipes3" /\ ip["P2"] > 1 => state["P3"] # "unborn"
<1>1. ip["P1"] \in Nat /\ ip["P2"] \in Nat
  BY NamesAre DEF PipesInd, PipesTypeOK
<1>2. fork("P2", TRUE).child = "P2" /\ fork("P2", FALSE).child = "P2" /\ fork("P3", TRUE).child = "P3"
  BY DEF fork
<1>3. fork("P2", TRUE).op = "fork" /\ fork("P2", FALSE).op = "fork" /\ fork("P3", TRUE).op = "fork"
  BY DEF fork
<1>4. CASE program = "pipes1" /\ ip["P1"] > 3
  <2>1. 3 \in 1..ip["P1"] - 1
    BY <1>1, <1>4
  <2>2. Code("P1")[3] = fork("P2", TRUE)
    BY <1>4, ForkCalls
  <2> QED BY <1>2, <1>3, <1>4, <2>1, <2>2, NamesAre DEF ForkedBorn
<1>5. CASE program = "pipes2" /\ ip["P1"] > 2
  <2>1. 2 \in 1..ip["P1"] - 1
    BY <1>1, <1>5
  <2>2. Code("P1")[2] = fork("P2", FALSE)
    BY <1>5, ForkCalls
  <2> QED BY <1>2, <1>3, <1>5, <2>1, <2>2, NamesAre DEF ForkedBorn
<1>6. program = "pipes3" /\ ip["P1"] > 3 => state["P2"] # "unborn"
  <2> SUFFICES ASSUME program = "pipes3", ip["P1"] > 3 PROVE state["P2"] # "unborn"
    OBVIOUS
  <2>1. 3 \in 1..ip["P1"] - 1
    BY <1>1
  <2>2. Code("P1")[3] = fork("P2", TRUE)
    BY ForkCalls
  <2> QED BY <1>2, <1>3, <2>1, <2>2, NamesAre DEF ForkedBorn
<1>7. program = "pipes3" /\ ip["P2"] > 1 => state["P3"] # "unborn"
  <2> SUFFICES ASSUME program = "pipes3", ip["P2"] > 1 PROVE state["P3"] # "unborn"
    OBVIOUS
  <2>1. 1 \in 1..ip["P2"] - 1
    BY <1>1
  <2>2. Code("P2")[1] = fork("P3", TRUE)
    BY ForkCalls
  <2> QED BY <1>2, <1>3, <2>1, <2>2, NamesAre DEF ForkedBorn
<1> QED BY <1>4, <1>5, <1>6, <1>7

(* What a process was doing that is done. *)
LEMMA PastAt ==
  ASSUME PipesTypeOK, NEW p \in Processes, NEW n \in Nat \ {0}, ip[p] > n, NEW op, Code(p)[n].op = op
  PROVE  Past(p, op)
<1>1. n \in 1..ip[p] - 1
  BY DEF PipesTypeOK
<1> QED BY <1>1 DEF Past

LEMMA DoneAre ==
  ASSUME PipesInd, ExecIsLast, NEW p \in Processes, state[p] = "done"
  PROVE  /\ program = "pipes1" => /\ p = "P1" => ip[p] = 10
                                  /\ p = "P2" => ip[p] = 7 /\ Past("P2", "write")
         /\ program \in {"pipes2", "pipes3"} /\ p # "P3" => tool[p] = (IF p = "P1" THEN "cat" ELSE "grep") /\ held[p] = <<>>
         /\ program = "pipes3" /\ p = "P3" => tool[p] = "sorted" /\ held[p] = <<>>
<1>1. PipesTypeOK /\ p \in {"P1", "P2", "P3"} /\ ip[p] \in Nat
  BY NamesAre DEF PipesInd, PipesTypeOK
<1>2. IF tool[p] = "own" THEN ip[p] = Len(Code(p)) + 1 ELSE tool[p] # "sort" /\ held[p] = <<>>
  BY DEF PipesInd, ToolFits
<1>3. ASSUME program = "pipes1"
      PROVE  /\ p = "P1" => ip[p] = 10
             /\ p = "P2" => ip[p] = 7 /\ Past("P2", "write")
  <2>1. tool[p] = "own"
    BY <1>3, ToolsAre
  <2>2. p = "P1" => ip[p] = 10
    <3> SUFFICES ASSUME p = "P1" PROVE ip[p] = 10
      OBVIOUS
    <3>1. Len(Code(p)) = 9
      BY <1>3, ForkCalls, Zenon
    <3>2. ip[p] = Len(Code(p)) + 1
      BY <1>2, <2>1
    <3> QED BY <3>1, <3>2
  <2>3. p = "P2" => ip[p] = 7
    <3> SUFFICES ASSUME p = "P2" PROVE ip[p] = 7
      OBVIOUS
    <3>1. Len(Code(p)) = 6
      BY <1>3, ForkCalls, Zenon
    <3>2. ip[p] = Len(Code(p)) + 1
      BY <1>2, <2>1
    <3> QED BY <3>1, <3>2
  <2>4. Code("P2")[4].op = "write"
    BY <1>3, ForkCalls
  <2>5. p = "P2" => Past("P2", "write")
    BY <1>1, <2>3, <2>4, PastAt
  <2> QED BY <2>2, <2>3, <2>5
<1>4. ASSUME program \in {"pipes2", "pipes3"}, tool[p] = "own", p = "P3" => program = "pipes3"
      PROVE  FALSE
  <2>1. Len(Code(p)) \in Nat \ {0} /\ Code(p)[Len(Code(p))].op = "exec"
    BY <1>4, NamesAre, EndsWithExec DEF EndsInExec
  <2>2. ip[p] > Len(Code(p))
    BY <1>2, <1>4, <2>1
  <2>3. Past(p, "exec")
    BY <1>1, <2>1, <2>2, PastAt
  <2> QED BY <2>3 DEF ExecIsLast
<1> QED BY <1>1, <1>2, <1>3, <1>4, ToolsAre

(* What is carried from step to step. *)
FlowInd == PipesInd /\ Loaded /\ ExecIsLast /\ LinesFlow /\ InOrder
Orderly == PipesInd /\ Loaded /\ ExecIsLast /\ NoneKilled /\ ForkedBorn /\ GrepAfterCat /\ SortAfterGrep /\ LineKept

LEMMA IpsAre ==
  ASSUME PipesInd
  PROVE  \A p \in {"P1", "P2", "P3"} : ip[p] \in Nat /\ tool[p] \in {"own", "cat", "grep", "sort", "sorted"}
BY NamesAre DEF PipesInd, PipesTypeOK

(* The terminal, the pipe and the two processes share one line. *)
OneLineOf(s, t, u, v) == /\ s # <<>> => t = <<>> /\ u = <<>> /\ v = <<>> /\ s = <<Typed>>
                         /\ t # <<>> => s = <<>> /\ u = <<>> /\ v = <<>> /\ t = <<Typed>>
                         /\ u # <<>> => s = <<>> /\ t = <<>> /\ v = <<>> /\ u = <<Typed>>
                         /\ v # <<>> => s = <<>> /\ t = <<>> /\ u = <<>> /\ v = <<Typed>>

LEMMA OneLineIs ==
  ASSUME NEW s \in Seq(Lines), NEW t \in Seq(Lines), NEW u \in Seq(Lines), NEW v \in Seq(Lines),
         (s \o t) \o (u \o v) = <<Typed>>
  PROVE  OneLineOf(s, t, u, v)
<1>1. Len(s) \in Nat /\ Len(t) \in Nat /\ Len(u) \in Nat /\ Len(v) \in Nat
  OBVIOUS
<1>2. \A w \in Seq(Lines) : Len(w) = 0 => w = <<>>
  OBVIOUS
<1>3. /\ s \o t \in Seq(Lines) /\ u \o v \in Seq(Lines) /\ Len(s \o t) = Len(s) + Len(t)
      /\ Len(u \o v) = Len(u) + Len(v)
  OBVIOUS
<1>4. Len((s \o t) \o (u \o v)) = Len(s \o t) + Len(u \o v) /\ Len(<<Typed>>) = 1
  <2>1. \A x, y \in Seq(Lines) : Len(x \o y) = Len(x) + Len(y)
    OBVIOUS
  <2>2. Len(<<Typed>>) = 1
    OBVIOUS
  <2> QED BY <1>3, <2>1, <2>2, Zenon
<1>5. Len(s) + Len(t) + Len(u) + Len(v) = 1
  BY <1>1, <1>3, <1>4
<1>6. s # <<>> => t = <<>> /\ u = <<>> /\ v = <<>> /\ s = <<Typed>>
  <2> SUFFICES ASSUME s # <<>> PROVE t = <<>> /\ u = <<>> /\ v = <<>> /\ s = <<Typed>>
    OBVIOUS
  <2>1. Len(s) # 0
    BY <1>2
  <2>2. Len(t) = 0 /\ Len(u) = 0 /\ Len(v) = 0
    BY <1>1, <1>5, <2>1
  <2>3. t = <<>> /\ u = <<>> /\ v = <<>>
    BY <1>2, <2>2
  <2> QED BY <2>3
<1>7. t # <<>> => s = <<>> /\ u = <<>> /\ v = <<>> /\ t = <<Typed>>
  <2> SUFFICES ASSUME t # <<>> PROVE s = <<>> /\ u = <<>> /\ v = <<>> /\ t = <<Typed>>
    OBVIOUS
  <2>1. Len(t) # 0
    BY <1>2
  <2>2. Len(s) = 0 /\ Len(u) = 0 /\ Len(v) = 0
    BY <1>1, <1>5, <2>1
  <2>3. s = <<>> /\ u = <<>> /\ v = <<>>
    BY <1>2, <2>2
  <2> QED BY <2>3
<1>8. u # <<>> => s = <<>> /\ t = <<>> /\ v = <<>> /\ u = <<Typed>>
  <2> SUFFICES ASSUME u # <<>> PROVE s = <<>> /\ t = <<>> /\ v = <<>> /\ u = <<Typed>>
    OBVIOUS
  <2>1. Len(u) # 0
    BY <1>2
  <2>2. Len(s) = 0 /\ Len(t) = 0 /\ Len(v) = 0
    BY <1>1, <1>5, <2>1
  <2>3. s = <<>> /\ t = <<>> /\ v = <<>>
    BY <1>2, <2>2
  <2> QED BY <2>3
<1>9. v # <<>> => s = <<>> /\ t = <<>> /\ u = <<>> /\ v = <<Typed>>
  <2> SUFFICES ASSUME v # <<>> PROVE s = <<>> /\ t = <<>> /\ u = <<>> /\ v = <<Typed>>
    OBVIOUS
  <2>1. Len(v) # 0
    BY <1>2
  <2>2. Len(s) = 0 /\ Len(t) = 0 /\ Len(u) = 0
    BY <1>1, <1>5, <2>1
  <2>3. s = <<>> /\ t = <<>> /\ u = <<>>
    BY <1>2, <2>2
  <2> QED BY <2>3
<1> QED BY <1>6, <1>7, <1>8, <1>9 DEF OneLineOf

(* Nobody writes to a pipe that nobody reads. *)
LEMMA NoBrokenPipe ==
  ASSUME Orderly, NEW p \in Processes, NEW k \in Pipe, Sending(p, k), Running(p),
         held[p] # <<>>
  PROVE  Readers(k) # {}
<1>1. /\ PipesInd /\ Loaded /\ ExecIsLast /\ NoneKilled /\ ForkedBorn /\ GrepAfterCat /\ SortAfterGrep /\ LineKept
      /\ ip["P1"] \in Nat /\ ip["P2"] \in Nat
  BY IpsAre DEF Orderly
<1>2. CASE program = "pipes1" /\ p = "P1" /\ tool[p] = "own" /\ ip[p] = 6 /\ k = 1
  <2>1. state["P2"] # "unborn"
    BY <1>1, <1>2, BornAfter
  <2>2. ~Past("P2", "write")
    <3>1. /\ (tty \o held["P2"]) \o (pipes[1] \o held["P1"]) = <<Typed>>
          /\ Past("P2", "write") => tty # <<>>
      BY <1>1, <1>2 DEF LineKept
    <3>2. /\ tty \in Seq(Lines) /\ held["P2"] \in Seq(Lines) /\ pipes[1] \in Seq(Lines)
          /\ held["P1"] \in Seq(Lines)
      BY <1>1, FlowTypes
    <3>3. OneLineOf(tty, held["P2"], pipes[1], held["P1"])
      BY <3>1, <3>2, OneLineIs, Zenon
    <3>4. held["P1"] # <<>>
      BY <1>2
    <3> QED BY <3>1, <3>3, <3>4 DEF OneLineOf
  <2>3. state["P2"] # "done"
    BY <1>1, <1>2, <2>2, NamesAre, DoneAre
  <2>4. Running("P2")
    BY <1>1, <2>1, <2>3, NamesAre DEF NoneKilled, Running
  <2>5. ip["P2"] <= 5
    <3>1. Code("P2")[4].op = "write"
      BY <1>2, ForkCalls
    <3> QED BY <1>1, <2>2, <3>1, NamesAre, PastAt DEF PipesInd
  <2> QED BY <1>1, <1>2, <2>4, <2>5, ReadersHold
<1>3. CASE program \in {"pipes2", "pipes3"} /\ p = "P1" /\ tool[p] = "cat" /\ k = 1
  <2>1. ip["P1"] > 3
    BY <1>1, <1>3, ToolsAre
  <2>2. state["P2"] # "unborn"
    BY <1>1, <1>3, <2>1, BornAfter
  <2>3. state["P2"] # "done"
    BY <1>1, <1>3 DEF GrepAfterCat, Running
  <2>4. Running("P2")
    BY <1>1, <2>2, <2>3, NamesAre DEF NoneKilled, Running
  <2> QED BY <1>1, <1>3, <2>4, ReadersHold
<1>4. CASE program = "pipes3" /\ p = "P2" /\ tool[p] = "grep" /\ k = 2
  <2>1. ip["P2"] > 1
    BY <1>1, <1>4, ToolsAre
  <2>2. state["P3"] # "unborn"
    BY <1>1, <1>4, <2>1, BornAfter
  <2>3. state["P3"] # "done"
    <3>1. state["P3"] = "done" => tool["P3"] = "sorted"
      BY <1>1, <1>4, NamesAre, DoneAre
    <3> QED BY <1>1, <1>4, <3>1 DEF SortAfterGrep, Running
  <2>4. Running("P3")
    BY <1>1, <2>2, <2>3, NamesAre DEF NoneKilled, Running
  <2> QED BY <1>1, <1>4, <2>4, ReadersHold
<1> QED BY <1>2, <1>3, <1>4 DEF Sending

LEMMA Undisturbed ==
  ASSUME NEW p, Step(p) \/ Kill(p), ~disturbed'
  PROVE  /\ ~disturbed /\ ~CannotFork(p) /\ ~CannotExec(p) /\ ~Kill(p)
         /\ \/ MakePipe(p) \/ ForkChild(p) \/ Close(p) \/ Dup2(p) \/ ExecTool(p)
            \/ Sleep(p) \/ Wait(p) \/ Exit(p) \/ ReadLine(p) \/ ReadEOF(p) \/ WriteLine(p) \/ BrokenPipe(p)
<1>1. ~CannotFork(p) /\ ~CannotExec(p) /\ ~Kill(p)
  BY DEF CannotFork, CannotExec, Kill
<1>2. \/ MakePipe(p) \/ ForkChild(p) \/ Close(p) \/ Dup2(p) \/ ExecTool(p)
      \/ Sleep(p) \/ Wait(p) \/ Exit(p) \/ ReadLine(p) \/ ReadEOF(p) \/ WriteLine(p) \/ BrokenPipe(p)
  BY <1>1 DEF Step
<1>3. disturbed' = disturbed
  BY <1>2 DEF MakePipe, ForkChild, Close, Dup2, ExecTool, Sleep, Wait, Exit, ReadLine, ReadEOF, WriteLine, BrokenPipe
<1> QED BY <1>1, <1>2, <1>3

LEMMA PipeNotBroken ==
  ASSUME Orderly, NEW p \in Processes
  PROVE  ~BrokenPipe(p)
<1> SUFFICES ASSUME BrokenPipe(p) PROVE FALSE
  OBVIOUS
<1>1. PipesInd /\ PipesTypeOK /\ Loaded
  BY DEF Orderly, PipesInd
<1>2. PICK k \in Pipe : Sending(p, k) /\ Readers(k) = {}
  BY <1>1, BrokenPipeIs
<1>3. Writes(p) /\ Running(p) /\ held[p] # <<>>
  BY <1>1, ReadyToWrite, WriterIs DEF BrokenPipe
<1> QED BY <1>2, <1>3, NoBrokenPipe

LEMMA KillsNobody ==
  ASSUME Orderly, NEW p \in Processes, Step(p) \/ Kill(p), ~disturbed'
  PROVE  NoneKilled'
<1> SUFFICES ASSUME NEW q \in Processes PROVE state'[q] \in {"unborn", "running", "done"}
  BY DEF NoneKilled
<1>1. state[q] \in {"unborn", "running", "done"} /\ PipesInd
  BY DEF Orderly, NoneKilled
<1>2. ~CannotFork(p) /\ ~CannotExec(p) /\ ~Kill(p) /\ ~BrokenPipe(p)
  BY Undisturbed, PipeNotBroken
<1>3. state'[q] # state[q] => state'[q] = "running" \/ state'[q] = "done"
  BY <1>1, <1>2, StatesGrow
<1> QED BY <1>1, <1>3

LEMMA ForksBear ==
  ASSUME Orderly, NEW p \in Processes, Step(p) \/ Kill(p), ~disturbed'
  PROVE  ForkedBorn'
<1>1. PipesInd /\ PipesTypeOK /\ ForkedBorn
  BY DEF Orderly, PipesInd
<1>2. UNCHANGED program /\ (UNCHANGED ip \/ MakesCall(p)) /\ (MakesCall(p) /\ Call(p).op = "fork" => ForkChild(p))
  BY <1>1, NextCall, Undisturbed
<1>3. \A q \in Processes : Code(q)' = Code(q)
  BY <1>2, CodeKept
<1> SUFFICES ASSUME NEW q \in Processes, NEW n \in 1..ip'[q] - 1, Code(q)[n].op = "fork"
             PROVE  state'[Code(q)[n].child] # "unborn"
  BY <1>3 DEF ForkedBorn
<1>4. ip'[q] = ip[q] \/ (q = p /\ ip'[q] = ip[p] + 1 /\ ip[p] <= Len(Code(p)) /\ ip[p] \in Nat)
  BY <1>1, <1>2, IpGrows
<1>5. Code(q)[n].child \in Processes
  <2>1. n \in 1..Len(Code(q))
    <3>1. ip[q] \in 1..Len(Code(q)) + 1 /\ Len(Code(q)) \in Nat
      BY <1>1, LengthsAre DEF PipesTypeOK
    <3> QED BY <1>4, <3>1
  <2>2. GoodFork(q, Code(q), Code("P1"), n)
    BY <1>1, <2>1, CodeIsGood DEF Good, PipesTypeOK
  <2> QED BY <2>2, NamesAre DEF GoodFork
<1>6. CASE n \in 1..ip[q] - 1
  <2>1. state[Code(q)[n].child] # "unborn"
    BY <1>1, <1>6 DEF ForkedBorn
  <2> QED BY <1>1, <1>5, <2>1, StatesGrow
<1>7. CASE n \notin 1..ip[q] - 1
  <2>1. q = p /\ n = ip[p] /\ ip'[p] = ip[p] + 1
    BY <1>4, <1>7
  <2>2. MakesCall(p) /\ Call(p) = Code(q)[n]
    BY <1>2, <2>1 DEF Call
  <2>3. ForkChild(p)
    BY <1>2, <2>2
  <2>4. state' = [state EXCEPT ![Call(p).child] = "running"]
    BY <2>3 DEF ForkChild
  <2> QED BY <1>1, <1>5, <2>2, <2>4 DEF PipesTypeOK
<1> QED BY <1>6, <1>7

(* A pipe that is empty stays so when the process that writes to it has ended. *)
LEMMA StaysEmpty ==
  ASSUME PipesInd, Loaded, NEW p \in Processes, Step(p) \/ Kill(p), NEW k \in Pipe, pipes[k] = <<>>,
         program = "pipes3" \/ (program = "pipes2" /\ k = 1),
         state[IF k = 1 THEN "P1" ELSE "P2"] = "done"
  PROVE  pipes'[k] = <<>>
<1>1. CASE ReadLine(p)
  BY <1>1, ReadLineIs
<1>2. CASE WriteLine(p)
  <2>1. /\ Running(p)
        /\ \/ pipes' = pipes
           \/ \E j \in Pipe : Sending(p, j) /\ \A i \in Pipe \ {j} : pipes'[i] = pipes[i]
    BY <1>2, WriteLineIs
  <2>2. ~Sending(p, k)
    BY <2>1 DEF Sending, Running
  <2> QED BY <2>1, <2>2
<1>3. CASE ~ReadLine(p) /\ ~WriteLine(p)
  <2>1. UNCHANGED pipes
    BY <1>3 DEF Step, MakePipe, ForkChild, CannotFork, Close, Dup2, ExecTool, CannotExec, Sleep, Wait, Exit,
       ReadEOF, BrokenPipe, Kill
  <2> QED BY <2>1
<1> QED BY <1>1, <1>2, <1>3

(* grep is done only after cat and when the first pipe is empty. *)
LEMMA GrepEndsLater ==
  ASSUME Orderly, NEW p \in Processes, Step(p) \/ Kill(p), ~disturbed'
  PROVE  GrepAfterCat'
<1>1. PipesInd /\ PipesTypeOK /\ Loaded /\ ExecIsLast /\ NoneKilled /\ GrepAfterCat /\ UNCHANGED program
      /\ ip["P1"] \in Nat
  BY NextCall, IpsAre DEF Orderly, PipesInd
<1> SUFFICES ASSUME program \in {"pipes2", "pipes3"}, state'["P2"] = "done"
             PROVE  state'["P1"] = "done" /\ pipes'[1] = <<>>
  BY <1>1 DEF GrepAfterCat
<1>2. CASE state["P2"] = "done"
  <2>1. state["P1"] = "done" /\ pipes[1] = <<>>
    BY <1>1, <1>2 DEF GrepAfterCat
  <2> QED BY <1>1, <2>1, NamesAre, StatesGrow, StaysEmpty
<1>3. CASE state["P2"] # "done"
  <2>1. p = "P2" /\ (Exit(p) \/ ReadEOF(p))
    BY <1>1, <1>3, NamesAre, StatesGrow, Undisturbed, PipeNotBroken
  <2>2. CASE Exit(p)
    <3>1. /\ tool["P2"] \in {"own", "grep"} /\ Running("P2")
          /\ (tool["P2"] = "own" /\ ip["P2"] > Len(Code("P2"))) \/ tool["P2"] \in {"cat", "sorted"}
      BY <1>1, <2>1, <2>2, ToolsAre DEF Exit
    <3>2. EndsInExec(Code("P2"))
      BY NamesAre, EndsWithExec
    <3>3. Past("P2", "exec")
      BY <1>1, <3>1, <3>2, NamesAre, PastAt DEF EndsInExec
    <3> QED BY <1>1, <3>3, NamesAre DEF ExecIsLast
  <2>3. CASE ReadEOF(p)
    <3>1. PICK k \in Pipe : Reading(p, k) /\ Running(p) /\ pipes[k] = <<>> /\ Writers(k) = {}
      BY <1>1, <2>3, ReadEOFIs
    <3>2. k = 1
      BY <2>1, <3>1 DEF Reading
    <3>3. UNCHANGED pipes
      BY <2>3 DEF ReadEOF
    <3>4. ip["P1"] > 2
      BY <1>1, <2>1, <3>1, FatherIs DEF Running
    <3>5. state["P1"] # "running"
      BY <1>1, <3>1, <3>2, <3>4, WritersHold DEF Running
    <3>6. state["P1"] = "done"
      BY <1>1, <3>5, NamesAre DEF NoneKilled, PipesInd, Born
    <3> QED BY <1>1, <3>1, <3>2, <3>3, <3>6, NamesAre, StatesGrow
  <2> QED BY <2>1, <2>2, <2>3
<1> QED BY <1>2, <1>3

(* sort has its lines only after grep is done and when the second pipe is empty. *)
LEMMA SortEndsLater ==
  ASSUME Orderly, NEW p \in Processes, Step(p) \/ Kill(p), ~disturbed'
  PROVE  SortAfterGrep'
<1>1. PipesInd /\ PipesTypeOK /\ Loaded /\ NoneKilled /\ SortAfterGrep /\ UNCHANGED program /\ ip["P2"] \in Nat
  BY NextCall, IpsAre DEF Orderly, PipesInd
<1> SUFFICES ASSUME program = "pipes3", tool'["P3"] = "sorted"
             PROVE  state'["P2"] = "done" /\ pipes'[2] = <<>>
  BY <1>1 DEF SortAfterGrep
<1>2. CASE tool["P3"] = "sorted"
  <2>1. state["P2"] = "done" /\ pipes[2] = <<>>
    BY <1>1, <1>2 DEF SortAfterGrep
  <2> QED BY <1>1, <2>1, NamesAre, StatesGrow, StaysEmpty
<1>3. CASE tool["P3"] # "sorted"
  <2>1. p = "P3" /\ ReadEOF(p)
    <3>1. CASE ExecTool(p)
      BY <1>1, <1>3, <3>1, NamesAre, ExecIs
    <3>2. CASE ReadEOF(p)
      BY <1>1, <1>3, <3>2, NamesAre, ReadEOFIs
    <3>3. CASE ~ExecTool(p) /\ ~ReadEOF(p)
      <4>1. UNCHANGED tool
        BY <3>3 DEF Step, MakePipe, ForkChild, CannotFork, Close, Dup2, CannotExec, Sleep, Wait, Exit,
           ReadLine, WriteLine, BrokenPipe, Kill
      <4> QED BY <1>3, <4>1
    <3> QED BY <3>1, <3>2, <3>3
  <2>2. PICK k \in Pipe : Reading(p, k) /\ Running(p) /\ pipes[k] = <<>> /\ Writers(k) = {}
    BY <1>1, <2>1, ReadEOFIs
  <2>3. k = 2
    BY <2>1, <2>2 DEF Reading
  <2>4. UNCHANGED pipes
    BY <2>1 DEF ReadEOF
  <2>5. ip["P2"] > 1
    BY <1>1, <2>1, <2>2, FatherIs DEF Running
  <2>6. state["P2"] # "running"
    BY <1>1, <2>2, <2>3, WritersHold DEF Running
  <2>7. state["P2"] # "unborn"
    BY <1>1, <2>5, NamesAre DEF PipesInd, Born
  <2>8. state["P2"] = "done"
    BY <1>1, <2>6, <2>7, NamesAre DEF NoneKilled
  <2> QED BY <1>1, <2>2, <2>3, <2>4, <2>8, NamesAre, StatesGrow
<1> QED BY <1>2, <1>3

(* The child does not see the end of the pipe before it has read the line: its    *)
(* parent keeps the pipe open until it has waited for it.                         *)
LEMMA NoEarlyEnd ==
  ASSUME Orderly, program = "pipes1", NEW p \in Processes
  PROVE  ~ReadEOF(p)
<1> SUFFICES ASSUME ReadEOF(p) PROVE FALSE
  OBVIOUS
<1>1. /\ PipesInd /\ PipesTypeOK /\ ExecIsLast /\ NoneKilled /\ ip["P1"] \in Nat /\ Waited
  BY IpsAre DEF Orderly, PipesInd
<1>2. PICK k \in Pipe : Reading(p, k) /\ Running(p) /\ pipes[k] = <<>> /\ Writers(k) = {}
  BY <1>1, ReadEOFIs
<1>3. p = "P2" /\ k = 1 /\ Running("P2")
  BY <1>2 DEF Reading
<1>4. ip["P1"] > 3
  BY <1>1, <1>3, FatherIs DEF Running
<1>5. ip["P1"] \in 1..10 /\ Len(Code("P1")) + 1 = 10
  <2>1. PICK q \in Processes : q = "P1"
    BY NamesAre
  <2>2. ip[q] \in 1..Len(Code(q)) + 1
    BY <1>1 DEF PipesTypeOK
  <2>3. Len(Code(q)) = 9
    BY <2>1, ForkCalls, Zenon
  <2>4. ip[q] \in 1..10 /\ Len(Code(q)) + 1 = 10
    BY <2>2, <2>3
  <2> QED BY <2>1, <2>4, Zenon
<1>6. ip["P1"] = 10
  <2>1. CASE Running("P1")
    <3>1. ip["P1"] \notin 2..9
      BY <1>1, <1>2, <1>3, <2>1, WritersHold
    <3> QED BY <1>4, <1>5, <3>1
  <2>2. CASE ~Running("P1")
    <3>1. state["P1"] = "done"
      BY <1>1, <2>2, NamesAre DEF NoneKilled, PipesInd, Born, Running
    <3> QED BY <1>1, <3>1, NamesAre, DoneAre
  <2> QED BY <2>1, <2>2
<1>7. Waits = {7}
  BY <1>5, <1>6, WaitsCounted
<1>8. Cardinality(reaped) = 1
  <2>1. Cardinality(reaped) = Cardinality(Waits)
    BY <1>1 DEF Waited, Waits
  <2> QED BY <1>7, <2>1, FS_Singleton
<1>9. reaped = {}
  <2> SUFFICES ASSUME NEW q \in reaped PROVE FALSE
    OBVIOUS
  <2>1. q # "P1" /\ Ended(q) /\ q \in {"P2", "P3"}
    BY <1>1, NamesAre DEF Waited, PipesTypeOK
  <2>2. q = "P2"
    BY <1>1, <2>1, FatherIs DEF Ended
  <2> QED BY <1>3, <2>1, <2>2 DEF Ended, Running
<1> QED BY <1>8, <1>9, FS_EmptySet

(* Whoever reads does not write. *)
LEMMA ReaderDoesNotWrite ==
  ASSUME PipesInd, NEW p \in Processes, Reads(p), tool[p] = "own"
  PROVE  ~Writes(p)
<1>1. At(p, "read")
  BY DEF Reads
<1> QED BY <1>1 DEF Writes, At

(* The line that was typed is in one place. *)
Placed(s, t, u, v) == (s \o t) \o (u \o v) = <<Typed>>

LEMMA LineRead ==
  ASSUME NEW s \in Seq(Lines), NEW t \in Seq(Lines), NEW u \in Seq(Lines), NEW v \in Seq(Lines),
         Placed(s, t, u, v), u # <<>>
  PROVE  Placed(s, <<Head(u)>>, Tail(u), v)
<1>1. OneLineOf(s, t, u, v)
  BY OneLineIs DEF Placed
<1>2. s = <<>> /\ v = <<>> /\ u = <<Typed>>
  BY <1>1 DEF OneLineOf
<1>3. Head(u) = Typed /\ Tail(u) = <<>>
  BY <1>2
<1>4. (<<>> \o <<Typed>>) \o (<<>> \o <<>>) = <<Typed>>
  <2>1. <<Typed>> \in Seq(Lines) /\ <<>> \in Seq(Lines)
    BY LinesAre
  <2>2. \A w \in Seq(Lines) : <<>> \o w = w /\ w \o <<>> = w
    OBVIOUS
  <2> QED BY <2>1, <2>2, Zenon
<1> QED BY <1>2, <1>3, <1>4 DEF Placed

LEMMA LineSent ==
  ASSUME NEW s \in Seq(Lines), NEW t \in Seq(Lines), NEW u \in Seq(Lines), NEW v \in Seq(Lines),
         Placed(s, t, u, v), v # <<>>
  PROVE  Placed(s, t, Append(u, Head(v)), Tail(v))
BY Moved DEF Placed

LEMMA LinePrinted ==
  ASSUME NEW s \in Seq(Lines), NEW t \in Seq(Lines), NEW u \in Seq(Lines), NEW v \in Seq(Lines),
         Placed(s, t, u, v), t # <<>>
  PROVE  Placed(Append(s, Head(t)), Tail(t), u, v) /\ Append(s, Head(t)) # <<>>
<1>1. Append(s, Head(t)) # <<>>
  <2>1. Head(t) \in Lines /\ \A line \in Lines : Append(s, line) # <<>>
    OBVIOUS
  <2> QED BY <2>1
<1> QED BY <1>1, Moved DEF Placed

LEMMA LineStays ==
  ASSUME Orderly, NEW p \in Processes, Step(p) \/ Kill(p), ~disturbed'
  PROVE  LineKept'
<1>1. /\ PipesInd /\ PipesTypeOK /\ Loaded /\ LineKept /\ UNCHANGED program
      /\ UNCHANGED ip \/ MakesCall(p)
      /\ MakesCall(p) /\ Call(p).op = "write" => WriteLine(p)
  BY NextCall DEF Orderly, PipesInd
<1> SUFFICES ASSUME program = "pipes1"
             PROVE  /\ (tty' \o held'["P2"]) \o (pipes'[1] \o held'["P1"]) = <<Typed>>
                    /\ Past("P2", "write")' => tty' # <<>>
  BY <1>1 DEF LineKept
<1>2. /\ Placed(tty, held["P2"], pipes[1], held["P1"])
      /\ Past("P2", "write") => tty # <<>>
  BY <1>1 DEF LineKept, Placed
<1>3. /\ tty \in Seq(Lines) /\ held["P2"] \in Seq(Lines) /\ pipes[1] \in Seq(Lines) /\ held["P1"] \in Seq(Lines)
  BY <1>1, FlowTypes
<1>4. Past("P2", "write")' => Past("P2", "write") \/ (p = "P2" /\ WriteLine(p))
  <2>1. UNCHANGED ip \/ MakesCall(p)
    BY <1>1
  <2> QED BY <1>1, <2>1, NamesAre, PastGrows
<1>5. CASE ReadLine(p)
  <2>1. PICK k \in Pipe :
          /\ Reading(p, k) /\ Running(p) /\ pipes[k] # <<>>
          /\ pipes'[k] = Tail(pipes[k]) /\ \A j \in Pipe \ {k} : pipes'[j] = pipes[j]
          /\ held'[p] = IF tool[p] = "sort" THEN Append(held[p], Head(pipes[k]))
                        ELSE IF tool[p] = "grep" /\ Head(pipes[k]) \notin Wanted THEN <<>>
                        ELSE <<Head(pipes[k])>>
          /\ \A q \in Processes \ {p} : held'[q] = held[q]
    BY <1>1, <1>5, ReadLineIs
  <2>2. p = "P2" /\ k = 1 /\ tool[p] = "own"
    BY <2>1 DEF Reading
  <2>3. held'["P2"] = <<Head(pipes[1])>> /\ pipes'[1] = Tail(pipes[1]) /\ held'["P1"] = held["P1"]
    BY <2>1, <2>2, NamesAre
  <2>4. UNCHANGED tty /\ ~WriteLine(p)
    <3>1. ~Writes(p)
      BY <1>1, <1>5, <2>2, ReaderDoesNotWrite DEF ReadLine
    <3> QED BY <1>5, <3>1 DEF ReadLine, WriteLine
  <2>5. Placed(tty, <<Head(pipes[1])>>, Tail(pipes[1]), held["P1"])
    BY <1>2, <1>3, <2>1, <2>2, LineRead
  <2> QED BY <1>2, <1>4, <2>3, <2>4, <2>5 DEF Placed
<1>6. CASE WriteLine(p)
  <2>1. /\ held[p] # <<>> /\ held'[p] = Tail(held[p])
        /\ \A q \in Processes \ {p} : held'[q] = held[q]
        /\ \/ Printing(p) /\ tty' = Append(tty, Head(held[p])) /\ pipes' = pipes
           \/ \E k \in Pipe : /\ Sending(p, k) /\ tty' = tty
                              /\ pipes'[k] = Append(pipes[k], Head(held[p]))
                              /\ \A j \in Pipe \ {k} : pipes'[j] = pipes[j]
    BY <1>1, <1>6, WriteLineIs
  <2>2. CASE p = "P2"
    <3>1. tty' = Append(tty, Head(held["P2"])) /\ pipes' = pipes /\ held'["P1"] = held["P1"]
          /\ held'["P2"] = Tail(held["P2"]) /\ held["P2"] # <<>>
      BY <2>1, <2>2, NamesAre DEF Sending
    <3>2. /\ Placed(Append(tty, Head(held["P2"])), Tail(held["P2"]), pipes[1], held["P1"])
          /\ Append(tty, Head(held["P2"])) # <<>>
      BY <1>2, <1>3, <3>1, LinePrinted
    <3> QED BY <3>1, <3>2 DEF Placed
  <2>3. CASE p = "P1"
    <3>1. /\ tty' = tty /\ pipes'[1] = Append(pipes[1], Head(held["P1"])) /\ held'["P2"] = held["P2"]
          /\ held'["P1"] = Tail(held["P1"]) /\ held["P1"] # <<>>
      BY <2>1, <2>3, NamesAre DEF Sending, Printing
    <3>2. Placed(tty, held["P2"], Append(pipes[1], Head(held["P1"])), Tail(held["P1"]))
      BY <1>2, <1>3, <3>1, LineSent
    <3> QED BY <1>2, <1>4, <2>3, <3>1, <3>2 DEF Placed
  <2>4. CASE p = "P3"
    BY <2>1, <2>4 DEF Sending, Printing
  <2> QED BY <2>2, <2>3, <2>4, NamesAre
<1>7. CASE ~ReadLine(p) /\ ~WriteLine(p)
  <2>1. ~ReadEOF(p) /\ ~ExecTool(p)
    BY <1>1, NoEarlyEnd, ExecIs
  <2>2. UNCHANGED <<held, pipes, tty>>
    BY <1>7, <2>1 DEF Step, MakePipe, ForkChild, CannotFork, Close, Dup2, CannotExec, Sleep, Wait, Exit,
       BrokenPipe, Kill
  <2> QED BY <1>2, <1>4, <1>7, <2>2 DEF Placed
<1> QED BY <1>5, <1>6, <1>7

-----------------------------------------------------------------------------
LEMMA OrderSteps ==
  ASSUME PipesInd, Loaded, ExecIsLast, InOrder, NEW p \in Processes, Step(p) \/ Kill(p)
  PROVE  InOrder'
<1> SUFFICES ASSUME ~disturbed'
             PROVE  NoneKilled' /\ ForkedBorn' /\ GrepAfterCat' /\ SortAfterGrep' /\ LineKept'
  BY InOrderIs
<1>1. ~disturbed
  BY Undisturbed
<1>2. Orderly
  BY <1>1, InOrderIs DEF Orderly
<1> QED BY <1>2, KillsNobody, ForksBear, GrepEndsLater, SortEndsLater, LineStays

LEMMA OrderStays ==
  ASSUME InOrder, ExecIsLast, UNCHANGED pipesVars
  PROVE  InOrder' /\ ExecIsLast'
BY DEF InOrder, ExecIsLast, Past, Code, pipesVars

LEMMA OrderStart ==
  ASSUME PipesInit
  PROVE  InOrder /\ ExecIsLast
<1>1. \A p \in Processes : ip[p] = 1 /\ tool[p] = "own" /\ 1..ip[p] - 1 = {}
  BY DEF PipesInit
<1>2. \A p \in Processes : \A op : ~Past(p, op)
  BY <1>1 DEF Past
<1>3. state["P2"] = "unborn" /\ tool["P3"] = "own" /\ \A p \in Processes : state[p] \in {"unborn", "running"}
  BY <1>1, NamesAre DEF PipesInit
<1>4. tty = <<>> /\ held["P2"] = <<>> /\ pipes[1] = <<>> /\ held["P1"] = <<Typed>>
  BY NamesAre DEF PipesInit
<1>5. (<<>> \o <<>>) \o (<<>> \o <<Typed>>) = <<Typed>>
  <2>1. <<Typed>> \in Seq(Lines) /\ <<>> \in Seq(Lines)
    BY LinesAre
  <2>2. \A w \in Seq(Lines) : <<>> \o w = w
    OBVIOUS
  <2> QED BY <2>1, <2>2, Zenon
<1> QED BY <1>1, <1>2, <1>3, <1>4, <1>5, NamesAre DEF InOrder, ExecIsLast

(* The end. *)
LEMMA FilteredIs ==
  ASSUME NEW n \in 0..Len(Scores)
  PROVE  Kept[n] \in Seq(Lines) /\ Filtered \in Seq(Lines) /\ Goes(Kept[n], Filtered)
<1>1. Len(Scores) \in Nat
  BY LinesAre
<1>2. Len(Scores) \in 0..Len(Scores) /\ n <= Len(Scores)
  BY <1>1
<1> HIDE DEF Kept
<1>3. Kept[n] \in Seq(Lines) /\ Goes(Kept[n], Kept[Len(Scores)])
  BY <1>2, KeptGrows
<1>4. Kept[Len(Scores)] \in Seq(Lines)
  BY <1>2, KeptGrows
<1> QED BY <1>3, <1>4 DEF Filtered

(* Nothing is left of the file when cat is done and the first pipe is empty. *)
LEMMA AllThrough ==
  ASSUME tool["P1"] = "cat", held["P1"] = <<>>, pipes[1] = <<>>
  PROVE  Through = Len(Scores)
<1>1. Len(held["P1"]) = 0 /\ Len(pipes[1]) = 0 /\ Len(Scores) \in Nat
  BY LinesAre
<1> QED BY <1>1 DEF Through, Sent

LEMMA AtTheEnd ==
  ASSUME FlowInd, Over, ~disturbed
  PROVE  IsOutput(tty) /\ \A p \in Processes : state[p] \in {"done", "unborn"}
<1>1. /\ PipesInd /\ PipesTypeOK /\ Loaded /\ ExecIsLast /\ LinesFlow
      /\ NoneKilled /\ ForkedBorn /\ GrepAfterCat /\ SortAfterGrep /\ LineKept
  BY InOrderIs DEF FlowInd, PipesInd
<1>2. \A p \in Processes : state[p] \in {"done", "unborn"}
  BY <1>1 DEF NoneKilled, Over, Running
<1>3. state["P1"] = "done"
  BY <1>1, <1>2, NamesAre DEF PipesInd, Born
<1>4. ASSUME program = "pipes1"
      PROVE  tty = <<Typed>>
  <2>1. ip["P1"] > 3
    BY <1>1, <1>3, <1>4, NamesAre, DoneAre
  <2>2. state["P2"] # "unborn"
    BY <1>1, <1>4, <2>1, BornAfter
  <2>3. state["P2"] = "done"
    BY <1>2, <2>2, NamesAre
  <2>4. Past("P2", "write")
    BY <1>1, <1>4, <2>3, NamesAre, DoneAre
  <2>5. tty # <<>> /\ (tty \o held["P2"]) \o (pipes[1] \o held["P1"]) = <<Typed>>
    BY <1>1, <1>4, <2>4 DEF LineKept
  <2>6. OneLineOf(tty, held["P2"], pipes[1], held["P1"])
    <3>1. /\ tty \in Seq(Lines) /\ held["P2"] \in Seq(Lines) /\ pipes[1] \in Seq(Lines)
          /\ held["P1"] \in Seq(Lines)
      BY <1>1, FlowTypes
    <3> QED BY <2>5, <3>1, OneLineIs, Zenon
  <2> QED BY <2>5, <2>6 DEF OneLineOf
<1>5. ASSUME program \in {"pipes2", "pipes3"}
      PROVE  /\ tool["P1"] = "cat" /\ held["P1"] = <<>> /\ state["P2"] = "done" /\ tool["P2"] = "grep"
             /\ held["P2"] = <<>> /\ Through = Len(Scores)
  <2>1. tool["P1"] = "cat" /\ held["P1"] = <<>>
    BY <1>1, <1>3, <1>5, NamesAre, DoneAre
  <2>2. ip["P1"] = (IF program = "pipes2" THEN 5 ELSE 9)
    BY <1>1, <2>1, ToolsAre
  <2>3. state["P2"] # "unborn"
    BY <1>1, <1>5, <2>2, BornAfter
  <2>4. state["P2"] = "done"
    BY <1>2, <2>3, NamesAre
  <2>5. tool["P2"] = "grep" /\ held["P2"] = <<>>
    BY <1>1, <1>5, <2>4, NamesAre, DoneAre
  <2>6. pipes[1] = <<>>
    BY <1>1, <1>5, <2>4 DEF GrepAfterCat
  <2> QED BY <2>1, <2>4, <2>5, <2>6, AllThrough
<1>6. tty \in Seq(Lines) /\ Filtered = Kept[Len(Scores)] /\ Filtered \in Seq(Lines)
  <2>1. Len(Scores) \in 0..Len(Scores)
    BY LinesAre
  <2> QED BY <1>1, <2>1, FilteredIs, FlowTypes DEF Filtered
<1> HIDE DEF Kept, Filtered
<1>7. ASSUME program = "pipes2"
      PROVE  tty = Filtered
  <2>1. Kept[Through] = tty \o held["P2"]
    BY <1>1, <1>7 DEF LinesFlow
  <2> QED BY <1>5, <1>6, <1>7, <2>1
<1>8. ASSUME program = "pipes3"
      PROVE  tty \in Sortings(Filtered)
  <2>1. ip["P2"] = 8
    BY <1>1, <1>5, <1>8, ToolsAre
  <2>2. state["P3"] # "unborn"
    BY <1>1, <1>8, <2>1, BornAfter
  <2>3. state["P3"] = "done"
    BY <1>2, <2>2, NamesAre
  <2>4. tool["P3"] = "sorted" /\ held["P3"] = <<>>
    BY <1>1, <1>8, <2>3, NamesAre, DoneAre
  <2>5. pipes[2] = <<>>
    BY <1>1, <1>8, <2>4 DEF SortAfterGrep
  <2>6. PICK got \in Prefixes(Kept[Through]) :
          /\ Kept[Through] = got \o (pipes[2] \o held["P2"])
          /\ tty \o held["P3"] \in Sortings(got)
    BY <1>1, <1>8, <2>4 DEF LinesFlow, SortFlows
  <2>7. Kept[Through] = Filtered /\ held["P2"] = <<>>
    BY <1>5, <1>6, <1>8
  <2>8. got \in Seq(Lines)
    BY <1>6, <2>6, <2>7, PrefixLeaves
  <2>9. Filtered = got
    BY <2>5, <2>6, <2>7, <2>8
  <2>10. tty \o <<>> = tty
    BY <1>6
  <2> QED BY <2>4, <2>6, <2>9, <2>10
<1>9. program = "main3" => tty = <<>>
  BY <1>1 DEF LinesFlow
<1> QED BY <1>2, <1>4, <1>7, <1>8, <1>9 DEF IsOutput

LEMMA NothingSorted == <<>> \in Sortings(<<>>)
<1>1. DOMAIN <<>> = {} /\ Len(<<>>) = 0
  OBVIOUS
<1> DEFINE none == [i \in {} |-> i]
<1>2. none \in Bijection({}, {})
  BY DEF Bijection, Injection, Surjection, IsInjective
<1>3. <<>> = [i \in DOMAIN <<>> |-> <<>>[none[i]]]
  BY <1>1
<1>4. Sorted(<<>>)
  BY <1>1 DEF Sorted
<1> HIDE DEF none
<1>5. none \in Bijection(DOMAIN <<>>, DOMAIN <<>>)
  BY <1>1, <1>2, Zenon
<1> QED BY <1>3, <1>4, <1>5 DEF Sortings

LEMMA FarThrough ==
  ASSUME PipesInd, LinesFlow, program \in {"pipes2", "pipes3"}
  PROVE  Through \in 0..Len(Scores)
<1>1. CatFlows
  BY DEF LinesFlow
<1>2. Len(held["P1"]) \in Nat /\ Len(pipes[1]) \in Nat /\ Len(Scores) \in Nat
  BY FlowTypes, LinesAre
<1> QED BY <1>1, <1>2 DEF CatFlows, Through, Sent

LEMMA FirstParts ==
  ASSUME FlowInd
  PROVE  /\ program = "pipes2" => IsPrefix(tty, Filtered)
         /\ program = "pipes3" => \E got \in Prefixes(Filtered) : \E lines \in Sortings(got) : IsPrefix(tty, lines)
<1>1. PipesInd /\ LinesFlow /\ tty \in Seq(Lines) /\ held["P2"] \in Seq(Lines) /\ held["P3"] \in Seq(Lines)
      /\ pipes[2] \in Seq(Lines)
  BY FlowTypes DEF FlowInd
<1>2. ASSUME program \in {"pipes2", "pipes3"}
      PROVE  Kept[Through] \in Seq(Lines) /\ \E rest \in Seq(Lines) : Filtered = Kept[Through] \o rest
  BY <1>1, <1>2, FarThrough, FilteredIs DEF Goes
<1> HIDE DEF Kept, Filtered
<1>3. ASSUME program = "pipes2"
      PROVE  IsPrefix(tty, Filtered)
  <2>1. PICK rest \in Seq(Lines) : Filtered = Kept[Through] \o rest
    BY <1>2, <1>3
  <2>2. Kept[Through] = tty \o held["P2"]
    BY <1>1, <1>3 DEF LinesFlow
  <2>3. PICK out \in Seq(Lines), line \in Seq(Lines) : out = tty /\ line = held["P2"]
    BY <1>1
  <2>4. out \o (line \o rest) = (out \o line) \o rest
    BY Associates, ZenonT(30)
  <2>5. line \o rest \in Seq(Lines)
    OBVIOUS
  <2>6. IsPrefix(out, out \o (line \o rest))
    BY <2>5, PrefixJoined
  <2> QED BY <2>1, <2>2, <2>3, <2>4, <2>6
<1>4. ASSUME program = "pipes3"
      PROVE  \E got \in Prefixes(Filtered) : \E lines \in Sortings(got) : IsPrefix(tty, lines)
  <2>1. PICK rest \in Seq(Lines) : Filtered = Kept[Through] \o rest
    BY <1>2, <1>4
  <2>2. PICK got \in Prefixes(Kept[Through]) :
          /\ Kept[Through] = got \o (pipes[2] \o held["P2"])
          /\ IF tool["P3"] = "sorted" THEN tty \o held["P3"] \in Sortings(got) ELSE tty = <<>>
    BY <1>1, <1>4 DEF LinesFlow, SortFlows
  <2>3. CASE tool["P3"] = "sorted"
    <3>1. got \in Seq(Lines) /\ pipes[2] \o held["P2"] \in Seq(Lines)
      BY <1>1, <1>2, <1>4, PrefixLeaves
    <3>2. PICK more \in Seq(Lines) : more = pipes[2] \o held["P2"]
      BY <3>1
    <3>3. (got \o more) \o rest = got \o (more \o rest) /\ more \o rest \in Seq(Lines)
      BY <3>1, Joined
    <3>4. got \in Prefixes(Filtered)
      BY <2>1, <2>2, <3>1, <3>2, <3>3, PrefixJoined
    <3>5. IsPrefix(tty, tty \o held["P3"])
      BY <1>1, PrefixJoined
    <3> QED BY <2>2, <2>3, <3>4, <3>5
  <2>4. CASE tool["P3"] # "sorted"
    <3>1. tty = <<>>
      BY <2>2, <2>4
    <3>2. <<>> \in Seq(Lines) /\ Filtered \in Seq(Lines)
      BY <1>2, <1>4, <2>1
    <3>3. <<>> \o Filtered = Filtered /\ <<>> \o <<>> = <<>>
      BY <3>2
    <3>4. <<>> \in Prefixes(Filtered) /\ IsPrefix(<<>>, <<>>)
      BY <3>2, <3>3, PrefixJoined
    <3> QED BY <3>1, <3>4, NothingSorted
  <2> QED BY <2>3, <2>4
<1> QED BY <1>3, <1>4

LEMMA FlowIndStart == PipesInit => FlowInd
BY PipesStart, FlowStart, OrderStart DEF FlowInd

LEMMA FlowIndSteps == FlowInd /\ [PipesNext]_pipesVars => FlowInd'
<1> SUFFICES ASSUME FlowInd, [PipesNext]_pipesVars PROVE FlowInd'
  OBVIOUS
<1>1. PipesInd /\ Loaded /\ ExecIsLast /\ LinesFlow /\ InOrder /\ PipesTypeOK
  BY DEF FlowInd, PipesInd
<1>2. CASE UNCHANGED pipesVars
  <2>1. LinesFlow'
    BY <1>1, <1>2, FlowStays DEF pipesVars
  <2> QED BY <1>1, <1>2, <2>1, PipesStutter, OrderStays DEF FlowInd
<1>3. ASSUME NEW p \in Processes, Step(p) \/ Kill(p)
      PROVE  FlowInd'
  <2>1. PipesNext
    BY <1>3 DEF PipesNext
  <2>2. (PipesInd /\ Loaded)' /\ LinesFlow'
    BY <1>1, <2>1, PipesSteps, FlowSteps
  <2>3. ExecIsLast' /\ InOrder'
    BY <1>1, <1>3, ExecStaysLast, OrderSteps
  <2> QED BY <2>2, <2>3 DEF FlowInd
<1> QED BY <1>2, <1>3 DEF PipesNext

(* The programs of the labs never leave a reader that could write to the pipe it  *)
(* reads, whichever calls fail and whoever is killed; what is open where follows  *)
(* from the calls made, and a parent that waits ends after its children.          *)
THEOREM PipesInvariant == PipesSpec => []PipesInv
<1>1. FlowInd => PipesInv
  BY InputEnds, ParentIsLast DEF FlowInd, PipesInd, PipesInv
<1> QED BY <1>1, FlowIndStart, FlowIndSteps, PTL DEF PipesSpec

(* The three programs with pipes print what the shell's pipelines would, if no    *)
(* call fails and nobody is killed, and nobody dies of SIGPIPE; grep's lines are  *)
(* always a first part of that, and sort's of a first part of it in order.        *)
THEOREM PipesOutput == PipesSpec => []OutputIsRight
<1>1. FlowInd => OutputIsRight
  BY AtTheEnd, FirstParts DEF FlowInd, OutputIsRight
<1> QED BY <1>1, FlowIndStart, FlowIndSteps, PTL DEF PipesSpec
=============================================================================
