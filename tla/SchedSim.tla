------------------------------ MODULE SchedSim ------------------------------
(***************************************************************************)
(* The scheduling simulator of lab 5 (schedsim.c): main computes, one      *)
(* after the other, the waiting times of the processes in a file under     *)
(* first come first served, shortest (remaining) job first, priority and   *)
(* round robin, each time on a fresh copy of the file.                     *)
(*                                                                         *)
(* A process is named by its place in the file.  FCFS and priority are one *)
(* step each; the loops of SJF and round robin are taken turn by turn.     *)
(***************************************************************************)
EXTENDS Integers, Sequences, FiniteSets, FiniteSetsExt, SequencesExt, Functions

CONSTANTS Jobs,      \* the processes a file may have: records of bt, art and pri
          MaxJobs,   \* bound: the most processes in a file
          quantum,   \* 2
          MaxTime    \* bound: the simulated time of SJF

INT_MAX == 2147483647

ASSUME SchedAssumption ==
  /\ \A j \in Jobs : j.bt \in Nat \ {0} /\ j.art \in Nat /\ j.pri \in Int
  /\ MaxJobs \in Nat /\ quantum \in Nat \ {0} /\ MaxTime \in Nat

Policies == {"FCFS", "SJF", "Priority", "RR"}

VARIABLES file,    \* the processes
          policy,  \* the policy whose turn it is, or "done"
          wt,      \* the waiting times found so far, by policy and process
          rem_bt, t,                                \* of SJF and RR
          completed, min_bt, shortest, is_found,    \* of SJF
          i, idle                                   \* of RR: the process looked at, done

vars == <<file, policy, wt, rem_bt, t, completed, min_bt, shortest, is_found, i, idle>>
sjf == <<completed, min_bt, shortest, is_found>>
rr  == <<i, idle>>

Ids == DOMAIN file
Bt(p) == file[p].bt

Init == /\ file \in UNION {[1..n -> Jobs] : n \in 1..MaxJobs}
        /\ policy = "FCFS"
        /\ wt = [q \in Policies |-> [p \in Ids |-> 0]]
        /\ rem_bt = [p \in Ids |-> Bt(p)] /\ t = 0
        /\ completed = 0 /\ min_bt = INT_MAX /\ shortest = 1 /\ is_found = FALSE
        /\ i = 1 /\ idle = TRUE

(* The next policy begins with its variables as Init gives them. *)
GoOn(next) == /\ policy' = next
              /\ rem_bt' = [p \in Ids |-> Bt(p)] /\ t' = 0
              /\ completed' = 0 /\ min_bt' = INT_MAX /\ shortest' = 1 /\ is_found' = FALSE
              /\ i' = 1 /\ idle' = TRUE
              /\ UNCHANGED file

-----------------------------------------------------------------------------
(* Fault: a process's own burst is added, not its predecessor's. *)
FindWaitingTimeOwn(l) ==
  LET w[k \in DOMAIN l] == IF k = 1 THEN file[l[1]].art ELSE Bt(l[k]) + w[k - 1]
  IN [p \in Ids |-> w[CHOOSE k \in DOMAIN l : l[k] = p]]

(* findWaitingTime on a list of processes: the first waits for its arrival,     *)
(* and the others do not look at theirs.                                        *)
FindWaitingTime(l) ==
  LET w[k \in DOMAIN l] == IF k = 1 THEN file[l[1]].art ELSE Bt(l[k - 1]) + w[k - 1]
  IN [p \in Ids |-> w[CHOOSE k \in DOMAIN l : l[k] = p]]

FCFS == /\ policy = "FCFS"
        /\ wt' = [wt EXCEPT !["FCFS"] = FindWaitingTime([k \in Ids |-> k])]
        /\ GoOn("SJF")

(* qsort may leave processes of one priority in any order. *)
Priority == /\ policy = "Priority"
            /\ \E l \in SetToSeqs(Ids) :
                 /\ \A k \in 1..Len(l)-1 : file[l[k]].pri <= file[l[k + 1]].pri
                 /\ wt' = [wt EXCEPT !["Priority"] = FindWaitingTime(l)]
            /\ GoOn("RR")

-----------------------------------------------------------------------------
(* findWaitingTimeSJF.  The scan of one turn finds the first of the shortest    *)
(* processes that have arrived and are shorter than what is left of the last    *)
(* one.                                                                         *)
(* Faults: a running process is not preempted; only what arrives now is seen.   *)
ShorterWhenFree  == {p \in Ids : file[p].art <= t /\ min_bt = INT_MAX /\ rem_bt[p] > 0}
ShorterOnArrival == {p \in Ids : file[p].art = t /\ rem_bt[p] < min_bt /\ rem_bt[p] > 0}

Shorter == {p \in Ids : file[p].art <= t /\ rem_bt[p] < min_bt /\ rem_bt[p] > 0}

Found == IF Shorter = {} THEN shortest
         ELSE CHOOSE p \in Shorter : \A q \in Shorter : \/ rem_bt[p] < rem_bt[q]
                                                        \/ rem_bt[p] = rem_bt[q] /\ p <= q

(* Nothing has arrived so far.  is_found is never reset: in a gap between       *)
(* arrivals the loop goes on with a process that is finished.                   *)
WaitForArrival == /\ policy = "SJF" /\ t < MaxTime
                  /\ ~is_found /\ Shorter = {}
                  /\ t' = t + 1
                  /\ UNCHANGED <<file, policy, wt, rem_bt, sjf, rr>>

RunShortest == /\ policy = "SJF" /\ completed # Len(file) /\ t < MaxTime
               /\ is_found \/ Shorter # {}
               /\ is_found' = TRUE
               /\ shortest' = Found
               /\ rem_bt' = [rem_bt EXCEPT ![Found] = @ - 1]
               /\ min_bt' = IF rem_bt'[Found] = 0 THEN INT_MAX ELSE rem_bt'[Found]
               /\ IF rem_bt'[Found] = 0
                  THEN /\ completed' = completed + 1
                       /\ wt' = [wt EXCEPT !["SJF"][Found] = Max({0, t + 1 - Bt(Found) - file[Found].art})]
                  ELSE UNCHANGED <<completed, wt>>
               /\ t' = t + 1
               /\ UNCHANGED <<file, policy, rr>>

SJFDone == /\ policy = "SJF" /\ completed = Len(file)
           /\ GoOn("Priority")
           /\ UNCHANGED wt

-----------------------------------------------------------------------------
(* findWaitingTimeRR, a process at a time. *)
NextInRound == i' = i + 1 /\ UNCHANGED <<file, policy, sjf>>

Skip == /\ policy = "RR" /\ i <= Len(file) /\ rem_bt[i] <= 0
        /\ NextInRound
        /\ UNCHANGED <<wt, rem_bt, t, idle>>

(* Fault: the waiting time is taken before the clock moves. *)
LastSliceEarly == /\ policy = "RR" /\ i <= Len(file) /\ rem_bt[i] \in 1..quantum
                  /\ t' = t + rem_bt[i]
                  /\ wt' = [wt EXCEPT !["RR"][i] = t - Bt(i)]
                  /\ rem_bt' = [rem_bt EXCEPT ![i] = 0]
                  /\ idle' = FALSE
                  /\ NextInRound

WholeSlice == /\ policy = "RR" /\ i <= Len(file) /\ rem_bt[i] > quantum
              /\ t' = t + quantum
              /\ rem_bt' = [rem_bt EXCEPT ![i] = @ - quantum]
              /\ idle' = FALSE
              /\ NextInRound
              /\ UNCHANGED wt

LastSlice == /\ policy = "RR" /\ i <= Len(file) /\ rem_bt[i] \in 1..quantum
             /\ t' = t + rem_bt[i]
             /\ wt' = [wt EXCEPT !["RR"][i] = t' - Bt(i)]
             /\ rem_bt' = [rem_bt EXCEPT ![i] = 0]
             /\ idle' = FALSE
             /\ NextInRound

NextRound == /\ policy = "RR" /\ i > Len(file)
             /\ IF idle THEN GoOn("done")
                ELSE i' = 1 /\ idle' = TRUE /\ UNCHANGED <<file, policy, rem_bt, t, sjf>>
             /\ UNCHANGED wt

Next == \/ FCFS \/ WaitForArrival \/ RunShortest \/ SJFDone \/ Priority
        \/ Skip \/ WholeSlice \/ LastSlice \/ NextRound

Spec == Init /\ [][Next]_vars
FairSpec == Spec /\ WF_vars(Next)

-----------------------------------------------------------------------------
(* The values of the variables; only SJF, in a gap between arrivals, makes a     *)
(* remaining burst negative.                                                    *)
TypeOK == /\ file \in Seq(Jobs)
          /\ policy \in Policies \cup {"done"}
          /\ wt \in [Policies -> [Ids -> Int]]
          /\ rem_bt \in [Ids -> Int] /\ (policy # "SJF" => rem_bt \in [Ids -> Nat])
          /\ t \in Nat /\ completed \in 0..Len(file) /\ min_bt \in Int /\ shortest \in Ids
          /\ is_found \in BOOLEAN /\ i \in 1..Len(file)+1 /\ idle \in BOOLEAN

After(q) == \/ q = "FCFS" /\ policy # "FCFS"
            \/ q = "Priority" /\ policy \in {"RR", "done"}
            \/ q = "RR" /\ policy = "done"

(* findTurnAroundTime. *)
Tat(q, p) == Bt(p) + wt[q][p]

(* FCFS and priority run one process at a time, by order of the file or of       *)
(* priority: no two of the stretches from a process's waiting time to its        *)
(* turnaround time overlap.                                                      *)
OneAtATime ==
  \A q \in {"FCFS", "Priority"} : After(q) =>
    \A p, o \in Ids : p # o =>
      /\ Tat(q, p) <= wt[q][o] \/ Tat(q, o) <= wt[q][p]
      /\ (IF q = "FCFS" THEN p < o ELSE file[p].pri < file[o].pri) => Tat(q, p) <= wt[q][o]

(* SJF counts the processes that are finished, and the one it goes on with has  *)
(* the least left of those that had arrived; only in a gap between arrivals it  *)
(* goes on with a finished one.                                                 *)
ShortestRuns ==
  policy = "SJF" =>
    /\ completed = Cardinality({p \in Ids : rem_bt[p] <= 0})
    /\ \A p \in Ids : rem_bt[p] <= Bt(p) /\ (rem_bt[p] < 0 => p = shortest)
    /\ ~is_found => \A p \in Ids : rem_bt[p] = Bt(p)
    /\ is_found => min_bt = IF rem_bt[shortest] = 0 THEN INT_MAX ELSE rem_bt[shortest]
    /\ is_found /\ rem_bt[shortest] > 0 =>
         \A p \in Ids : file[p].art < t /\ rem_bt[p] > 0 => rem_bt[shortest] <= rem_bt[p]

Work == [p \in Ids |-> Bt(p) - rem_bt[p]]
MostWait(p) == ((Bt(p) + quantum - 1) \div quantum) * quantum * (Len(file) - 1)

(* Round robin's clock shows the work done; after r rounds every process has    *)
(* had r slices, if it was not finished earlier, and those before the one       *)
(* looked at one more.                                                          *)
RoundsKept ==
  policy = "RR" =>
    /\ t = SumFunction(Work)
    /\ \E r \in 0..t :
         /\ idle \/ r < t
         /\ \A p \in Ids : LET had == quantum * (IF p < i THEN r + 1 ELSE r)
                           IN rem_bt[p] = IF had < Bt(p) THEN Bt(p) - had ELSE 0
    /\ idle => \A p \in 1..i-1 : rem_bt[p] = 0
    /\ \A p \in Ids : rem_bt[p] = 0 => wt["RR"][p] \in 0..MostWait(p) /\ Tat("RR", p) <= t
    /\ (\A p \in Ids : rem_bt[p] = 0) => \E p \in Ids : Tat("RR", p) = t

(* The inductive invariant. *)
SchedInv == TypeOK /\ OneAtATime /\ ShortestRuns /\ RoundsKept

(* The least waiting time in all that any scheduler can reach from time now on, *)
(* a unit of time after the other, with rem left of each process.               *)
LeastWaiting ==
  LET least[rem \in [Ids -> Nat], now \in Nat] ==
        LET ready == {p \in Ids : rem[p] > 0 /\ file[p].art <= now}
        IN CASE \A p \in Ids : rem[p] = 0 -> 0
             [] ready = {} /\ \E p \in Ids : rem[p] > 0 -> least[rem, now + 1]
             [] ready # {} -> Cardinality(ready) - 1
                              + Min({least[[rem EXCEPT ![p] = @ - 1], now + 1] : p \in ready})
  IN least[[p \in Ids |-> Bt(p)], 0]

(* When SJF has ended, no schedule waits less in all than the one it found.     *)
SjfIsOptimal == policy = "Priority" => SumFunction(wt["SJF"]) = LeastWaiting

(* Round robin is fair: between two of its slices a process waits for one of    *)
(* each of the others, however long they are, and the last one ends when all    *)
(* the work is done.                                                            *)
RRIsFair ==
  After("RR") =>
    /\ \A p \in Ids : wt["RR"][p] \in 0..MostWait(p)
    /\ Max({Tat("RR", p) : p \in Ids}) = SumFunction([p \in Ids |-> Bt(p)])

(* There is no gap: whoever comes later than the first finds the work of those  *)
(* before it not done, or just done.                                            *)
FirstArrival == Min({file[p].art : p \in Ids})
KeptBusy == \A p \in Ids :
  LET before == {o \in Ids : file[o].art < file[p].art}
  IN before # {} => file[p].art <= FirstArrival + SumFunctionOnSet([o \in Ids |-> Bt(o)], before)

(* main prints all four tables if there is no gap between arrivals; with a gap  *)
(* SJF counts below zero and does not end.                                      *)
EndsIfKeptBusy == /\ KeptBusy => <>(policy = "done")
                  /\ ~KeptBusy => []<>(policy = "SJF")
=============================================================================
