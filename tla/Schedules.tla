------------------------------- MODULE Schedules -------------------------------
(***************************************************************************)
(* The simulations of schedule/: FCFS.c, SJF.c, PRIOS.c, RR.c and SRTF.c.  *)
(* Each turn of a program's main loop is a step.  ran is not in the code:  *)
(* it says which process has each unit of time, so that the waiting times  *)
(* the programs count can be held against what they are meant to count.    *)
(***************************************************************************)
EXTENDS PosixIpc, FiniteSetsExt, Functions, SequencesExt

CONSTANTS NPROC, BurstUpTo, LateUpTo     \* LateUpTo bounds priorities and arrivals

main == 0
Procs == 0 .. NPROC - 1

Init ==
    /\ pc = [t \in {main} |-> "run"]
    /\ sem = <<>> /\ asleep = {}
    /\ \E policy \in {"FCFS", "SJF", "PRIOS", "RR", "SRTF"},
          burst \in [Procs -> 1 .. BurstUpTo], late \in [Procs -> 0 .. LateUpTo],
          quantum \in 1 .. 2 :
         /\ policy \in {"FCFS", "SJF", "RR"} => \A i \in Procs : late[i] = 0
         /\ policy # "RR" => quantum = 1
         /\ mem = [policy |-> policy, burst |-> burst, quantum |-> quantum,
                   prio |-> late, a_time |-> [i \in Procs |-> IF policy = "SRTF" THEN late[i] ELSE 0],
                   p |-> burst, w |-> [i \in Procs |-> 0], ran |-> <<>>,
                   re |-> [k \in 1 .. NPROC |-> k - 1], passes |-> 0, ptr |-> 0, cnt |-> 0]

Stop == pc' = [pc EXCEPT ![main] = "end"]
Running(policy) == pc[main] = "run" /\ mem.policy = policy /\ UNCHANGED <<sem, asleep>>

(* A process that is served runs to its end; all before it were waited for.*)
Served(i) ==
    [mem EXCEPT !.w[i] = Len(mem.ran), !.p[i] = 0, !.cnt = @ + 1,
                !.ran = @ \o [k \in 1 .. mem.burst[i] |-> i]]

FCFS ==
    /\ Running("FCFS")
    /\ IF mem.cnt = NPROC THEN Stop /\ UNCHANGED mem
       ELSE mem' = Served(mem.cnt) /\ UNCHANGED pc

(* One pass of the bubble sort, over the burst times and re together.      *)
Pass ==
    LET sorted[j \in 0 .. NPROC - 1] ==
          IF j = 0 THEN mem.re
          ELSE LET s == sorted[j - 1]
               IN  IF mem.burst[s[j]] > mem.burst[s[j + 1]]
                   THEN [s EXCEPT ![j] = s[j + 1], ![j + 1] = s[j]]
                   ELSE s
    IN  sorted[NPROC - 1]
SJF ==
    /\ Running("SJF")
    /\ IF mem.passes < NPROC
       THEN mem' = [mem EXCEPT !.re = Pass, !.passes = @ + 1] /\ UNCHANGED pc
       ELSE IF mem.cnt = NPROC THEN Stop /\ UNCHANGED mem
       ELSE mem' = Served(mem.re[mem.cnt + 1]) /\ UNCHANGED pc

(* The first of those with the least value.                                *)
FirstLeast(S, value) == Min({i \in S : \A j \in S : value[i] <= value[j]})

Unserved == {i \in Procs : mem.prio[i] # -1}
PRIOS ==
    /\ Running("PRIOS")
    /\ IF Unserved = {} THEN Stop /\ UNCHANGED mem
       ELSE LET idx == FirstLeast(Unserved, mem.prio)
            IN  mem' = [Served(idx) EXCEPT !.prio[idx] = -1] /\ UNCHANGED pc

(* cnt counts the visits to processes that are through, the second and the *)
(* third visit to the same one too: the loop may end before the others are.*)
AllOthers(idx) == Procs \ {idx}                                         \* faulty
Others(idx) == {i \in Procs \ {idx} : mem.p[i] # 0}
RR ==
    /\ Running("RR")
    /\ IF mem.cnt = NPROC THEN Stop /\ UNCHANGED mem
       ELSE LET ptr == mem.ptr
                tmp == Min({mem.p[ptr], mem.quantum})
            IN  /\ mem' = [mem EXCEPT
                     !.cnt = IF mem.p[ptr] = 0 THEN @ + 1 ELSE @,
                     !.p[ptr] = @ - tmp,
                     !.w = [i \in Procs |-> IF i \in Others(ptr) THEN @[i] + tmp ELSE @[i]],
                     !.ran = @ \o [k \in 1 .. tmp |-> ptr],
                     !.ptr = (@ + 1) % NPROC]
                /\ UNCHANGED pc

(* Nobody there means the end, even when somebody is still to arrive.      *)
Arrived == {i \in Procs : mem.p[i] # 0 /\ mem.a_time[i] <= Len(mem.ran)}
SRTF ==
    /\ Running("SRTF")
    /\ IF Arrived = {} THEN Stop /\ UNCHANGED mem
       ELSE LET idx == FirstLeast(Arrived, mem.p)
            IN  /\ mem' = [mem EXCEPT
                     !.p[idx] = @ - 1,
                     !.w = [i \in Procs |-> IF i \in Others(idx) /\ mem.a_time[i] < Len(mem.ran) + 1
                                            THEN @[i] + 1 ELSE @[i]],
                     !.ran = Append(@, idx)]
                /\ UNCHANGED pc

Next == FCFS \/ SJF \/ PRIOS \/ RR \/ SRTF

Finished == pc[main] = "end"

-----------------------------------------------------------------------------
Turns(i, upto) == {t \in 1 .. upto : mem.ran[t] = i}
Through(i, upto) == Cardinality(Turns(i, upto)) = mem.burst[i]

(* The waiting time counted for a process that is through is the time from *)
(* its arrival that it was neither running nor through.                    *)
WaitsExact ==
    \A i \in Procs : Through(i, Len(mem.ran)) =>
      mem.w[i] = Cardinality({t \in mem.a_time[i] + 1 .. Len(mem.ran) :
                                mem.ran[t] # i /\ ~Through(i, t - 1)})

(* The least total of waiting that any way of running the processes has,   *)
(* preemptive or not, from time t on with rest still to run.               *)
Least ==
    LET least[rest \in [Procs -> 0 .. BurstUpTo]] ==
          LET t == SumFunction(mem.burst) - SumFunction(rest)
              there == {i \in Procs : rest[i] > 0 /\ mem.a_time[i] <= t}
          IN  IF there = {} THEN 0
              ELSE Cardinality(there) - 1
                   + Min({least[[rest EXCEPT ![i] = @ - 1]] : i \in there})
    IN  least[mem.burst]

(* No other order has less waiting than shortest job first when all are    *)
(* there from the start, and shortest remaining time first in any case.    *)
LeastWaiting ==
    Finished /\ mem.policy \in {"SJF", "SRTF"} /\ (\A i \in Procs : mem.p[i] = 0)
      => SumFunction(mem.w) = Least
================================================================================
