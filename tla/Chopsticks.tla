------------------------------ MODULE Chopsticks ------------------------------
(***************************************************************************)
(* The monitor sudh/monitor/chopsticks.c and its philosophers.  M is held  *)
(* from the entry of a function to its end or its wait, so that each is    *)
(* one step.                                                               *)
(***************************************************************************)
EXTENDS PosixIpc

CONSTANTS NTHREADS, maxsteps

Philosophers == 0 .. NTHREADS - 1
LEFT(i)  == (i + NTHREADS - 1) % NTHREADS
RIGHT(i) == (i + 1) % NTHREADS

Init ==
    /\ pc = [i \in Philosophers |-> "thinking"]
    /\ sem = <<>>
    /\ asleep = {}
    /\ mem = [state |-> [i \in Philosophers |-> "THINKING"], nsteps |-> 0]

LeftOnly(state, i) ==                                        \* faulty variant
    IF state[i] = "HUNGRY" /\ state[LEFT(i)] # "EATING"
    THEN [state EXCEPT ![i] = "EATING"] ELSE state
update_state(state, i) ==
    IF /\ state[i] = "HUNGRY"
       /\ state[LEFT(i)] # "EATING" /\ state[RIGHT(i)] # "EATING"
    THEN [state EXCEPT ![i] = "EATING"] ELSE state

(* trace: a thread ends only while it holds no chopsticks.                 *)
Trace(i, from, to) ==
    /\ Go(i, from, IF from = "thinking" /\ mem.nsteps > maxsteps
                   THEN "end" ELSE to)
    /\ mem' = [mem EXCEPT !.nsteps = @ + 1]
    /\ UNCHANGED <<sem, asleep>>

chopsticks_take(i) ==
    LET state == update_state([mem.state EXCEPT ![i] = "HUNGRY"], i)
    IN  /\ Go(i, "take", IF state[i] = "HUNGRY" THEN "wait" ELSE "eating")
        /\ mem' = [mem EXCEPT !.state = state]
        /\ asleep' = IF state[i] = "HUNGRY" THEN asleep \cup {i} ELSE asleep
        /\ UNCHANGED sem

Wake(i) ==
    /\ Woken(i)
    /\ Go(i, "wait", IF mem.state[i] = "HUNGRY" THEN "wait" ELSE "eating")
    /\ asleep' = IF mem.state[i] = "HUNGRY" THEN asleep \cup {i} ELSE asleep
    /\ UNCHANGED <<sem, mem>>

(* The neighbours that may eat now are made to, and signalled.             *)
chopsticks_put(i) ==
    LET down == [mem.state EXCEPT ![i] = "THINKING"]
        state == update_state(update_state(down, LEFT(i)), RIGHT(i))
    IN  /\ Go(i, "put", "thinking")
        /\ mem' = [mem EXCEPT !.state = state]
        /\ asleep' = asleep \ {j \in {LEFT(i), RIGHT(i)} : state[j] # down[j]}
        /\ UNCHANGED sem

Next ==
    \E i \in Philosophers :
       \/ Trace(i, "thinking", "take") \/ Trace(i, "eating", "put")
       \/ chopsticks_take(i) \/ Wake(i) \/ chopsticks_put(i)

Finished == \A i \in Philosophers : pc[i] = "end"

(* "The caller will block until both chopsticks are available"             *)
(* (chopsticks.h): neighbours never hold theirs together.                  *)
NeighboursApart ==
    \A i \in Philosophers :
       ~(pc[i] \in {"eating", "put"} /\ pc[RIGHT(i)] \in {"eating", "put"})

(* Whoever sleeps hungry has a neighbour who eats and will look after him; *)
(* nobody sleeps who was made to eat.                                      *)
NobodyForgotten ==
    \A i \in asleep :
       /\ mem.state[i] = "HUNGRY"
       /\ \E j \in {LEFT(i), RIGHT(i)} : mem.state[j] = "EATING"
===============================================================================
