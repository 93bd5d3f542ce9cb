------------------------------- MODULE PosixIpc -------------------------------
(***************************************************************************)
(* What the small programs of the repository use of POSIX: counting        *)
(* semaphores and condition variables.  A mutex that is held over another  *)
(* call that may block is a semaphore of value 0 or 1; a section between   *)
(* pthread_mutex_lock and pthread_mutex_unlock, or between it and          *)
(* pthread_cond_wait, is one step where everything it touches is touched   *)
(* under that mutex only.                                                  *)
(***************************************************************************)
EXTENDS Integers, Sequences, FiniteSets

VARIABLES
    pc,       \* where each thread or process is
    sem,      \* the semaphores and mutexes, by their C name
    asleep,   \* the threads that sleep in pthread_cond_wait
    mem       \* the globals, and the locals that outlive a step

vars == <<pc, sem, asleep, mem>>

Go(t, from, to) == pc[t] = from /\ pc' = [pc EXCEPT ![t] = to]
At(T, L) == {t \in T : pc[t] \in L}

Down(s) == sem[s] > 0 /\ sem' = [sem EXCEPT ![s] = @ - 1]
Up(s)   == sem' = [sem EXCEPT ![s] = @ + 1]

(* A thread that pthread_cond_wait has woken goes on when it has the mutex *)
(* again.  Spurious wakeups are left out.                                  *)
Woken(t) == t \notin asleep
Signal(T) ==
    IF asleep \cap T = {} THEN UNCHANGED asleep
    ELSE \E t \in asleep \cap T : asleep' = asleep \ {t}
Broadcast(T) == asleep' = asleep \ T
===============================================================================
