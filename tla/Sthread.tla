------------------------------- MODULE Sthread -------------------------------
(***************************************************************************)
(* The user-level thread library OS-master/shishir-sync/sthread.c.         *)
(*                                                                         *)
(* A task is an entry of the run queue; its ucontext_t holds the           *)
(* continuation of some flow of control, normally its own.  Flows and      *)
(* tasks are kept apart because swapcontext stores whatever flow executes  *)
(* it into whatever task it is told.  The SIGPROF timer preempts wherever  *)
(* signals are not blocked; code between block() and unblock() is one      *)
(* step.  schedule() and kill_thread() unblock before they swap, so that   *)
(* the pending swap is a step of its own, and the timer may go off just    *)
(* there.                                                                  *)
(*                                                                         *)
(* Two things go wrong in the library without being noticed: a signal is   *)
(* taken while a swap is pending, and a full queue refuses a task that is  *)
(* only requeued.  mishaps records that they happened; the model goes on,  *)
(* as the code does.  Where what the code does next is undefined, fate     *)
(* says why and the model stops.                                           *)
(***************************************************************************)
EXTENDS Integers, Sequences, FiniteSets

CONSTANTS NThreads,       \* how many threads the program creates
          Limits          \* the values that MAX_THREAD is defined as

ASSUME SthreadAssumption == NThreads \in Nat \ {0} /\ Limits \subseteq Nat

Threads == 0 .. NThreads - 1
Main == -1                        \* s_id of Main_task
NULL == -2
Tasks == Threads \cup {Main}

VARIABLES
    MAX_THREAD, \* chosen when the library is compiled
    queue,      \* the list from head to tail; <<>> when head is NULL
    current,    \* currrent_thread
    count,
    running,    \* the s_ids in the list running
    ctx,        \* the flow that each task's ucontext_t can resume, NULL if none
    cpu,        \* the flow that executes
    swaps,      \* per flow, the swapcontext calls it has yet to make
    armed,      \* is the interval timer on, or a signal of its pending?
    last,       \* the flows that the context `last' or its stack belongs to
    mishaps,
    fate        \* "ok", or why nothing can be said from here on

schedVars == <<queue, current, count, running, ctx, cpu, swaps, armed, last>>
libVars == <<schedVars, mishaps, fate>>

LibInit ==
    /\ queue = <<>>
    /\ current = NULL
    /\ count = 0
    /\ running = {}
    /\ ctx = [t \in Tasks |-> NULL]
    /\ cpu = Main
    /\ swaps = [f \in Tasks |-> <<>>]
    /\ armed = FALSE
    /\ last = {}
    /\ mishaps = {}
    /\ fate = "ok"
    /\ MAX_THREAD \in Limits

Executes(f) == fate = "ok" /\ cpu = f /\ swaps[f] = <<>>

Stop(why) == fate' = why /\ UNCHANGED schedVars

(* sthread_init, signals enabled: until makecontext, the context of the    *)
(* end of every thread is the place where main has just been.              *)
SaveLast(f) ==
    /\ last' = {f}
    /\ UNCHANGED <<queue, current, count, running, ctx, cpu, swaps, armed, mishaps, fate>>
MakeContexts(t) ==
    /\ last' = {}
    /\ ctx' = [ctx EXCEPT ![t] = t]
    /\ UNCHANGED <<queue, current, count, running, cpu, swaps, armed, mishaps, fate>>

(* add_to_queue(new_task, 1): the first thread also queues main, which is  *)
(* the one executing.  A task that is refused has no s_id, and what its    *)
(* creator waits for is undefined.                                         *)
CountMain(t) ==                                              \* faulty variant
    /\ queue' = IF queue = <<>> THEN <<Main, t>> ELSE Append(queue, t)
    /\ count' = IF queue = <<>> THEN 2 ELSE count + 1
    /\ current' = Head(queue') /\ armed' = TRUE /\ running' = running \cup {t}
    /\ UNCHANGED <<ctx, cpu, swaps, last, mishaps, fate>>
AddNew(t) ==
    IF queue # <<>> /\ count = MAX_THREAD
    THEN Stop("refused") /\ UNCHANGED mishaps
    ELSE /\ IF queue = <<>>
            THEN queue' = <<Main, t>> /\ current' = Main /\ armed' = TRUE /\ last' = {}
            ELSE queue' = Append(queue, t) /\ UNCHANGED <<current, armed, last>>
         /\ count' = count + 1
         /\ running' = running \cup {t}
         /\ UNCHANGED <<ctx, cpu, swaps, mishaps, fate>>

(* add_to_queue(t, 0): a full queue refuses a task that is only requeued.  *)
DropRequeued(t) == queue                                     \* faulty variant
Requeue(t) == IF count = MAX_THREAD THEN queue ELSE Append(queue, t)

(* swapcontext(save, to), still to be made by flow f; to = NULL stands for *)
(* currrent_thread at the time of the call, save = NULL for a context that *)
(* nobody resumes.                                                         *)
SwapLater(f, save, to) ==
    swaps' = [swaps EXCEPT ![f] = Append(@, [save |-> save, to |-> to])]

(* schedule(), as the SIGPROF handler or called by flow f: the head of the *)
(* queue goes to the tail and the second task becomes the current one.     *)
Mishap(f) ==
    (IF swaps[f] # <<>> THEN {"late"} ELSE {})
      \cup (IF Len(queue) > 1 /\ count = MAX_THREAD THEN {"full"} ELSE {})
schedule(f) ==
    /\ mishaps' = mishaps \cup Mishap(f)
    /\ IF queue = <<>>
       THEN Stop("null")
       ELSE /\ IF current = NULL
               THEN /\ current' = Head(queue)
                    /\ SwapLater(f, NULL, NULL)
                    /\ UNCHANGED queue
               ELSE IF Len(queue) = 1
               THEN /\ queue' = <<>>
                    /\ SwapLater(f, NULL, Head(queue))
                    /\ UNCHANGED current
               ELSE /\ current' = queue[2]
                    /\ queue' = Tail(Requeue(Head(queue)))
                    /\ SwapLater(f, Head(queue), NULL)
            /\ UNCHANGED <<count, running, ctx, cpu, armed, last, fate>>

(* A thread function returns: uc_link resumes `last', which is to be       *)
(* kill_thread on a stack of its own, the same for every thread.           *)
Leave(t) ==
    /\ IF last = {} THEN last' = {t} /\ UNCHANGED fate
                    ELSE fate' = "wild" /\ UNCHANGED last
    /\ UNCHANGED <<queue, current, count, running, ctx, cpu, swaps, armed, mishaps>>

(* kill_thread(), where the returning thread continues: the task at the    *)
(* head leaves; the last thread switches the timer off and goes back to    *)
(* main.                                                                   *)
KeepRunning(f) ==                                            \* faulty variant
    /\ current' = queue[2]
    /\ queue' = IF Len(queue) = 2 THEN <<>> ELSE Tail(queue)
    /\ SwapLater(f, NULL, queue[2])
    /\ count' = count - 1
    /\ UNCHANGED <<running, ctx, cpu, armed, last, mishaps, fate>>
kill_thread(f) ==
    IF Len(queue) < 2
    THEN Stop("null") /\ UNCHANGED mishaps
    ELSE /\ IF Len(queue) = 2
            THEN current' = NULL /\ queue' = <<>> /\ SwapLater(f, NULL, queue[2])
            ELSE current' = queue[2] /\ queue' = Tail(queue) /\ SwapLater(f, NULL, NULL)
         /\ count' = count - 1
         /\ running' = running \ {Head(queue)}
         /\ UNCHANGED <<ctx, cpu, armed, last, mishaps, fate>>

(* The swapcontext itself; where it is told the task, the timer has been   *)
(* switched off.  A context can be resumed once, since the flow goes on.   *)
Swap(f) ==
    LET call == swaps[f][Len(swaps[f])]
        to == IF call.to = NULL THEN current ELSE call.to
        saved == IF call.save = NULL THEN ctx ELSE [ctx EXCEPT ![call.save] = f]
    IN  /\ fate = "ok" /\ cpu = f /\ swaps[f] # <<>>
        /\ UNCHANGED mishaps
        /\ IF to = NULL
           THEN Stop("null")
           ELSE IF saved[to] = NULL
           THEN Stop("wild")
           ELSE /\ cpu' = saved[to]
                /\ ctx' = [saved EXCEPT ![to] = NULL]
                /\ swaps' = [swaps EXCEPT ![f] = SubSeq(@, 1, Len(@) - 1)]
                /\ armed' = (armed /\ call.to = NULL)
                /\ last' = IF call.save = NULL THEN last \ {f} ELSE last
                /\ UNCHANGED <<queue, current, count, running, fate>>

(* SIGPROF.  At most one signal is taken inside another's window (a bound  *)
(* of the model; the timer's period is a millisecond).                     *)
Sigprof == fate = "ok" /\ armed /\ Len(swaps[cpu]) <= 1 /\ schedule(cpu)

(* SIGPROF between sigfillset(&act) and sigprocmask of block(): whoever    *)
(* runs next has emptied act, and nothing is blocked when f goes on.       *)
Unguarded(f) == armed /\ Executes(f) /\ Stop("bare") /\ UNCHANGED mishaps
=============================================================================
