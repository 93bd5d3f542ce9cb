-------------------------------- MODULE MyThread --------------------------------
(***************************************************************************)
(* The libraries of OS-ane/thread library: mythread_rr.c, where a profiling*)
(* timer takes the processor from a thread and main's loop gives it to the *)
(* next, and mythread.c, where each thread runs to its end.  The contexts  *)
(* are pc and, in uc, whose flow a thread's context holds.                 *)
(***************************************************************************)
EXTENDS PosixIpc

CONSTANTS
    RoundRobin,      \* roundrobin of mythread_rr.c, or fcfs of mythread.c
    NThreads, MAX_THREADS,
    Bursts           \* how many pieces of work a thread can have

Threads == 1 .. NThreads
main == 0

(* The structs are locals of main, and nobody sets completed before a      *)
(* thread exits: at first it is what happens to be on the stack.           *)
Init ==
    /\ pc = [t \in {main} \cup Threads |-> IF t = main THEN "create" ELSE "run"]
    /\ sem = <<>> /\ asleep = {}
    /\ \E work \in [Threads -> Bursts], garbage \in [Threads -> {0, 1}] :
         mem = [elements |-> [k \in 0 .. MAX_THREADS - 1 |-> main],
                front |-> -1, rear |-> -1, created |-> 0, current |-> main, cpu |-> main,
                completed |-> garbage, garbage |-> garbage, work |-> work,
                uc |-> [t \in Threads |-> t], turns |-> [t \in Threads |-> 0], fresh |-> FALSE]

(* The circular queue; both ends are -1 when it is empty.                  *)
isEmpty == mem.front = -1 /\ mem.rear = -1
FullTooSoon == (mem.rear + 2) % MAX_THREADS = mem.front                  \* faulty
isFull == (mem.rear + 1) % MAX_THREADS = mem.front
enqueue(t) ==
    IF isFull THEN mem
    ELSE LET rear == (mem.rear + 1) % MAX_THREADS
         IN  [mem EXCEPT !.front = IF isEmpty THEN 0 ELSE @, !.rear = rear, !.elements[rear] = t]
dequeue ==
    IF mem.front = mem.rear THEN [mem EXCEPT !.front = -1, !.rear = -1]
    ELSE [mem EXCEPT !.front = (@ + 1) % MAX_THREADS]

mythread_create ==
    /\ mem.created < NThreads
    /\ LET t == mem.created + 1
       IN  /\ mem' = [enqueue(t) EXCEPT !.created = t, !.current = t]
           /\ Go(main, "create", IF t = NThreads THEN "loop" ELSE "create")
    /\ UNCHANGED <<sem, asleep>>

Dispatch ==
    /\ mem.cpu = main
    /\ IF isEmpty THEN Go(main, "loop", "end") /\ UNCHANGED mem
       ELSE LET to_run == mem.elements[mem.front]
            IN  /\ Go(main, "loop", "stop")
                /\ mem' = [dequeue EXCEPT !.current = to_run, !.cpu = mem.uc[to_run],
                                          !.turns[to_run] = @ + 1, !.fresh = TRUE]
    /\ UNCHANGED <<sem, asleep>>

Work(t) ==
    /\ mem.cpu = t /\ pc[t] = "run" /\ mem.work[t] > 0
    /\ mem' = [mem EXCEPT !.work[t] = @ - 1, !.fresh = FALSE]
    /\ UNCHANGED <<pc, sem, asleep>>

mythread_exit(t) ==
    /\ mem.cpu = t /\ mem.work[t] = 0
    /\ Go(t, "run", "exited")
    /\ mem' = [mem EXCEPT !.completed[mem.current] = IF RoundRobin THEN 1 ELSE @,
                          !.fresh = FALSE]
    /\ UNCHANGED <<sem, asleep>>

(* The end of the thread's function resumes uc_link, the main flow.        *)
Return(t) ==
    /\ mem.cpu = t /\ Go(t, "exited", "gone")
    /\ mem' = [mem EXCEPT !.cpu = main]
    /\ UNCHANGED <<sem, asleep>>

(* The timer is started with every dispatch and runs for 50 ms of CPU      *)
(* time: it does not expire before the thread has done something.          *)
sighandler(t) ==
    /\ RoundRobin /\ mem.cpu = t /\ ~mem.fresh
    /\ mem' = [mem EXCEPT !.uc[mem.current] = t, !.cpu = main]
    /\ UNCHANGED <<pc, sem, asleep>>

(* It can still expire between the end of a thread and stop_time: main's   *)
(* flow is saved as the thread's, and main resumes where it was.           *)
LateSignal ==
    /\ RoundRobin /\ mem.cpu = main /\ pc[main] = "stop" /\ pc[mem.current] = "gone"
    /\ mem.uc[mem.current] # main
    /\ mem' = [mem EXCEPT !.uc[mem.current] = main]
    /\ UNCHANGED <<pc, sem, asleep>>

Requeue ==
    /\ mem.cpu = main /\ Go(main, "stop", "loop")
    /\ mem' = IF RoundRobin /\ mem.completed[mem.current] = 0 THEN enqueue(mem.current) ELSE mem
    /\ UNCHANGED <<sem, asleep>>

Next ==
    \/ mythread_create \/ Dispatch \/ LateSignal \/ Requeue
    \/ \E t \in Threads : Work(t) \/ mythread_exit(t) \/ Return(t) \/ sighandler(t)

Finished == pc[main] = "end"

-----------------------------------------------------------------------------
Queued ==
    IF isEmpty THEN {}
    ELSE {mem.elements[(mem.front + k) % MAX_THREADS] :
            k \in 0 .. (mem.rear - mem.front) % MAX_THREADS}

(* A thread whose completed was 0 is queued, or has the processor or just  *)
(* had it, until it has done all its work; what is queued is its own flow. *)
(* "all threads completed" (mythread_rr.c line 266) is true of such        *)
(* threads; the others are dropped by the first signal.                    *)
NobodyDropped ==
    /\ \A t \in Queued : mem.uc[t] = t
    /\ \A t \in Threads :
         t <= mem.created /\ (mem.garbage[t] = 0 \/ ~RoundRobin) =>
           t \in Queued \/ mem.work[t] = 0 \/ (pc[main] = "stop" /\ mem.current = t)

(* Round robin: of two queued threads none has had two turns more.         *)
TurnsEven ==
    pc[main] # "create" =>
      \A t, u \in Queued : mem.turns[t] - mem.turns[u] <= 1
=================================================================================
