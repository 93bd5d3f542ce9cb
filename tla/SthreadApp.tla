------------------------------ MODULE SthreadApp ------------------------------
(***************************************************************************)
(* OS-master/shishir-sync/app.c on top of sthread.c and syn.c: main        *)
(* creates the threads, each adds its part to global_sum under the mutex,  *)
(* main waits for them one after the other and prints the sum.  app.c      *)
(* creates four threads, here it is NThreads.                              *)
(***************************************************************************)
EXTENDS SthreadMutex

VARIABLES
    pc,           \* where each flow is in its own code
    k,            \* the thread main creates or waits for
    global_sum,
    reg           \* each thread's copy of global_sum between load and store

appVars == <<MAX_THREAD, pc, k, global_sum, reg>>
vars == <<libVars, mutexVars, appVars>>

Init ==
    /\ LibInit /\ MutexInit
    /\ pc = [f \in Tasks |-> IF f = Main THEN "create" ELSE "lock"]
    /\ k = 0
    /\ global_sum = 0
    /\ reg = [t \in Threads |-> 0]

Go(f, from, to) ==
    /\ Executes(f) /\ pc[f] = from /\ pc' = [pc EXCEPT ![f] = to]
    /\ UNCHANGED MAX_THREAD

OnlyApp == UNCHANGED <<libVars, mutexVars>>

-----------------------------------------------------------------------------
(* check(), the main flow: sthread_create in three steps.                  *)
CreateBegin ==
    /\ Go(Main, "create", "torn")
    /\ SaveLast(Main)
    /\ UNCHANGED <<mutexVars, k, global_sum, reg>>

CreateContext ==
    /\ Go(Main, "torn", "made")
    /\ MakeContexts(k)
    /\ UNCHANGED <<mutexVars, k, global_sum, reg>>

Create ==
    /\ Go(Main, "made", IF k = NThreads - 1 THEN "wait" ELSE "create")
    /\ AddNew(k)
    /\ k' = (k + 1) % NThreads
    /\ UNCHANGED <<mutexVars, global_sum, reg>>

(* sthread_wait: look into running, and only then, signals still enabled,  *)
(* yield.                                                                  *)
WaitCheck ==
    /\ Go(Main, "wait", IF k \in running THEN "yield"
                        ELSE IF k = NThreads - 1 THEN "print" ELSE "wait")
    /\ k' = IF k \in running THEN k ELSE k + 1
    /\ OnlyApp /\ UNCHANGED <<global_sum, reg>>

WaitYield ==
    /\ Go(Main, "yield", "wait")
    /\ schedule(Main)
    /\ UNCHANGED <<mutexVars, k, global_sum, reg>>

Printed ==
    /\ Go(Main, "print", "end")
    /\ OnlyApp /\ UNCHANGED <<k, global_sum, reg>>

(* fn1, one flow per thread.  sthread_self() dereferences currrent_thread. *)
NoSelf(t) ==
    /\ current = NULL
    /\ \E at \in {"lock", "spin", "unlock"} : Go(t, at, at)
    /\ Stop("null") /\ UNCHANGED mishaps
    /\ UNCHANGED <<mutexVars, k, global_sum, reg>>

LockFirst(t) ==
    /\ current # NULL
    /\ Go(t, "lock", IF lock = 1 /\ owner # sthread_self THEN "spin" ELSE "load")
    /\ Lock
    /\ UNCHANGED <<libVars, k, global_sum, reg>>

LockSpin(t) ==
    /\ current # NULL /\ owner # sthread_self
    /\ Go(t, "spin", "spin")
    /\ schedule(t)
    /\ UNCHANGED <<mutexVars, k, global_sum, reg>>

LockGranted(t) ==
    /\ current # NULL /\ owner = sthread_self
    /\ Go(t, "spin", "load")
    /\ OnlyApp /\ UNCHANGED <<k, global_sum, reg>>

Load(t) ==
    /\ Go(t, "load", "store")
    /\ reg' = [reg EXCEPT ![t] = global_sum]
    /\ OnlyApp /\ UNCHANGED <<k, global_sum>>

Store(t) ==
    /\ Go(t, "store", "unlock")
    /\ global_sum' = reg[t] + 1
    /\ OnlyApp /\ UNCHANGED <<k, reg>>

UnlockStep(t) ==
    /\ current # NULL
    /\ Go(t, "unlock", "return")
    /\ Unlock
    /\ UNCHANGED <<libVars, k, global_sum, reg>>

Return(t) ==
    /\ Go(t, "return", "kill")
    /\ Leave(t)
    /\ UNCHANGED <<mutexVars, k, global_sum, reg>>

Kill(t) ==
    /\ Go(t, "kill", "dead")
    /\ kill_thread(t)
    /\ UNCHANGED <<mutexVars, k, global_sum, reg>>

-----------------------------------------------------------------------------
SwapStep(f) == Swap(f) /\ UNCHANGED <<mutexVars, appVars>>

MainStep == CreateBegin \/ CreateContext \/ Create \/ WaitCheck \/ WaitYield \/ Printed
ThreadStep(t) ==
    \/ NoSelf(t) \/ LockFirst(t) \/ LockSpin(t) \/ LockGranted(t) \/ Load(t) \/ Store(t)
    \/ UnlockStep(t) \/ Return(t) \/ Kill(t)

Timer == pc[Main] # "end" /\ Sigprof /\ UNCHANGED <<mutexVars, appVars>>

(* The places from which a flow goes into block().                         *)
Guarding == {"made", "yield", "lock", "spin", "unlock", "kill"}
TimerInBlock ==
    /\ \E f \in Tasks : pc[f] \in Guarding /\ Unguarded(f)
    /\ UNCHANGED <<mutexVars, appVars>>

Ended == (fate # "ok" \/ pc[Main] = "end") /\ UNCHANGED vars

Next ==
    \/ MainStep
    \/ \E t \in Threads : ThreadStep(t)
    \/ \E f \in Tasks : SwapStep(f)
    \/ Timer
    \/ TimerInBlock
    \/ Ended

Spec == Init /\ [][Next]_vars

(* ITIMER_PROF counts CPU time, so that a flow that is given the processor *)
(* again and again executes a step of its own again and again.             *)
FairSpec ==
    /\ Spec
    /\ SF_vars(MainStep)
    /\ \A t \in Threads : SF_vars(ThreadStep(t))
    /\ \A f \in Tasks : WF_vars(SwapStep(f))

-----------------------------------------------------------------------------
(* Type invariant; a flow has two swapcontexts to make at most, one unless *)
(* a signal came late, and count never goes below zero.                    *)
TypeOK ==
    /\ MAX_THREAD \in Limits
    /\ queue \in Seq(Tasks) /\ current \in Tasks \cup {NULL}
    /\ count \in 0 .. NThreads
    /\ running \subseteq Threads
    /\ ctx \in [Tasks -> Tasks \cup {NULL}] /\ cpu \in Tasks
    /\ \A f \in Tasks : Len(swaps[f]) <= IF "late" \in mishaps THEN 2 ELSE 1
    /\ armed \in BOOLEAN /\ last \subseteq Tasks
    /\ mishaps \subseteq {"late", "full"}
    /\ fate \in {"ok", "null", "wild", "bare", "refused"}
    /\ lock \in {0, 1} /\ owner \in Tasks /\ waiters \in Seq(Threads)
    /\ k \in 0 .. NThreads /\ global_sum \in 0 .. NThreads
    /\ reg \in [Threads -> 0 .. NThreads]

(* Nobody is lost: every thread created and not finished, and main, either *)
(* executes or can be resumed from exactly one task of the queue           *)
(* (schedule's requeueing and swaps, sthread.c lines 200-208 and 129-160), *)
(* as long as no signal came late and no task was refused by a full queue. *)
Alive == {f \in Tasks : pc[f] # "dead" /\ (f = Main \/ f \in running)}
NobodyLost ==
    fate = "ok" /\ mishaps = {} /\ swaps[cpu] = <<>> =>
      /\ \A f \in Alive : f = cpu \/ \E i \in 2 .. Len(queue) : ctx[queue[i]] = f
      /\ \A i, j \in 2 .. Len(queue) : i # j => ctx[queue[i]] # ctx[queue[j]]
      /\ queue # <<>> => Head(queue) = current /\ cpu = current

(* Every live thread is in the queue once, with main, and count and the    *)
(* list running agree on how many there are (lines 90-118, 131-157), as    *)
(* long as no task was refused by a full queue.                            *)
Census ==
    "full" \notin mishaps =>
      /\ count = Cardinality(running)
      /\ queue # <<>> =>
           /\ Len(queue) = count + 1
           /\ {queue[i] : i \in 1 .. Len(queue)} = running \cup {Main}
      /\ queue = <<>> => running = {}

(* syn.c: at most one thread is between lock and unlock, and it owns the   *)
(* mutex, also when a signal came late or a task was refused.              *)
Inside == {t \in Threads : pc[t] \in {"load", "store", "unlock"}}
MutualExclusion ==
    /\ \A t \in Inside : lock = 1 /\ owner = t
    /\ lock = 1 => waiters # <<>> /\ owner = Head(waiters)

(* app.c: if main prints the sum, every thread's part is in it, whatever   *)
(* went wrong on the way.                                                  *)
SumComplete == pc[Main] = "end" => global_sum = NThreads

(* The program ends, by printing or by a crash; no thread waits for the    *)
(* mutex for ever (syn.c lines 63-74, 103-104).                            *)
Ends == <>(mishaps # {} \/ fate # "ok" \/ pc[Main] = "end")

(* app.c waits for its threads and prints the sum (lines 49-53): no step   *)
(* of the library dereferences a NULL head.                                *)
NoCrash == mishaps = {} => fate # "null"
=============================================================================
