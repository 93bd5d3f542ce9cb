-------------------------------- MODULE Bankers --------------------------------
(***************************************************************************)
(* The banker's algorithm, three times: grant of bankers-deadlock-avoid.c, *)
(* request of OS-ane/banker_request.c and cal of                           *)
(* OS-ane/deadlockdetectBanker.c.  Each process found by the safety test   *)
(* is a step.  Variant says which program runs: "grant" keeps the changes  *)
(* of a request it refuses, "request" takes them back, "cal" tests once,   *)
(* and takes what a process holds of the last resource for what it gives   *)
(* back of each (line 106 adds alloc[i][j], and j is where c reached r).   *)
(***************************************************************************)
EXTENDS PosixIpc, FiniteSetsExt, Functions

CONSTANTS
    Variant, NPROC, NRES,
    Units,       \* how many instances of a resource there are
    NeedUpTo,    \* the largest entry of the matrix of needs
    Requests     \* how many requests main makes

Procs == 0 .. NPROC - 1
Res   == 0 .. NRES - 1

vcmp(A, B) == \A j \in Res : A[j] <= B[j]
vadd(A, B, sgn) == [j \in Res |-> A[j] + sgn * B[j]]

main == 0
None == [pid |-> -1]

(* wasSafe is what the first test of banker_request.c said, or the last    *)
(* one of bankers-deadlock-avoid.c.                                        *)
Init ==
    /\ pc = [t \in {main} |-> "safety"]
    /\ sem = <<>> /\ asleep = {}
    /\ \E Al \in [Procs -> [Res -> 0 .. Units]], Nd \in [Procs -> [Res -> 0 .. NeedUpTo]] :
         LET Av == [j \in Res |-> Units - SumFunction([i \in Procs |-> Al[i][j]])]
         IN  /\ \A j \in Res : Av[j] >= 0
             /\ mem = [Available |-> Av, Allocation |-> Al, Need |-> Nd,
                       Work |-> Av, Finish |-> [i \in Procs |-> FALSE],
                       Request |-> None, left |-> Requests, wasSafe |-> FALSE]

(* The processes that could run to their end with what is in Work.         *)
Able == {i \in Procs : ~mem.Finish[i] /\ vcmp(mem.Need[i], mem.Work)}
LastColumn(i) == [j \in Res |-> mem.Allocation[i][NRES - 1]]            \* faulty
Released(i) ==
    IF Variant = "cal" THEN [j \in Res |-> mem.Allocation[i][NRES - 1]]
    ELSE mem.Allocation[i]
find == Min(Able)

Complete ==
    /\ pc[main] = "safety" /\ Able # {}
    /\ mem' = [mem EXCEPT !.Work = vadd(@, Released(find), 1), !.Finish[find] = TRUE]
    /\ UNCHANGED <<pc, sem, asleep>>

safe == \A i \in Procs : mem.Finish[i]

(* What a request moves, and moves back with sgn = -1.                     *)
Move(pid, Request, sgn) ==
    [mem EXCEPT !.Available = vadd(@, Request, -sgn),
                !.Allocation[pid] = vadd(@, Request, sgn),
                !.Need[pid] = vadd(@, Request, -sgn)]

Undo == Variant = "request" /\ mem.Request # None /\ ~safe
Verdict ==
    /\ Able = {}
    /\ Go(main, "safety", IF mem.left = 0 THEN "end" ELSE "ask")
    /\ LET after == IF Undo THEN Move(mem.Request.pid, mem.Request.of, -1) ELSE mem
       IN  mem' = [after EXCEPT !.Request = None,
                                !.wasSafe = IF Variant = "request" /\ mem.Request # None
                                            THEN @ ELSE safe]
    /\ UNCHANGED <<sem, asleep>>

(* A request for more than is needed or available is refused at once.      *)
Ask(pid, Request) ==
    /\ pc[main] = "ask"
    /\ IF vcmp(Request, mem.Need[pid]) /\ vcmp(Request, mem.Available)
       THEN /\ Go(main, "ask", "safety")
            /\ LET moved == Move(pid, Request, 1)
               IN  mem' = [moved EXCEPT !.Work = moved.Available,
                                        !.Finish = [i \in Procs |-> FALSE],
                                        !.Request = [pid |-> pid, of |-> Request],
                                        !.left = @ - 1]
       ELSE /\ mem' = [mem EXCEPT !.left = @ - 1]
            /\ Go(main, "ask", IF mem.left = 1 THEN "end" ELSE "ask")
    /\ UNCHANGED <<sem, asleep>>

Next ==
    \/ Complete \/ Verdict
    \/ \E pid \in Procs, Request \in [Res -> 0 .. NeedUpTo] : Ask(pid, Request)

Finished == pc[main] = "end"

-----------------------------------------------------------------------------
(* The definition of a safe state: all processes can end one after the     *)
(* other, each with what is available and what the earlier ones held.      *)
Safe ==
    \E order \in {f \in [1 .. NPROC -> Procs] : \A a, b \in 1 .. NPROC :
                                                  a # b => f[a] # f[b]} :
      \A k \in 1 .. NPROC : \A j \in Res :
        mem.Need[order[k]][j] <=
          mem.Available[j] + SumFunction([m \in 1 .. k - 1 |-> mem.Allocation[order[m]][j]])

(* Taking the first process that can end is enough: the test says safe     *)
(* exactly for the states from which all can end in some order (safe,      *)
(* safety).  cal is wrong either way, but what it gives back of the other  *)
(* resources is what is held of the last one: it promises too little when  *)
(* nobody holds more of the last one than of another, and so is right      *)
(* about No Deadlock; it misses nobody when nobody holds less of it, and   *)
(* so is right about Deadlock.                                             *)
LastLeast == \A i \in Procs, j \in Res : mem.Allocation[i][NRES - 1] <= mem.Allocation[i][j]
LastMost  == \A i \in Procs, j \in Res : mem.Allocation[i][j] <= mem.Allocation[i][NRES - 1]
SafeExactly ==
    pc[main] = "safety" /\ Able = {} =>
      /\ (Variant = "cal" => LastLeast) => (safe => Safe)
      /\ (Variant = "cal" => LastMost) => (Safe => safe)

(* Between requests the state is safe if the last test that was not taken  *)
(* back said so, and only then.  request puts what it refuses back, so     *)
(* that what its first test said stays true.  grant does not: a request    *)
(* that it refuses as unsafe leaves the state unsafe, and its next answers *)
(* are about that state, not about the one without the request.            *)
GrantedIsSafe == pc[main] # "safety" => (mem.wasSafe <=> Safe)

(* Nothing that a request moves is lost, and nobody holds more than he     *)
(* needs or there is.                                                      *)
NothingLost ==
    \A j \in Res :
      /\ mem.Available[j] >= 0 /\ \A i \in Procs : mem.Need[i][j] >= 0
      /\ mem.Available[j] + SumFunction([i \in Procs |-> mem.Allocation[i][j]]) = Units
================================================================================
