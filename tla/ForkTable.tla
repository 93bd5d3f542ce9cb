------------------------------- MODULE ForkTable -------------------------------
(***************************************************************************)
(* Dining philosophers with one semaphore or mutex per fork:               *)
(* ClassicalIPC-Problems/philosopher.c, which with an argument admits all  *)
(* but one to the room ("room") and without one everybody ("open"), and    *)
(* OS-ane/pthread_ipc/diningPhilosophers.c, where each takes the fork with *)
(* the smaller number first ("hierarchy").                                 *)
(***************************************************************************)
EXTENDS PosixIpc

CONSTANTS P, N          \* philosophers, and how often each eats

Philosophers == 0 .. P - 1
Room == P

Init ==
    /\ pc = [k \in Philosophers |-> "think"]
    /\ sem = [s \in 0 .. P |-> IF s = Room THEN P - 1 ELSE 1]
    /\ asleep = {}
    /\ \E table \in {"room", "open", "hierarchy"} :
         mem = [table |-> table, meals |-> [k \in Philosophers |-> 0]]

rightfork(k) == IF k = 0 THEN P - 1 ELSE k - 1
Smaller(i, j) == IF i < j THEN i ELSE j

First(k) == IF mem.table = "hierarchy" THEN Smaller(k, rightfork(k)) ELSE k
Second(k) == IF mem.table = "hierarchy" THEN k + rightfork(k) - First(k)
             ELSE (k + 1) % P

EnterRoom(k) ==
    /\ Go(k, "think", "first")
    /\ IF mem.table = "room" THEN Down(Room) ELSE UNCHANGED sem
    /\ UNCHANGED <<asleep, mem>>
LeftFirst(k) ==                                              \* faulty variant
    Go(k, "first", "second") /\ Down(k) /\ UNCHANGED <<asleep, mem>>
TakeFirst(k) ==
    Go(k, "first", "second") /\ Down(First(k)) /\ UNCHANGED <<asleep, mem>>
TakeSecond(k) ==
    Go(k, "second", "eat") /\ Down(Second(k)) /\ UNCHANGED <<asleep, mem>>
PutOne(k) ==
    /\ Go(k, "eat", "put")
    /\ Up(IF mem.table = "hierarchy" THEN Second(k) ELSE First(k))
    /\ UNCHANGED <<asleep, mem>>
PutOther(k) ==
    /\ Go(k, "put", "leave")
    /\ Up(IF mem.table = "hierarchy" THEN First(k) ELSE Second(k))
    /\ UNCHANGED <<asleep, mem>>
LeaveRoom(k) ==
    /\ Go(k, "leave", IF mem.meals[k] = N - 1 THEN "end" ELSE "think")
    /\ mem' = [mem EXCEPT !.meals[k] = @ + 1]
    /\ IF mem.table = "room" THEN Up(Room) ELSE UNCHANGED sem
    /\ UNCHANGED asleep

Next ==
    \E k \in Philosophers :
       \/ EnterRoom(k) \/ TakeFirst(k) \/ TakeSecond(k)
       \/ PutOne(k) \/ PutOther(k) \/ LeaveRoom(k)

Finished == \A k \in Philosophers : pc[k] = "end"

(* Everybody has the left fork, which only the open room lets happen.      *)
Deadlocked == mem.table = "open" /\ \A k \in Philosophers : pc[k] = "second"

(* Neighbours share a fork, and never eat at the same time.                *)
NeighboursApart ==
    \A k \in Philosophers : ~(pc[k] = "eat" /\ pc[(k + 1) % P] = "eat")
===============================================================================
