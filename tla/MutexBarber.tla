------------------------------ MODULE MutexBarber ------------------------------
(***************************************************************************)
(* OS-ane/pthread_ipc/sleepingBarber.c: the mutex barberReady, which is    *)
(* unlocked to begin with, is locked by customers and unlocked by the      *)
(* barber, and unlocking it twice counts once.  So the first customer does *)
(* not wait, and one for whom the mutex was unlocked with another's waits  *)
(* for ever.  A section under accessSeats is one step.                     *)
(***************************************************************************)
EXTENDS PosixIpc

CONSTANTS NCustomers, Seats      \* 10 and 5 in the code

Customers == 1 .. NCustomers
barber == 0

Init ==
    /\ pc = [t \in 0 .. NCustomers |-> IF t = barber THEN "sleep" ELSE "enter"]
    /\ sem = [barberReady |-> 1, custReady |-> 0]
    /\ asleep = {}
    /\ mem = [freeSeats |-> Seats]

Enter(c) ==
    /\ IF mem.freeSeats > 0
       THEN /\ Go(c, "enter", "await")
            /\ mem' = [mem EXCEPT !.freeSeats = @ - 1]
            /\ Up("custReady")
       ELSE Go(c, "enter", "left") /\ UNCHANGED <<mem, sem>>
    /\ UNCHANGED asleep
AwaitBarber(c) ==
    Go(c, "await", "through") /\ Down("barberReady") /\ UNCHANGED <<asleep, mem>>

Sleep ==
    Go(barber, "sleep", "seats") /\ Down("custReady") /\ UNCHANGED <<asleep, mem>>
DeclareReady ==
    /\ Go(barber, "seats", "sleep")
    /\ mem' = [mem EXCEPT !.freeSeats = @ + 1]
    /\ sem' = [sem EXCEPT !["barberReady"] = 1]
    /\ UNCHANGED asleep

Next == (\E c \in Customers : Enter(c) \/ AwaitBarber(c)) \/ Sleep \/ DeclareReady

(* The program does not end: main waits for the barber, who sleeps on when *)
(* all customers have left or wait for a mutex nobody will unlock.         *)
NobodyMoves ==
    /\ At(Customers, {"enter"}) = {} /\ pc[barber] = "sleep" /\ sem["custReady"] = 0
    /\ sem["barberReady"] = 0 \/ At(Customers, {"await"}) = {}

-----------------------------------------------------------------------------
(* A free seat is a seat no waiting customer is counted on; and but for    *)
(* the first customer, who finds the mutex unlocked, no more get through   *)
(* than the barber has declared himself ready for (barber, customer).      *)
SeatsCounted ==
    LET declared == mem.freeSeats - Seats
                      + Cardinality(At(Customers, {"await", "through"}))
    IN  /\ mem.freeSeats + sem["custReady"] + Cardinality(At({barber}, {"seats"})) = Seats
        /\ Cardinality(At(Customers, {"through"})) <= declared + 1
===============================================================================
