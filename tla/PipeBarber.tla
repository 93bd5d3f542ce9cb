------------------------------- MODULE PipeBarber -------------------------------
(***************************************************************************)
(* ClassicalIPC-Problems/simple-barber.c: processes, with pipes as         *)
(* semaphores and one more pipe for the number of free seats.  A barber    *)
(* whose customers gave up stays blocked in P(customers) when all others   *)
(* have ended.                                                             *)
(***************************************************************************)
EXTENDS PosixIpc

CONSTANTS NCustomers, Seats, Visits     \* 5, 3 and 2 in the code

Customers == 1 .. NCustomers
barber == 0
Processes == 0 .. NCustomers

Init ==
    /\ pc = [t \in Processes |-> IF t = barber THEN "get" ELSE "lock"]
    /\ sem = [seats |-> 1, customers |-> 0, barber |-> 0]
    /\ asleep = {}
    /\ mem = [freeseats |-> <<Seats>>, num |-> [t \in Processes |-> 0],
              i |-> [t \in Processes |-> 1]]

P(t, from, s, to) == Go(t, from, to) /\ Down(s) /\ UNCHANGED <<asleep, mem>>
V(t, from, s, to) == Go(t, from, to) /\ Up(s) /\ UNCHANGED <<asleep, mem>>

LockSeats(t) == P(t, "lock", "seats", "read")

ReadSeats(t) ==
    /\ mem.freeseats # <<>>
    /\ Go(t, "read", "write")
    /\ mem' = [mem EXCEPT !.num[t] = Head(mem.freeseats), !.freeseats = Tail(@)]
    /\ UNCHANGED <<sem, asleep>>

WriteSeats(t, n, to) ==
    /\ Go(t, "write", to)
    /\ mem' = [mem EXCEPT !.num[t] = n, !.freeseats = Append(@, n)]
    /\ UNCHANGED <<sem, asleep>>

Round(t, last, again) == IF mem.i[t] = last THEN "end" ELSE again
NextRound(t) == mem' = [mem EXCEPT !.i[t] = @ + 1]

GetCustomer == P(barber, "get", "customers", "lock")
BarberSeats == WriteSeats(barber, mem.num[barber] + 1, "ready")
BarberReady == V(barber, "ready", "barber", "unlock")
BarberUnlock ==
    /\ Go(barber, "unlock", Round(barber, Visits * NCustomers, "get"))
    /\ Up("seats") /\ NextRound(barber)
    /\ UNCHANGED asleep

CustomerSeats(c) ==
    IF mem.num[c] > 0
    THEN WriteSeats(c, mem.num[c] - 1, "notify")
    ELSE WriteSeats(c, mem.num[c], "giveup")
Notify(c) == V(c, "notify", "customers", "unlock")
CustomerUnlock(c) == V(c, "unlock", "seats", "await")
GetHaircut(c) ==
    /\ Go(c, "await", Round(c, Visits, "lock"))
    /\ Down("barber") /\ NextRound(c)
    /\ UNCHANGED asleep
GiveUp(c) ==
    /\ Go(c, "giveup", Round(c, Visits, "lock"))
    /\ Up("seats") /\ NextRound(c)
    /\ UNCHANGED asleep

Next ==
    \/ \E t \in Processes : LockSeats(t) \/ ReadSeats(t)
    \/ GetCustomer \/ BarberSeats \/ BarberReady \/ BarberUnlock
    \/ \E c \in Customers :
         \/ CustomerSeats(c) \/ Notify(c) \/ CustomerUnlock(c)
         \/ GetHaircut(c) \/ GiveUp(c)

Finished ==
    /\ At(Customers, {"end"}) = Customers
    /\ pc[barber] = "end" \/ (pc[barber] = "get" /\ sem["customers"] = 0)

(* Whenever nobody has the lock on the seats, the pipe holds one number:   *)
(* the seats less the customers the barber has not got to yet; and those   *)
(* who wait for him are as many as he still has to call.                   *)
SeatsCounted ==
    LET pending == sem["customers"] + (IF pc[barber] = "lock" THEN 1 ELSE 0)
    IN  sem["seats"] = 1 =>
          /\ pending \in 0 .. Seats
          /\ mem.freeseats = <<Seats - pending>>
          /\ Cardinality(At(Customers, {"await"})) = pending + sem["barber"]
===============================================================================
