---------------------------- MODULE SleepingBarbers ----------------------------
(***************************************************************************)
(* OS-master/sleeping_barber.c: one barber, customers, and main, which     *)
(* sends the barber home when all customers are gone.                      *)
(***************************************************************************)
EXTENDS PosixIpc

CONSTANTS numCustomers, numChairs

Customers == 1 .. numCustomers
barber == 0
main == -1

Init ==
    /\ pc = [t \in -1 .. numCustomers |->
               CASE t = main -> "join" [] t = barber -> "test" [] OTHER -> "arrive"]
    /\ sem = [waitingRoom |-> numChairs, barberChair |-> 1,
              barberPillow |-> 0, seatBelt |-> 0]
    /\ asleep = {}
    /\ mem = [allDone |-> 0]

Waits(t, from, s, to) == Go(t, from, to) /\ Down(s) /\ UNCHANGED <<asleep, mem>>
Posts(t, from, s, to) == Go(t, from, to) /\ Up(s) /\ UNCHANGED <<asleep, mem>>

TakePlace(c)  == Waits(c, "arrive", "waitingRoom", "place")
TakeChair(c)  == Waits(c, "place", "barberChair", "chair")
GivePlace(c)  == Posts(c, "chair", "waitingRoom", "wake")
WakeBarber(c) == Posts(c, "wake", "barberPillow", "belt")
Shorn(c)      == Waits(c, "belt", "seatBelt", "rise")
GiveChair(c)  == Posts(c, "rise", "barberChair", "end")
Customer(c) ==
    \/ TakePlace(c) \/ TakeChair(c) \/ GivePlace(c) \/ WakeBarber(c)
    \/ Shorn(c) \/ GiveChair(c)

(* allDone is read twice, before the barber sleeps and after he is woken.  *)
TestDone ==
    /\ Go(barber, "test", IF mem.allDone = 1 THEN "end" ELSE "sleep")
    /\ UNCHANGED <<sem, asleep, mem>>
SleepOnPillow == Waits(barber, "sleep", "barberPillow", "look")
LookDone ==
    /\ Go(barber, "look", IF mem.allDone = 1 THEN "test" ELSE "cut")
    /\ UNCHANGED <<sem, asleep, mem>>
CutDone == Posts(barber, "cut", "seatBelt", "test")
Barber == TestDone \/ SleepOnPillow \/ LookDone \/ CutDone

AllJoined ==
    /\ At(Customers, {"end"}) = Customers
    /\ Go(main, "join", "post")
    /\ mem' = [mem EXCEPT !.allDone = 1]
    /\ UNCHANGED <<sem, asleep>>
SendHome == Posts(main, "post", "barberPillow", "end")

Next == (\E c \in Customers : Customer(c)) \/ Barber \/ AllJoined \/ SendHome

Finished == \A t \in DOMAIN pc : pc[t] = "end"

(* One customer at a time is in the chair, the barber cuts only while he   *)
(* sits there waiting for it, and nobody is let go by an earlier cut.      *)
InTheChair ==
    /\ Cardinality(At(Customers, {"chair", "wake", "belt", "rise"})) <= 1
    /\ pc[barber] \in {"look", "cut"} /\ mem.allDone = 0 =>
         At(Customers, {"belt"}) # {} /\ sem["seatBelt"] = 0
    /\ sem["barberPillow"] + sem["seatBelt"] <= 1
===============================================================================
