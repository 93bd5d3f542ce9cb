--------------------------- MODULE BarberShopProofs ---------------------------
(***************************************************************************)
(* Safety of the barbershop for any number of customers, barbers, chairs   *)
(* and copies of Filmfare: first the sofa, the magazines and the chairs,   *)
(* then the cash counter.                                                  *)
(***************************************************************************)
EXTENDS BarberShop, FiniteSetTheorems, TLAPS

(* sem_post and sem_wait on one semaphore of a family.                     *)
LEMMA Bump ==
    ASSUME NEW S, NEW f \in [S -> Nat], NEW x
    PROVE  [f EXCEPT ![x] = @ + 1] \in [S -> Nat]
<1>1. CASE x \in S
  <2>1. f[x] + 1 \in Nat
    BY <1>1
  <2> QED
    BY <2>1
<1>2. CASE x \notin S
  BY <1>2
<1> QED
  BY <1>1, <1>2

LEMMA Drop ==
    ASSUME NEW S, NEW f \in [S -> Nat], NEW x \in S, f[x] > 0
    PROVE  [f EXCEPT ![x] = @ - 1] \in [S -> Nat]
<1>1. f[x] - 1 \in Nat
  OBVIOUS
<1> QED
  BY <1>1

(* The variables hold values of their types after a step of a customer ... *)
LEMMA CustomerTypes ==
    ASSUME TypeOK, NEW c \in Customers, Customer(c)
    PROVE  TypeOK'
<1> USE DEF TypeOK, staffVars, cashVars, cutVars, seatVars
<1>1. CASE Enter(c)
  <2>1. LabelsOK'
    BY <1>1 DEF Enter, LabelsOK, CStep, OnlySem, CustomerLabels
  <2>2. SemaphoresOK'
    BY <1>1, Bump, Drop DEF Enter, SemaphoresOK, Wait, Names, OnlySem
  <2>3. ShopOK'
    BY <1>1 DEF Enter, ShopOK, OnlySem
  <2> QED
    BY <2>1, <2>2, <2>3
<1>2. CASE LockToLook(c)
  <2>1. LabelsOK'
    BY <1>2 DEF LockToLook, LabelsOK, CStep, OnlySem, CustomerLabels
  <2>2. SemaphoresOK'
    BY <1>2, Bump, Drop DEF LockToLook, SemaphoresOK, Wait, Names, OnlySem
  <2>3. ShopOK'
    BY <1>2 DEF LockToLook, ShopOK, OnlySem
  <2> QED
    BY <2>1, <2>2, <2>3
<1>3. CASE Decide(c)
  <2>1. LabelsOK'
    BY <1>3 DEF Decide, LabelsOK, CStep, OnlySem, CustomerLabels
  <2>2. SemaphoresOK'
    BY <1>3, Bump, Drop DEF Decide, SemaphoresOK, Post, Names, OnlySem
  <2>3. ShopOK'
    BY <1>3 DEF Decide, ShopOK, OnlySem
  <2> QED
    BY <2>1, <2>2, <2>3
<1>4. CASE ReserveFilmfare(c)
  <2>1. LabelsOK'
    BY <1>4 DEF ReserveFilmfare, LabelsOK, CStep, CustomerLabels
  <2>2. SemaphoresOK'
    BY <1>4, Bump, Drop DEF ReserveFilmfare, SemaphoresOK
  <2>3. ShopOK'
    BY <1>4 DEF ReserveFilmfare, ShopOK
  <2> QED
    BY <2>1, <2>2, <2>3
<1>5. CASE TakeFilmfare(c)
  <2>1. LabelsOK'
    BY <1>5 DEF TakeFilmfare, LabelsOK, CStep, OnlySem, CustomerLabels
  <2>2. SemaphoresOK'
    BY <1>5, Bump, Drop DEF TakeFilmfare, SemaphoresOK, Wait, Names, OnlySem
  <2>3. ShopOK'
    BY <1>5 DEF TakeFilmfare, ShopOK, OnlySem
  <2> QED
    BY <2>1, <2>2, <2>3
<1>6. CASE TicketWhileReading(c)
  <2>1. LabelsOK'
    BY <1>6 DEF TicketWhileReading, LabelsOK, CStep, OnlySem, CustomerLabels
  <2>2. SemaphoresOK'
    BY <1>6, Bump, Drop DEF TicketWhileReading, SemaphoresOK, Wait,
                             Names, OnlySem
  <2>3. ShopOK'
    BY <1>6 DEF TicketWhileReading, ShopOK, OnlySem
  <2> QED
    BY <2>1, <2>2, <2>3
<1>7. CASE UnreserveFilmfare(c)
  <2>1. LabelsOK'
    BY <1>7 DEF UnreserveFilmfare, LabelsOK, CStep, CustomerLabels
  <2>2. SemaphoresOK'
    BY <1>7, Bump, Drop DEF UnreserveFilmfare, SemaphoresOK
  <2>3. ShopOK'
    BY <1>7 DEF UnreserveFilmfare, ShopOK
  <2> QED
    BY <2>1, <2>2, <2>3
<1>8. CASE PutBackFilmfare(c)
  <2>1. LabelsOK'
    BY <1>8 DEF PutBackFilmfare, LabelsOK, CStep, OnlySem, CustomerLabels
  <2>2. SemaphoresOK'
    BY <1>8, Bump, Drop DEF PutBackFilmfare, SemaphoresOK, Post, Names, OnlySem
  <2>3. ShopOK'
    BY <1>8 DEF PutBackFilmfare, ShopOK, OnlySem
  <2> QED
    BY <2>1, <2>2, <2>3
<1>9. CASE Ticket(c)
  <2>1. LabelsOK'
    BY <1>9 DEF Ticket, LabelsOK, CStep, OnlySem, CustomerLabels
  <2>2. SemaphoresOK'
    BY <1>9, Bump, Drop DEF Ticket, SemaphoresOK, Wait, Names, OnlySem
  <2>3. ShopOK'
    BY <1>9 DEF Ticket, ShopOK, OnlySem
  <2> QED
    BY <2>1, <2>2, <2>3
<1>10. CASE LockToSelect(c)
  <2>1. LabelsOK'
    BY <1>10 DEF LockToSelect, LabelsOK, CStep, OnlySem, CustomerLabels
  <2>2. SemaphoresOK'
    BY <1>10, Bump, Drop DEF LockToSelect, SemaphoresOK, Wait, Names, OnlySem
  <2>3. ShopOK'
    BY <1>10 DEF LockToSelect, ShopOK, OnlySem
  <2> QED
    BY <2>1, <2>2, <2>3
<1>11. CASE ScanChairs(c)
  <2>1. LabelsOK'
    BY <1>11 DEF ScanChairs, LabelsOK, CStep, CustomerLabels
  <2>2. SemaphoresOK'
    BY <1>11, Bump, Drop DEF ScanChairs, SemaphoresOK
  <2>3. ShopOK'
    BY <1>11 DEF ScanChairs, ShopOK
  <2> QED
    BY <2>1, <2>2, <2>3
<1>12. CASE Occupy(c)
  <2>1. LabelsOK'
    BY <1>12 DEF Occupy, LabelsOK, CStep, CustomerLabels
  <2>2. SemaphoresOK'
    BY <1>12, Bump, Drop DEF Occupy, SemaphoresOK, Post, Names
  <2>3. ShopOK'
    BY <1>12 DEF Occupy, ShopOK
  <2> QED
    BY <2>1, <2>2, <2>3
<1>13. CASE CallBarber(c)
  <2>1. LabelsOK'
    BY <1>13 DEF CallBarber, LabelsOK, CStep, CustomerLabels
  <2>2. SemaphoresOK'
    BY <1>13, Bump, Drop DEF CallBarber, SemaphoresOK
  <2>3. ShopOK'
    BY <1>13 DEF CallBarber, ShopOK, Calls, Counter
  <2> QED
    BY <2>1, <2>2, <2>3
<1>14. CASE Ready(c)
  <2>1. LabelsOK'
    BY <1>14 DEF Ready, LabelsOK, CStep, OnlySem, CustomerLabels
  <2>2. SemaphoresOK'
    BY <1>14, Bump, Drop DEF Ready, SemaphoresOK, Post, Names, OnlySem
  <2>3. ShopOK'
    BY <1>14 DEF Ready, ShopOK, OnlySem
  <2> QED
    BY <2>1, <2>2, <2>3
<1>15. CASE HaircutDone(c)
  <2>1. LabelsOK'
    BY <1>15 DEF HaircutDone, LabelsOK, CStep, CustomerLabels
  <2>2. SemaphoresOK'
    BY <1>15, Bump, Drop DEF HaircutDone, SemaphoresOK
  <2>3. ShopOK'
    BY <1>15 DEF HaircutDone, ShopOK
  <2> QED
    BY <2>1, <2>2, <2>3
<1>16. CASE LockToRise(c)
  <2>1. LabelsOK'
    BY <1>16 DEF LockToRise, LabelsOK, CStep, OnlySem, CustomerLabels
  <2>2. SemaphoresOK'
    BY <1>16, Bump, Drop DEF LockToRise, SemaphoresOK, Wait, Names, OnlySem
  <2>3. ShopOK'
    BY <1>16 DEF LockToRise, ShopOK, OnlySem
  <2> QED
    BY <2>1, <2>2, <2>3
<1>17. CASE LeaveChair(c)
  <2>1. LabelsOK'
    BY <1>17 DEF LeaveChair, LabelsOK, CStep, CustomerLabels
  <2>2. SemaphoresOK'
    BY <1>17, Bump, Drop DEF LeaveChair, SemaphoresOK, Post, Names
  <2>3. ShopOK'
    BY <1>17 DEF LeaveChair, ShopOK
  <2> QED
    BY <2>1, <2>2, <2>3
<1>18. CASE QueueToPay(c)
  <2>1. LabelsOK'
    BY <1>18 DEF QueueToPay, LabelsOK, CStep, CustomerLabels
  <2>2. SemaphoresOK'
    BY <1>18, Bump, Drop DEF QueueToPay, SemaphoresOK
  <2>3. ShopOK'
    BY <1>18 DEF QueueToPay, ShopOK
  <2> QED
    BY <2>1, <2>2, <2>3
<1>19. CASE Pay(c)
  <2>1. LabelsOK'
    BY <1>19 DEF Pay, LabelsOK, CStep, OnlySem, CustomerLabels
  <2>2. SemaphoresOK'
    BY <1>19, Bump, Drop DEF Pay, SemaphoresOK, Post, Names, OnlySem
  <2>3. ShopOK'
    BY <1>19 DEF Pay, ShopOK, OnlySem
  <2> QED
    BY <2>1, <2>2, <2>3
<1>20. CASE TakeReceipt(c)
  <2>1. LabelsOK'
    BY <1>20 DEF TakeReceipt, LabelsOK, CStep, CustomerLabels
  <2>2. SemaphoresOK'
    BY <1>20, Bump, Drop DEF TakeReceipt, SemaphoresOK
  <2>3. ShopOK'
    BY <1>20 DEF TakeReceipt, ShopOK
  <2> QED
    BY <2>1, <2>2, <2>3
<1>21. CASE PostDone(c)
  <2>1. LabelsOK'
    BY <1>21 DEF PostDone, LabelsOK, CStep, CustomerLabels
  <2>2. SemaphoresOK'
    BY <1>21, Bump, Drop DEF PostDone, SemaphoresOK
  <2>3. ShopOK'
    BY <1>21 DEF PostDone, ShopOK
  <2> QED
    BY <2>1, <2>2, <2>3
<1>22. CASE LeaveShop(c)
  <2>1. LabelsOK'
    BY <1>22 DEF LeaveShop, LabelsOK, CStep, OnlySem, CustomerLabels
  <2>2. SemaphoresOK'
    BY <1>22, Bump, Drop DEF LeaveShop, SemaphoresOK, Post, Names, OnlySem
  <2>3. ShopOK'
    BY <1>22 DEF LeaveShop, ShopOK, OnlySem
  <2> QED
    BY <2>1, <2>2, <2>3
<1>23. CASE ExitProgram(c)
  <2>1. LabelsOK'
    BY <1>23 DEF ExitProgram, LabelsOK, CStep, CustomerLabels
  <2>2. SemaphoresOK'
    BY <1>23, Bump, Drop DEF ExitProgram, SemaphoresOK
  <2>3. ShopOK'
    BY <1>23 DEF ExitProgram, ShopOK
  <2> QED
    BY <2>1, <2>2, <2>3
<1> QED
  BY <1>1, <1>2, <1>3, <1>4, <1>5, <1>6, <1>7, <1>8, <1>9, <1>10,
     <1>11, <1>12, <1>13, <1>14, <1>15, <1>16, <1>17, <1>18, <1>19,
     <1>20, <1>21, <1>22, <1>23
  DEF Customer

(* ... of a barber ...                                                     *)
LEMMA BarberTypes ==
    ASSUME TypeOK, NEW b \in Barbers, Barber(b)
    PROVE  TypeOK'
<1> USE DEF TypeOK, cashVars, cutVars, seatVars
<1>1. CASE Sleep(b)
  <2>1. LabelsOK'
    BY <1>1 DEF Sleep, LabelsOK, BStep, BarberLabels
  <2>2. SemaphoresOK'
    BY <1>1, Bump, Drop DEF Sleep, SemaphoresOK, Wait, Names
  <2>3. ShopOK'
    BY <1>1 DEF Sleep, ShopOK
  <2> QED
    BY <2>1, <2>2, <2>3
<1>2. CASE ReadCall(b)
  <2>1. LabelsOK'
    BY <1>2 DEF ReadCall, LabelsOK, BStep, BarberLabels
  <2>2. SemaphoresOK'
    BY <1>2, Bump, Drop DEF ReadCall, SemaphoresOK
  <2>3. ShopOK'
    BY <1>2 DEF ReadCall, ShopOK
  <2> QED
    BY <2>1, <2>2, <2>3
<1>3. CASE CutHair(b)
  <2>1. LabelsOK'
    BY <1>3 DEF CutHair, LabelsOK, BStep, BarberLabels
  <2>2. SemaphoresOK'
    BY <1>3, Bump, Drop DEF CutHair, SemaphoresOK
  <2>3. ShopOK'
    BY <1>3 DEF CutHair, ShopOK
  <2> QED
    BY <2>1, <2>2, <2>3
<1>4. CASE SeeLeave(b)
  <2>1. LabelsOK'
    BY <1>4 DEF SeeLeave, LabelsOK, BStep, BarberLabels
  <2>2. SemaphoresOK'
    BY <1>4, Bump, Drop DEF SeeLeave, SemaphoresOK
  <2>3. ShopOK'
    BY <1>4 DEF SeeLeave, ShopOK
  <2> QED
    BY <2>1, <2>2, <2>3
<1>5. CASE ReleaseChair(b)
  <2>1. LabelsOK'
    BY <1>5 DEF ReleaseChair, LabelsOK, BStep, BarberLabels
  <2>2. SemaphoresOK'
    BY <1>5, Bump, Drop DEF ReleaseChair, SemaphoresOK, Post, Names
  <2>3. ShopOK'
    BY <1>5 DEF ReleaseChair, ShopOK
  <2> QED
    BY <2>1, <2>2, <2>3
<1>6. CASE AcceptPayment(b)
  <2>1. LabelsOK'
    BY <1>6 DEF AcceptPayment, LabelsOK, BStep, BarberLabels
  <2>2. SemaphoresOK'
    BY <1>6, Bump, Drop DEF AcceptPayment, SemaphoresOK, Post, Names
  <2>3. ShopOK'
    BY <1>6 DEF AcceptPayment, ShopOK
  <2> QED
    BY <2>1, <2>2, <2>3
<1> QED
  BY <1>1, <1>2, <1>3, <1>4, <1>5, <1>6
  DEF Barber

(* ... and of the cash counter.                                            *)
LEMMA CounterTypes ==
    ASSUME TypeOK, cashcounter
    PROVE  TypeOK'
<1> USE ShopAssumption DEF TypeOK, cashVars, cutVars, seatVars
<1>1. CASE AwaitPayer
  <2>1. LabelsOK'
    BY <1>1 DEF AwaitPayer, LabelsOK, KStep, CounterLabels
  <2>2. SemaphoresOK'
    BY <1>1, Bump, Drop DEF AwaitPayer, SemaphoresOK, Wait, Names
  <2>3. ShopOK'
    BY <1>1 DEF AwaitPayer, ShopOK
  <2> QED
    BY <2>1, <2>2, <2>3
<1>2. CASE ReadName
  <2>1. LabelsOK'
    BY <1>2 DEF ReadName, LabelsOK, KStep, CounterLabels
  <2>2. SemaphoresOK'
    BY <1>2, Bump, Drop DEF ReadName, SemaphoresOK
  <2>3. ShopOK'
    BY <1>2 DEF ReadName, ShopOK
  <2> QED
    BY <2>1, <2>2, <2>3
<1>3. CASE CallToCounter
  <2>1. LabelsOK'
    BY <1>3 DEF CallToCounter, LabelsOK, KStep, CounterLabels
  <2>2. SemaphoresOK'
    BY <1>3, Bump, Drop DEF CallToCounter, SemaphoresOK
  <2>3. <<Counter, 0>> \in Calls
    BY DEF Calls, Chairs
  <2>4. ShopOK'
    BY <1>3, <2>3 DEF CallToCounter, ShopOK
  <2> QED
    BY <2>1, <2>2, <2>4
<1>4. CASE Ring
  <2>1. LabelsOK'
    BY <1>4 DEF Ring, LabelsOK, KStep, CounterLabels
  <2>2. SemaphoresOK'
    BY <1>4, Bump, Drop DEF Ring, SemaphoresOK, Post, Names
  <2>3. ShopOK'
    BY <1>4 DEF Ring, ShopOK
  <2> QED
    BY <2>1, <2>2, <2>3
<1>5. CASE Paid
  <2>1. LabelsOK'
    BY <1>5 DEF Paid, LabelsOK, KStep, CounterLabels
  <2>2. SemaphoresOK'
    BY <1>5, Bump, Drop DEF Paid, SemaphoresOK, Wait, Names
  <2>3. ShopOK'
    BY <1>5 DEF Paid, ShopOK
  <2> QED
    BY <2>1, <2>2, <2>3
<1>6. CASE GiveReceipt
  <2>1. LabelsOK'
    BY <1>6 DEF GiveReceipt, LabelsOK, KStep, CounterLabels
  <2>2. SemaphoresOK'
    BY <1>6, Bump, Drop DEF GiveReceipt, SemaphoresOK
  <2>3. ShopOK'
    BY <1>6 DEF GiveReceipt, ShopOK
  <2> QED
    BY <2>1, <2>2, <2>3
<1> QED
  BY <1>1, <1>2, <1>3, <1>4, <1>5, <1>6
  DEF cashcounter

(* Every variable of the shop keeps its type (all of barber.c).            *)
THEOREM TypeCorrect == Spec => []TypeOK
<1>1. Init => TypeOK
  BY ShopAssumption, SMTT(60)
     DEF Init, TypeOK, LabelsOK, SemaphoresOK, ShopOK, CustomerLabels,
         BarberLabels, CounterLabels, Names, Customers, Chairs, Calls, Counter
<1>2. TypeOK /\ [Next]_vars => TypeOK'
  <2> SUFFICES ASSUME TypeOK, [Next]_vars
               PROVE  TypeOK'
    OBVIOUS
  <2>1. CASE \E c \in Customers : Customer(c)
    BY <2>1, CustomerTypes
  <2>2. CASE \E b \in Barbers : Barber(b)
    BY <2>2, BarberTypes
  <2>3. CASE cashcounter
    BY <2>3, CounterTypes
  <2>4. CASE UNCHANGED vars
    BY <2>4 DEF vars, TypeOK, LabelsOK, SemaphoresOK, ShopOK
  <2> QED
    BY <2>1, <2>2, <2>3, <2>4 DEF Next, Exited
<1> QED
  BY <1>1, <1>2, PTL DEF Spec

-----------------------------------------------------------------------------
(* Nobody sits on somebody's lap.  NobodysLap is not inductive by itself:  *)
(* it needs that mutex2 excludes (two customers scanning together could    *)
(* settle on one chair) and that the chair a customer has selected stays   *)
(* empty until he occupies it.                                             *)
MutexInv ==
    /\ sem["mutex2"] \in {0, 1}
    /\ \A c \in At(ChairSection) : sem["mutex2"] = 0
    /\ \A c, d \in At(ChairSection) : c = d

SeatInv ==
    /\ \A c \in Customers : cpc[c] \in Sitting => chair[seat[c]] = c
    /\ \A i \in Chairs : chair[i] # -1 =>
          cpc[chair[i]] \in Sitting /\ seat[chair[i]] = i
    /\ \A c \in Customers : cpc[c] = "occupy" => chair[seat[c]] = -1

EmptyChairs == {i \in Chairs : chair[i] = -1}
CountInv == freechairs = Cardinality(EmptyChairs)

LapInv == MutexInv /\ SeatInv /\ CountInv

LEMMA LapInvImplies == LapInv => NobodysLap
BY DEF LapInv, SeatInv, CountInv, EmptyChairs, NobodysLap, At

LEMMA ChairsFinite == IsFiniteSet(Chairs) /\ Cardinality(Chairs) = totalchairs
BY ShopAssumption, FS_Interval DEF Chairs

LEMMA EmptyFinite == IsFiniteSet(EmptyChairs)
BY ChairsFinite, FS_Subset DEF EmptyChairs

LEMMA LapInit == Init => LapInv
<1> SUFFICES ASSUME Init PROVE LapInv
  OBVIOUS
<1>1. MutexInv
  BY DEF Init, MutexInv, At, ChairSection
<1>2. SeatInv
  BY DEF Init, SeatInv, Sitting
<1>3. EmptyChairs = Chairs
  BY DEF Init, EmptyChairs
<1>4. CountInv
  BY <1>3, ChairsFinite DEF Init, CountInv
<1> QED
  BY <1>1, <1>2, <1>4 DEF LapInv

(* A step between labels of the same kind, away from chairs and mutex2.    *)
Bystander(c) ==
    /\ UNCHANGED seatVars
    /\ sem'["mutex2"] = sem["mutex2"]
    /\ cpc' = [cpc EXCEPT ![c] = cpc'[c]]
    /\ cpc'[c] # "occupy"
    /\ cpc[c] \in Sitting <=> cpc'[c] \in Sitting
    /\ cpc[c] \in ChairSection <=> cpc'[c] \in ChairSection

LEMMA BystanderKeeps ==
    ASSUME TypeOK, LapInv, NEW c \in Customers, Bystander(c)
    PROVE  LapInv'
<1> USE DEF LapInv, Bystander, TypeOK, seatVars
<1>1. MutexInv'
  BY DEF MutexInv, At, LabelsOK
<1>2. SeatInv'
  BY DEF SeatInv, LabelsOK, ShopOK
<1>3. CountInv'
  BY DEF CountInv, EmptyChairs
<1> QED
  BY <1>1, <1>2, <1>3

LEMMA MostAreBystanders ==
    ASSUME TypeOK, NEW c \in Customers,
           \/ Enter(c) \/ ReserveFilmfare(c) \/ TakeFilmfare(c)
           \/ TicketWhileReading(c) \/ UnreserveFilmfare(c)
           \/ PutBackFilmfare(c) \/ Ticket(c) \/ CallBarber(c) \/ Ready(c)
           \/ HaircutDone(c) \/ QueueToPay(c) \/ Pay(c) \/ TakeReceipt(c)
           \/ PostDone(c) \/ LeaveShop(c) \/ ExitProgram(c)
    PROVE  Bystander(c)
<1> USE DEF Bystander, TypeOK, LabelsOK, SemaphoresOK, CStep, OnlySem,
            seatVars, Sitting, ChairSection, Names
<1>1. CASE Enter(c)
  BY <1>1 DEF Enter, Wait
<1>2. CASE ReserveFilmfare(c)
  BY <1>2 DEF ReserveFilmfare
<1>3. CASE TakeFilmfare(c)
  BY <1>3 DEF TakeFilmfare, Wait
<1>4. CASE TicketWhileReading(c)
  BY <1>4 DEF TicketWhileReading, Wait
<1>5. CASE UnreserveFilmfare(c)
  BY <1>5 DEF UnreserveFilmfare
<1>6. CASE PutBackFilmfare(c)
  BY <1>6 DEF PutBackFilmfare, Post
<1>7. CASE Ticket(c)
  BY <1>7 DEF Ticket, Wait
<1>8. CASE CallBarber(c)
  BY <1>8 DEF CallBarber
<1>9. CASE Ready(c)
  BY <1>9 DEF Ready, Post
<1>10. CASE HaircutDone(c)
  BY <1>10 DEF HaircutDone
<1>11. CASE QueueToPay(c)
  BY <1>11 DEF QueueToPay
<1>12. CASE Pay(c)
  BY <1>12 DEF Pay, Post
<1>13. CASE TakeReceipt(c)
  BY <1>13 DEF TakeReceipt
<1>14. CASE PostDone(c)
  BY <1>14 DEF PostDone
<1>15. CASE LeaveShop(c)
  BY <1>15 DEF LeaveShop, Post
<1>16. CASE ExitProgram(c)
  BY <1>16 DEF ExitProgram
<1> QED
  BY <1>1, <1>2, <1>3, <1>4, <1>5, <1>6, <1>7, <1>8, <1>9, <1>10,
     <1>11, <1>12, <1>13, <1>14, <1>15, <1>16

LEMMA LapCustomer ==
    ASSUME TypeOK, LapInv, NEW c \in Customers, Customer(c)
    PROVE  LapInv'
<1> USE DEF LapInv, TypeOK, LabelsOK, CStep
<1>1. CASE LockToLook(c) \/ LockToSelect(c) \/ LockToRise(c)
  <2>1. MutexInv'
    BY <1>1 DEF LockToLook, LockToSelect, LockToRise, Wait, MutexInv, At,
                ChairSection, SemaphoresOK, Names
  <2>2. CountInv'
    BY <1>1 DEF LockToLook, LockToSelect, LockToRise, OnlySem, seatVars,
                CountInv, EmptyChairs
  <2>3. CASE LockToLook(c) \/ LockToSelect(c)
    BY <2>1, <2>2, <2>3 DEF LockToLook, LockToSelect, OnlySem, seatVars,
                            SeatInv, Sitting, ShopOK
  <2>4. CASE LockToRise(c)
    BY <2>1, <2>2, <2>4 DEF LockToRise, OnlySem, seatVars, SeatInv, Sitting,
                            ShopOK
  <2> QED
    BY <1>1, <2>3, <2>4
<1>2. CASE Decide(c)
  <2>1. MutexInv'
    BY <1>2 DEF Decide, Post, MutexInv, At, ChairSection, SemaphoresOK, Names
  <2>2. SeatInv' /\ CountInv'
    BY <1>2 DEF Decide, OnlySem, seatVars, SeatInv, CountInv, EmptyChairs,
                Sitting, ShopOK
  <2> QED
    BY <2>1, <2>2
<1>3. CASE ScanChairs(c)
  <2>1. MutexInv'
    BY <1>3 DEF ScanChairs, MutexInv, At, ChairSection
  <2>2. SeatInv'
    BY <1>3 DEF ScanChairs, SeatInv, Sitting, ShopOK, FirstFree, ChairsTaken
  <2>3. CountInv'
    BY <1>3 DEF ScanChairs, CountInv, EmptyChairs
  <2> QED
    BY <2>1, <2>2, <2>3
<1>4. CASE Occupy(c)
  <2>1. MutexInv'
    BY <1>4 DEF Occupy, Post, MutexInv, At, ChairSection, SemaphoresOK, Names
  <2>2. c # -1 /\ chair[seat[c]] = -1 /\ seat[c] \in Chairs
    BY <1>4 DEF Occupy, SeatInv, ShopOK, Customers
  <2>3. SeatInv'
    <3>1. \A d \in Customers : cpc'[d] \in Sitting => chair'[seat'[d]] = d
      BY <1>4, <2>2 DEF Occupy, SeatInv, Sitting, ShopOK, Customers
    <3>2. \A i \in Chairs : chair'[i] # -1 =>
             cpc'[chair'[i]] \in Sitting /\ seat'[chair'[i]] = i
      BY <1>4, <2>2 DEF Occupy, SeatInv, Sitting, ShopOK
    <3>3. \A d \in Customers : cpc'[d] # "occupy"
      BY <1>4 DEF Occupy, MutexInv, At, ChairSection
    <3> QED
      BY <3>1, <3>2, <3>3 DEF SeatInv
  <2>4. EmptyChairs' = EmptyChairs \ {seat[c]} /\ seat[c] \in EmptyChairs
    BY <1>4, <2>2 DEF Occupy, EmptyChairs, ShopOK
  <2>5. CountInv'
    BY <1>4, <2>4, EmptyFinite, FS_RemoveElement, FS_CardinalityType
       DEF Occupy, CountInv
  <2> QED
    BY <2>1, <2>3, <2>5
<1>5. CASE LeaveChair(c)
  <2>1. MutexInv'
    BY <1>5 DEF LeaveChair, Post, MutexInv, At, ChairSection, SemaphoresOK,
                Names
  <2>2. c # -1 /\ chair[seat[c]] = c /\ seat[c] \in Chairs
    BY <1>5 DEF LeaveChair, SeatInv, ShopOK, Customers, Sitting
  <2>3. SeatInv'
    BY <1>5, <2>2 DEF LeaveChair, SeatInv, Sitting, ShopOK, MutexInv, At,
                      ChairSection
  <2>4. EmptyChairs' = EmptyChairs \cup {seat[c]} /\ seat[c] \notin EmptyChairs
    BY <1>5, <2>2 DEF LeaveChair, EmptyChairs, ShopOK
  <2>5. CountInv'
    BY <1>5, <2>4, EmptyFinite, FS_AddElement, FS_CardinalityType
       DEF LeaveChair, CountInv
  <2> QED
    BY <2>1, <2>3, <2>5
<1> QED
  BY <1>1, <1>2, <1>3, <1>4, <1>5, MostAreBystanders, BystanderKeeps
  DEF Customer

LEMMA LapOthers ==
    ASSUME TypeOK, LapInv, (\E b \in Barbers : Barber(b)) \/ cashcounter
    PROVE  LapInv'
<1>1. UNCHANGED <<cpc, seatVars>> /\ sem'["mutex2"] = sem["mutex2"]
  BY DEF Barber, cashcounter, Sleep, ReadCall, CutHair, SeeLeave, ReleaseChair,
         AcceptPayment, AwaitPayer, ReadName, CallToCounter, Ring, Paid,
         GiveReceipt, Wait, Post, TypeOK, SemaphoresOK, Names
<1> QED
  BY <1>1 DEF seatVars, LapInv, MutexInv, SeatInv, CountInv, EmptyChairs, At

LEMMA LapInductive == TypeOK /\ LapInv /\ [Next]_vars => LapInv'
<1> SUFFICES ASSUME TypeOK, LapInv, [Next]_vars
             PROVE  LapInv'
  OBVIOUS
<1>1. CASE UNCHANGED vars
  BY <1>1 DEF vars, LapInv, MutexInv, SeatInv, CountInv, EmptyChairs, At
<1> QED
  BY <1>1, LapCustomer, LapOthers DEF Next, Exited

(* A chair names a customer exactly while he sits in it, and freechairs    *)
(* counts the empty ones, whatever the interleaving (lines 111-147).       *)
THEOREM NobodysLapAlways == Spec => []NobodysLap
BY LapInductive, LapInit, LapInvImplies, TypeCorrect, PTL DEF Spec

-----------------------------------------------------------------------------
(* A customer with a barberchair ticket finds a chair.  Tickets are posted *)
(* by barbers, chairs are freed by customers, and a barber may take the    *)
(* leave_bchair posted by an earlier occupant of his chair, so the proof   *)
(* counts.  FinishInv and CallInv: a call names a seated customer who is   *)
(* not cut, and only one call does.  StandInv: as many      *)
(* barbers stand at a chair as have left it unseen or sit in it cut.       *)
(* TicketInv: every ticket is in the semaphore, with an uncut customer or  *)
(* with a barber.                                                          *)
Waiting == {"ready", "haircut"}

FinishInv ==
    \A c \in Customers :
      finished[c] # 0 => finished[c] = 1 /\ cpc[c] \in Waiting

NamedIn(m, pc, fin, st) ==
    /\ m[1] \in Customers
    /\ pc[m[1]] \in Waiting
    /\ fin[m[1]] = 0
    /\ st[m[1]] = m[2]
Named(m) == NamedIn(m, cpc, finished, seat)
StillNamed(m) == NamedIn(m, cpc', finished', seat')

CallInv ==
    /\ \A k \in 1 .. Len(pipe1) : pipe1[k][1] # -1 => Named(pipe1[k])
    /\ \A k, l \in 1 .. Len(pipe1) :
          pipe1[k][1] # -1 /\ pipe1[k][1] = pipe1[l][1] => k = l
    /\ \A b \in Barbers : bpc[b] = "cut" =>
          /\ Named(call[b])
          /\ \A k \in 1 .. Len(pipe1) : pipe1[k][1] # call[b][1]
    /\ \A b, d \in Barbers :
          bpc[b] = "cut" /\ bpc[d] = "cut" /\ call[b][1] = call[d][1] => b = d

StandAt(i) == {b \in Barbers : bpc[b] = "stand" /\ call[b][2] = i}
Shorn(c) == finished[c] = 1 \/ cpc[c] \in {"rise", "leave"}
ShornIn(i) == IF chair[i] # -1 /\ Shorn(chair[i]) THEN 1 ELSE 0
StandInv ==
    \A i \in Chairs : Cardinality(StandAt(i)) = leave_bchair[i] + ShornIn(i)

Attending == BarbersAt({"stand", "release"})
TicketInv ==
    sem["barberchair"] + Cardinality(Uncut) + Cardinality(Attending)
      = totalchairs

CutInv == FinishInv /\ CallInv /\ StandInv /\ TicketInv

LEMMA PeopleFinite ==
    /\ IsFiniteSet(Uncut) /\ Cardinality(Uncut) \in Nat
    /\ IsFiniteSet(Attending) /\ Cardinality(Attending) \in Nat
    /\ \A i : IsFiniteSet(StandAt(i)) /\ Cardinality(StandAt(i)) \in Nat
<1>1. IsFiniteSet(Customers) /\ IsFiniteSet(Barbers)
  BY ShopAssumption, FS_Interval DEF Customers, Barbers
<1>2. Uncut \subseteq Customers /\ Attending \subseteq Barbers
      /\ \A i : StandAt(i) \subseteq Barbers
  BY DEF Uncut, At, Attending, BarbersAt, StandAt
<1> QED
  BY <1>1, <1>2, FS_Subset, FS_CardinalityType

(* Calls stay as they are when nobody calls or answers and everybody named *)
(* in one stays put.                                                       *)
LEMMA CallsStay ==
    ASSUME CallInv, UNCHANGED <<pipe1, bpc, call>>,
           \A m : Named(m) => StillNamed(m)
    PROVE  CallInv'
BY DEF CallInv, Named, StillNamed

LEMMA CutInit == Init => CutInv
<1> SUFFICES ASSUME Init PROVE CutInv
  OBVIOUS
<1>1. FinishInv /\ CallInv
  BY DEF Init, FinishInv, CallInv
<1>2. StandInv
  <2> SUFFICES ASSUME NEW i \in Chairs
               PROVE  Cardinality(StandAt(i)) = leave_bchair[i] + ShornIn(i)
    BY DEF StandInv
  <2>1. StandAt(i) = {}
    BY DEF Init, StandAt
  <2> QED
    BY <2>1, FS_EmptySet DEF Init, ShornIn
<1>3. TicketInv
  <2>1. Uncut = {} /\ Attending = {}
    BY DEF Init, Uncut, At, Ticketed, Attending, BarbersAt
  <2> QED
    BY <2>1, FS_EmptySet, ShopAssumption DEF Init, TicketInv
<1> QED
  BY <1>1, <1>2, <1>3 DEF CutInv

(* A customer's step that touches none of the three invariants.            *)
Unaffected(c) ==
    /\ UNCHANGED <<finished, leave_bchair, pipe1, bpc, call, chair, seat>>
    /\ sem'["barberchair"] = sem["barberchair"]
    /\ cpc' = [cpc EXCEPT ![c] = cpc'[c]]
    /\ cpc[c] \in Waiting <=> cpc'[c] \in Waiting
    /\ cpc[c] \in Ticketed <=> cpc'[c] \in Ticketed
    /\ cpc[c] \in {"rise", "leave"} <=> cpc'[c] \in {"rise", "leave"}

LEMMA UnaffectedKeeps ==
    ASSUME TypeOK, CutInv,
           NEW c \in Customers, Unaffected(c)
    PROVE  CutInv'
<1> USE DEF Unaffected, TypeOK, LabelsOK, CutInv
<1>1. FinishInv' /\ CallInv'
  BY CallsStay DEF FinishInv, Named, StillNamed, NamedIn
<1>2. StandInv'
  <2>1. \A i \in Chairs : StandAt(i)' = StandAt(i) /\ ShornIn(i)' = ShornIn(i)
    BY DEF StandAt, ShornIn, Shorn, ShopOK
  <2> QED
    BY <2>1 DEF StandInv
<1>3. TicketInv'
  <2>1. Uncut' = Uncut /\ Attending' = Attending
    BY DEF Uncut, At, Attending, BarbersAt
  <2> QED
    BY <2>1 DEF TicketInv
<1> QED
  BY <1>1, <1>2, <1>3

LEMMA MostAreUnaffected ==
    ASSUME TypeOK, NEW c \in Customers,
           \/ Enter(c) \/ LockToLook(c) \/ Decide(c) \/ ReserveFilmfare(c)
           \/ TakeFilmfare(c) \/ UnreserveFilmfare(c) \/ PutBackFilmfare(c)
           \/ LockToSelect(c) \/ Ready(c) \/ LockToRise(c) \/ QueueToPay(c)
           \/ Pay(c) \/ TakeReceipt(c) \/ PostDone(c) \/ LeaveShop(c)
           \/ ExitProgram(c)
    PROVE  Unaffected(c)
<1> USE DEF Unaffected, TypeOK, LabelsOK, SemaphoresOK, CStep, OnlySem,
            staffVars, cutVars, seatVars, Waiting, Ticketed, Names
<1>1. CASE Enter(c)
  BY <1>1 DEF Enter, Wait
<1>2. CASE LockToLook(c)
  BY <1>2 DEF LockToLook, Wait
<1>3. CASE Decide(c)
  BY <1>3 DEF Decide, Post
<1>4. CASE ReserveFilmfare(c)
  BY <1>4 DEF ReserveFilmfare
<1>5. CASE TakeFilmfare(c)
  BY <1>5 DEF TakeFilmfare, Wait
<1>6. CASE UnreserveFilmfare(c)
  BY <1>6 DEF UnreserveFilmfare
<1>7. CASE PutBackFilmfare(c)
  BY <1>7 DEF PutBackFilmfare, Post
<1>8. CASE LockToSelect(c)
  BY <1>8 DEF LockToSelect, Wait
<1>9. CASE Ready(c)
  BY <1>9 DEF Ready, Post
<1>10. CASE LockToRise(c)
  BY <1>10 DEF LockToRise, Wait
<1>11. CASE QueueToPay(c)
  BY <1>11 DEF QueueToPay
<1>12. CASE Pay(c)
  BY <1>12 DEF Pay, Post
<1>13. CASE TakeReceipt(c)
  BY <1>13 DEF TakeReceipt
<1>14. CASE PostDone(c)
  BY <1>14 DEF PostDone
<1>15. CASE LeaveShop(c)
  BY <1>15 DEF LeaveShop, Post
<1>16. CASE ExitProgram(c)
  BY <1>16 DEF ExitProgram
<1> QED
  BY <1>1, <1>2, <1>3, <1>4, <1>5, <1>6, <1>7, <1>8, <1>9, <1>10,
     <1>11, <1>12, <1>13, <1>14, <1>15, <1>16

(* The other customers' steps take a ticket, choose, occupy or leave a     *)
(* chair, call a barber or learn that the hair is cut.                     *)
LEMMA CutCustomer ==
    ASSUME TypeOK, LapInv, CutInv,
           NEW c \in Customers, Customer(c)
    PROVE  CutInv'
<1> USE DEF TypeOK, LabelsOK, CStep, CutInv
<1> DEFINE Same == \A i \in Chairs : /\ StandAt(i)' = StandAt(i)
                                     /\ ShornIn(i)' = ShornIn(i)
                                     /\ leave_bchair'[i] = leave_bchair[i]
<1>0. ASSUME Same PROVE StandInv'
  BY <1>0 DEF StandInv
<1>1. CASE Ticket(c) \/ TicketWhileReading(c)
  <2> USE <1>1 DEF Ticket, TicketWhileReading, OnlySem, staffVars, cutVars,
                   seatVars
  <2>1. FinishInv' /\ CallInv'
    BY CallsStay DEF FinishInv, Named, StillNamed, NamedIn, Waiting
  <2>2. Same
    BY DEF StandAt, ShornIn, Shorn, ShopOK
  <2>3. Uncut' = Uncut \cup {c} /\ c \notin Uncut /\ Attending' = Attending
    BY DEF Uncut, At, Ticketed, Attending, BarbersAt, FinishInv, Waiting
  <2>4. /\ sem["barberchair"] \in Nat
        /\ sem'["barberchair"] = sem["barberchair"] - 1
    BY DEF Wait, SemaphoresOK, Names
  <2>5. Cardinality(Uncut') = Cardinality(Uncut) + 1
    BY <2>3, PeopleFinite, FS_AddElement
  <2>6. TicketInv'
    BY <2>3, <2>4, <2>5, PeopleFinite DEF TicketInv
  <2> HIDE <1>1
  <2> QED
    BY <2>1, <2>2, <2>6, <1>0
<1>2. CASE ScanChairs(c)
  <2> USE <1>2 DEF ScanChairs, staffVars, cutVars
  <2>1. FinishInv' /\ CallInv'
    BY CallsStay DEF FinishInv, Named, StillNamed, NamedIn, Waiting, ShopOK
  <2>2. Same
    BY DEF StandAt, ShornIn, Shorn, ShopOK
  <2>3. Uncut' = Uncut /\ Attending' = Attending
    BY DEF Uncut, At, Ticketed, Attending, BarbersAt
  <2> QED
    BY <2>1, <2>2, <2>3, <1>0 DEF TicketInv
<1>3. CASE Occupy(c)
  <2> USE <1>3 DEF Occupy, staffVars, cutVars
  <2>1. FinishInv' /\ CallInv'
    BY CallsStay DEF FinishInv, Named, StillNamed, NamedIn, Waiting
  <2>2. Same
    BY DEF StandAt, ShornIn, Shorn, ShopOK, LapInv, SeatInv, FinishInv, Waiting
  <2>3. Uncut' = Uncut /\ Attending' = Attending
    BY DEF Uncut, At, Ticketed, Attending, BarbersAt
  <2>4. sem'["barberchair"] = sem["barberchair"]
    BY DEF Post, SemaphoresOK, Names
  <2> QED
    BY <2>1, <2>2, <2>3, <2>4, <1>0 DEF TicketInv
<1>4. CASE CallBarber(c)
  <2> USE <1>4 DEF CallBarber, staffVars, seatVars
  <2>a. \A m : Named(m) => StillNamed(m) /\ m[1] # c
    BY DEF Named, StillNamed, NamedIn, Waiting
  <2>b. StillNamed(<<c, seat[c]>>)
    BY DEF Named, StillNamed, NamedIn, Waiting, FinishInv
  <2>c. FinishInv'
    BY DEF FinishInv, Waiting
  <2>1. FinishInv' /\ CallInv'
    <3> DEFINE n == Len(pipe1)
    <3>1. n \in Nat /\ Len(pipe1') = n + 1 /\ pipe1'[n + 1] = <<c, seat[c]>>
          /\ \A k \in 1 .. n : pipe1'[k] = pipe1[k]
      BY DEF ShopOK
    <3>2. \A k \in 1 .. n : pipe1[k][1] # -1 =>
             pipe1[k][1] # c /\ StillNamed(pipe1[k])
      BY <2>a DEF CallInv
    <3>3. \A b \in Barbers : bpc[b] = "cut" =>
             call[b][1] # c /\ StillNamed(call[b])
      BY <2>a DEF CallInv
    <3>4. c # -1
      BY DEF Customers
    <3> HIDE <1>4 DEF n
    <3>5. \A k \in 1 .. n + 1 : k \in 1 .. n \/ k = n + 1
      BY <3>1
    <3>6. bpc' = bpc /\ call' = call
      BY <1>4
    <3>7. \A k \in 1 .. n + 1 : pipe1'[k][1] # -1 => StillNamed(pipe1'[k])
      BY <2>b, <3>1, <3>2, <3>5
    <3>8. \A k, l \in 1 .. n + 1 :
             pipe1'[k][1] # -1 /\ pipe1'[k][1] = pipe1'[l][1] => k = l
      BY <3>1, <3>2, <3>4, <3>5 DEF CallInv, n
    <3>9. \A b \in Barbers : bpc[b] = "cut" =>
             \A k \in 1 .. n + 1 : pipe1'[k][1] # call[b][1]
      BY <3>1, <3>3, <3>5 DEF CallInv, n
    <3> QED
      BY <2>c, <3>1, <3>3, <3>6, <3>7, <3>8, <3>9
      DEF CallInv, Named, StillNamed
  <2>2. Same
    BY DEF StandAt, ShornIn, Shorn, ShopOK
  <2>3. Uncut' = Uncut /\ Attending' = Attending
    BY DEF Uncut, At, Ticketed, Attending, BarbersAt
  <2> QED
    BY <2>1, <2>2, <2>3, <1>0 DEF TicketInv
<1>5. CASE HaircutDone(c)
  <2> USE <1>5 DEF HaircutDone, staffVars, seatVars
  <2>0. finished[c] = 1 /\ finished' = [finished EXCEPT ![c] = 0]
    <3>1. finished[c] # 0
      OBVIOUS
    <3>2. finished[c] = 1
      BY <3>1 DEF FinishInv
    <3> QED
      BY <3>2
  <2>1. FinishInv' /\ CallInv'
    BY <2>0, CallsStay DEF FinishInv, Named, StillNamed, NamedIn,
                              Waiting, SemaphoresOK
  <2>2. Same
    BY <2>0 DEF StandAt, ShornIn, Shorn, ShopOK, SemaphoresOK
  <2>3. Uncut' = Uncut /\ Attending' = Attending
    BY <2>0 DEF Uncut, At, Ticketed, Attending, BarbersAt, SemaphoresOK
  <2> QED
    BY <2>1, <2>2, <2>3, <1>0 DEF TicketInv
<1>6. CASE LeaveChair(c)
  <2> USE <1>6 DEF LeaveChair, staffVars
  <2>1. FinishInv' /\ CallInv'
    BY CallsStay DEF FinishInv, Named, StillNamed, NamedIn, Waiting
  <2>2. chair[seat[c]] = c /\ c # -1 /\ seat[c] \in Chairs
    BY DEF LapInv, SeatInv, Sitting, ShopOK, Customers
  <2>3. ASSUME NEW i \in Chairs, i # seat[c]
        PROVE  StandAt(i)' = StandAt(i) /\ ShornIn(i)' = ShornIn(i)
               /\ leave_bchair'[i] = leave_bchair[i]
    BY <2>2, <2>3 DEF StandAt, ShornIn, Shorn, ShopOK, SemaphoresOK, LapInv,
                      SeatInv
  <2>4. /\ StandAt(seat[c])' = StandAt(seat[c])
        /\ ShornIn(seat[c]) = 1 /\ ShornIn(seat[c])' = 0
        /\ leave_bchair[seat[c]] \in Nat
        /\ leave_bchair'[seat[c]] = leave_bchair[seat[c]] + 1
    BY <2>2 DEF StandAt, ShornIn, Shorn, ShopOK, SemaphoresOK
  <2>5. StandInv'
    BY <2>2, <2>3, <2>4 DEF StandInv
  <2>6. Uncut' = Uncut /\ Attending' = Attending
    BY DEF Uncut, At, Ticketed, Attending, BarbersAt
  <2>7. sem'["barberchair"] = sem["barberchair"]
    BY DEF Post, SemaphoresOK, Names
  <2> QED
    BY <2>1, <2>5, <2>6, <2>7 DEF TicketInv
<1> QED
  BY <1>1, <1>2, <1>3, <1>4, <1>5, <1>6, MostAreUnaffected, UnaffectedKeeps
  DEF Customer

(* Barbers: a call read moves from the pipe to the barber; cutting moves a *)
(* ticket from the customer to the barber, who gives it back.              *)
LEMMA CutBarber ==
    ASSUME TypeOK, LapInv, CutInv, NEW b \in Barbers, Barber(b)
    PROVE  CutInv'
<1> USE DEF TypeOK, LabelsOK, BStep, CutInv
<1>1. CASE Sleep(b) \/ AcceptPayment(b)
  <2> USE <1>1 DEF Sleep, AcceptPayment, cutVars, seatVars
  <2>1. FinishInv' /\ CallInv'
    BY DEF FinishInv, CallInv, Named, StillNamed, NamedIn
  <2>2. \A i \in Chairs : StandAt(i)' = StandAt(i) /\ ShornIn(i)' = ShornIn(i)
    BY DEF StandAt, ShornIn, Shorn
  <2>3. Uncut' = Uncut /\ Attending' = Attending
    BY DEF Uncut, At, Attending, BarbersAt
  <2>4. sem'["barberchair"] = sem["barberchair"]
    BY DEF Wait, Post, SemaphoresOK, Names
  <2> QED
    BY <2>1, <2>2, <2>3, <2>4 DEF StandInv, TicketInv
<1>2. CASE ReadCall(b)
  <2> USE <1>2 DEF ReadCall, cashVars, seatVars
  <2>1. FinishInv' /\ \A m : Named(m) <=> StillNamed(m)
    BY DEF FinishInv, Named, StillNamed, NamedIn
  <2>2. CallInv'
    <3>1. /\ Len(pipe1) \in Nat \ {0} /\ Len(pipe1') = Len(pipe1) - 1
          /\ \A k \in 1 .. Len(pipe1') : k + 1 \in 1 .. Len(pipe1)
                                         /\ pipe1'[k] = pipe1[k + 1]
          /\ Head(pipe1) = pipe1[1]
      BY DEF ShopOK
    <3>2. call'[b] = pipe1[1] /\ \A d \in Barbers : d # b =>
             call'[d] = call[d] /\ bpc'[d] = bpc[d]
      BY <3>1 DEF ShopOK
    <3>3. bpc'[b] = "cut" => pipe1[1][1] # -1
      BY <3>1 DEF Counter
    <3> HIDE <1>2
    <3>4. \A k \in 1 .. Len(pipe1') : pipe1'[k][1] # -1 => StillNamed(pipe1'[k])
      BY <2>1, <3>1 DEF CallInv
    <3>5. \A k, l \in 1 .. Len(pipe1') :
             pipe1'[k][1] # -1 /\ pipe1'[k][1] = pipe1'[l][1] => k = l
      BY <3>1 DEF CallInv
    <3>6. ASSUME NEW d \in Barbers, bpc'[d] = "cut"
          PROVE  /\ StillNamed(call'[d])
                 /\ \A k \in 1 .. Len(pipe1') : pipe1'[k][1] # call'[d][1]
      <4>1. CASE d = b
        BY <2>1, <3>1, <3>2, <3>3, <3>6, <4>1 DEF CallInv
      <4>2. CASE d # b
        <5>1. bpc[d] = "cut" /\ call'[d] = call[d]
          BY <3>2, <3>6, <4>2
        <5>2. /\ Named(call[d])
              /\ \A k \in 1 .. Len(pipe1) : pipe1[k][1] # call[d][1]
          BY <5>1 DEF CallInv
        <5> QED
          BY <2>1, <3>1, <5>1, <5>2
      <4> QED
        BY <4>1, <4>2
    <3>7. \A d, e \in Barbers :
            bpc'[d] = "cut" /\ bpc'[e] = "cut" /\ call'[d][1] = call'[e][1]
              => d = e
      BY <3>1, <3>2, <3>3 DEF CallInv
    <3> QED
      BY <3>4, <3>5, <3>6, <3>7 DEF CallInv, Named, StillNamed
  <2>3. \A i \in Chairs : StandAt(i)' = StandAt(i) /\ ShornIn(i)' = ShornIn(i)
    BY DEF StandAt, ShornIn, Shorn, ShopOK
  <2>4. Uncut' = Uncut /\ Attending' = Attending
    BY DEF Uncut, At, Attending, BarbersAt
  <2> QED
    BY <2>1, <2>2, <2>3, <2>4 DEF StandInv, TicketInv
<1>3. CASE CutHair(b)
  <2> USE <1>3 DEF CutHair, cashVars, seatVars
  <2>0. Named(call[b]) /\ call[b][2] \in Chairs
    BY DEF CallInv, Named, NamedIn, ShopOK
  <2> PICK c \in Customers, i \in Chairs : c = call[b][1] /\ i = call[b][2]
    BY <2>0 DEF Named, NamedIn
  <2>1. /\ cpc[c] \in Waiting /\ finished[c] = 0 /\ seat[c] = i
        /\ chair[i] = c /\ c # -1
    BY <2>0 DEF Named, NamedIn, LapInv, SeatInv, Sitting, Waiting, Customers
  <2>2. finished' = [finished EXCEPT ![c] = 1]
    BY <2>1 DEF SemaphoresOK
  <2>3. FinishInv'
    BY <2>1, <2>2 DEF FinishInv, SemaphoresOK
  <2>4. \A m : Named(m) /\ m[1] # c => StillNamed(m)
    BY <2>1, <2>2 DEF Named, StillNamed, NamedIn, SemaphoresOK
  <2>5. CallInv'
    BY <2>1, <2>4 DEF CallInv, Named, StillNamed
  <2>6. ASSUME NEW j \in Chairs
        PROVE  Cardinality(StandAt(j)') = leave_bchair'[j] + ShornIn(j)'
    <3>1. CASE j = i
      <4>1. StandAt(i)' = StandAt(i) \cup {b} /\ b \notin StandAt(i)
        BY DEF StandAt
      <4>2. ShornIn(i) = 0 /\ ShornIn(i)' = 1
        <5>1. ~Shorn(c)
          BY <2>1 DEF Shorn, Waiting
        <5>2. chair' = chair /\ finished'[c] = 1
          BY <2>1, <2>2 DEF SemaphoresOK
        <5> QED
          BY <2>1, <5>1, <5>2 DEF ShornIn, Shorn
      <4>3. Cardinality(StandAt(i)') = Cardinality(StandAt(i)) + 1
        BY <4>1, PeopleFinite, FS_AddElement
      <4> QED
        <5>1. leave_bchair' = leave_bchair /\ leave_bchair[i] \in Nat
          BY <2>1 DEF SemaphoresOK
        <5> HIDE <1>3
        <5> QED
          BY <2>1, <3>1, <4>2, <4>3, <5>1 DEF StandInv
    <3>2. CASE j # i
      <4>1. StandAt(j)' = StandAt(j)
        BY <3>2 DEF StandAt
      <4>2. ShornIn(j)' = ShornIn(j)
        BY <2>1, <2>2, <3>2 DEF ShornIn, Shorn, SemaphoresOK, LapInv, SeatInv
      <4> QED
        BY <4>1, <4>2 DEF StandInv
    <3> QED
      BY <3>1, <3>2
  <2>7. Uncut' = Uncut \ {c} /\ c \in Uncut
    BY <2>1, <2>2 DEF Uncut, At, Ticketed, Waiting, SemaphoresOK
  <2>8. Attending' = Attending \cup {b} /\ b \notin Attending
    BY DEF Attending, BarbersAt
  <2>9. Cardinality(Uncut') = Cardinality(Uncut) - 1
    BY <2>7, PeopleFinite, FS_RemoveElement
  <2>10. Cardinality(Attending') = Cardinality(Attending) + 1
    BY <2>8, PeopleFinite, FS_AddElement
  <2>11. TicketInv'
    BY <2>9, <2>10, PeopleFinite DEF TicketInv, SemaphoresOK, Names
  <2> QED
    BY <2>3, <2>5, <2>6, <2>11 DEF StandInv
<1>4. CASE SeeLeave(b)
  <2> DEFINE i == call[b][2]
  <2> USE <1>4 DEF SeeLeave, cashVars, seatVars
  <2>1. FinishInv' /\ CallInv'
    BY DEF FinishInv, CallInv, Named, StillNamed, NamedIn
  <2>2. ASSUME NEW j \in Chairs
        PROVE  Cardinality(StandAt(j)') = leave_bchair'[j] + ShornIn(j)'
    <3>1. ShornIn(j)' = ShornIn(j) /\ ShornIn(j) \in Nat
      BY DEF ShornIn, Shorn
    <3>2. CASE j = i
      <4>1. StandAt(j)' = StandAt(j) \ {b} /\ b \in StandAt(j)
        BY <3>2 DEF StandAt
      <4>2. Cardinality(StandAt(j)') = Cardinality(StandAt(j)) - 1
        BY <4>1, PeopleFinite, FS_RemoveElement
      <4>3. leave_bchair[j] \in Nat /\ leave_bchair'[j] = leave_bchair[j] - 1
        BY <3>2 DEF SemaphoresOK
      <4> HIDE <1>4
      <4> QED
        BY <3>1, <4>2, <4>3, PeopleFinite DEF StandInv
    <3>3. CASE j # i
      BY <3>1, <3>3 DEF StandAt, StandInv
    <3> QED
      BY <3>2, <3>3
  <2>3. Uncut' = Uncut /\ Attending' = Attending
    BY DEF Uncut, At, Attending, BarbersAt
  <2> QED
    BY <2>1, <2>2, <2>3 DEF StandInv, TicketInv
<1>5. CASE ReleaseChair(b)
  <2> USE <1>5 DEF ReleaseChair, cutVars, seatVars
  <2>1. FinishInv' /\ CallInv'
    BY DEF FinishInv, CallInv, Named, StillNamed, NamedIn
  <2>2. \A i \in Chairs : StandAt(i)' = StandAt(i) /\ ShornIn(i)' = ShornIn(i)
    BY DEF StandAt, ShornIn, Shorn
  <2>3. Uncut' = Uncut /\ Attending' = Attending \ {b} /\ b \in Attending
    BY DEF Uncut, At, Attending, BarbersAt
  <2>4. Cardinality(Attending') = Cardinality(Attending) - 1
    BY <2>3, PeopleFinite, FS_RemoveElement
  <2>5. /\ sem["barberchair"] \in Nat
        /\ sem'["barberchair"] = sem["barberchair"] + 1
    BY DEF Post, SemaphoresOK, Names
  <2>6. TicketInv'
    BY <2>3, <2>4, <2>5, PeopleFinite DEF TicketInv
  <2> QED
    BY <2>1, <2>2, <2>6 DEF StandInv
<1> QED
  BY <1>1, <1>2, <1>3, <1>4, <1>5 DEF Barber

(* The counter's call, which names no customer, is all it adds.            *)
LEMMA CutCounter ==
    ASSUME TypeOK, CutInv, cashcounter
    PROVE  CutInv'
<1> USE DEF TypeOK, CutInv
<1>1. /\ UNCHANGED <<cpc, bpc, call, finished, leave_bchair, chair, seat>>
      /\ sem'["barberchair"] = sem["barberchair"]
      /\ pipe1' = pipe1 \/ pipe1' = Append(pipe1, <<-1, 0>>)
  BY DEF cashcounter, AwaitPayer, ReadName, CallToCounter, Ring, Paid,
         GiveReceipt, KStep, Wait, Post, SemaphoresOK, Names, cashVars,
         cutVars, seatVars, Counter
<1>2. FinishInv' /\ StandInv' /\ TicketInv'
  BY <1>1 DEF FinishInv, StandInv, StandAt, ShornIn, Shorn, TicketInv, Uncut,
              At, Attending, BarbersAt
<1>3. \A m : Named(m) => StillNamed(m) /\ m[1] # -1
  BY <1>1 DEF Named, StillNamed, NamedIn, Customers
<1>4. CASE pipe1' = pipe1
  BY <1>1, <1>2, <1>3, <1>4, CallsStay
<1>5. CASE pipe1' = Append(pipe1, <<-1, 0>>)
  <2> DEFINE n == Len(pipe1)
  <2>1. n \in Nat /\ Len(pipe1') = n + 1 /\ pipe1'[n + 1] = <<-1, 0>>
        /\ \A k \in 1 .. n : pipe1'[k] = pipe1[k]
    BY <1>5 DEF ShopOK
  <2>2. \A k \in 1 .. n + 1 : k \in 1 .. n \/ pipe1'[k][1] = -1
    BY <2>1
  <2> QED
    BY <1>1, <1>2, <1>3, <2>1, <2>2 DEF CallInv, Named, StillNamed
<1> QED
  BY <1>1, <1>4, <1>5

LEMMA CutInductive == TypeOK /\ LapInv /\ CutInv /\ [Next]_vars => CutInv'
<1> SUFFICES ASSUME TypeOK, LapInv, CutInv, [Next]_vars
             PROVE  CutInv'
  OBVIOUS
<1>1. CASE UNCHANGED vars
  BY <1>1 DEF vars, CutInv, FinishInv, CallInv, Named, NamedIn, StandInv,
              StandAt, ShornIn, Shorn, TicketInv, Uncut, At, Attending,
              BarbersAt
<1> QED
  BY <1>1, CutCustomer, CutBarber, CutCounter DEF Next, Exited

(* Were all chairs taken while a ticket holder looks for one, each would   *)
(* hold an uncut customer, who has a ticket too, or a shorn one, at whom a *)
(* barber stands: more tickets than chairs.                                *)
LEMMA TicketMeansChair ==
    ASSUME TypeOK, LapInv, CutInv PROVE ChairForTicket
<1> USE DEF TypeOK, LabelsOK, CutInv
<1> SUFFICES ASSUME NEW c \in Customers, cpc[c] = "scan", ChairsTaken
             PROVE  FALSE
  BY DEF ChairForTicket, At
<1> DEFINE ShornChairs == {i \in Chairs : Shorn(chair[i])}
           UncutChairs == Chairs \ ShornChairs
           Sitters == Uncut \ {c}
           sitter == [i \in UncutChairs |-> chair[i]]
           barber == [i \in ShornChairs |->
                        CHOOSE b \in Attending : b \in StandAt(i)]
<1>1. \A i \in Chairs : /\ chair[i] \in Customers /\ chair[i] # -1
                        /\ cpc[chair[i]] \in Sitting /\ seat[chair[i]] = i
  BY DEF LapInv, SeatInv, ChairsTaken, ShopOK
<1>2. \A i \in UncutChairs : chair[i] \in Sitters
  BY <1>1 DEF Uncut, At, Ticketed, Shorn, Sitting, FinishInv, Waiting
<1>3. \A i \in ShornChairs : \E b \in Attending : b \in StandAt(i)
  <2> SUFFICES ASSUME NEW i \in ShornChairs
               PROVE  StandAt(i) # {}
    BY DEF Attending, BarbersAt, StandAt
  <2>1. ShornIn(i) = 1 /\ leave_bchair[i] \in Nat
    BY <1>1 DEF ShornIn, SemaphoresOK
  <2>2. Cardinality(StandAt(i)) > 0
    BY <2>1 DEF StandInv
  <2> QED
    BY <2>2, FS_EmptySet
<1>4. c \in Uncut
  BY DEF Uncut, At, Ticketed, FinishInv, Waiting
<1>5. /\ IsFiniteSet(Sitters) /\ Cardinality(Sitters) = Cardinality(Uncut) - 1
      /\ Cardinality(Sitters) \in Nat
  BY <1>4, PeopleFinite, FS_RemoveElement, FS_CardinalityType
<1>6. sitter \in Injection(UncutChairs, Sitters)
  BY <1>1, <1>2 DEF Injection, IsInjective
<1>7. barber \in Injection(ShornChairs, Attending)
  BY <1>3 DEF Injection, IsInjective, StandAt
<1>8. Cardinality(UncutChairs) <= Cardinality(Sitters)
  BY <1>5, <1>6, FS_Injection DEF ExistsInjection
<1>9. Cardinality(ShornChairs) <= Cardinality(Attending)
  BY <1>7, PeopleFinite, FS_Injection DEF ExistsInjection
<1>10. /\ Cardinality(UncutChairs) = totalchairs - Cardinality(ShornChairs)
       /\ Cardinality(UncutChairs) \in Nat /\ Cardinality(ShornChairs) \in Nat
  <2>1. ShornChairs \subseteq Chairs /\ Chairs \cap ShornChairs = ShornChairs
    OBVIOUS
  <2> HIDE DEF ShornChairs
  <2>2. IsFiniteSet(ShornChairs) /\ IsFiniteSet(UncutChairs)
    BY <2>1, ChairsFinite, FS_Subset
  <2>3. Cardinality(UncutChairs)
          = Cardinality(Chairs) - Cardinality(Chairs \cap ShornChairs)
    BY <2>1, ChairsFinite, FS_Difference
  <2> QED
    BY <2>1, <2>2, <2>3, ChairsFinite, FS_CardinalityType
<1>11. sem["barberchair"] \in Nat
  BY DEF SemaphoresOK, Names
<1> HIDE DEF ShornChairs, UncutChairs, Sitters
<1> QED
  BY <1>5, <1>8, <1>9, <1>10, <1>11, PeopleFinite DEF TicketInv

(* "This is not possible! we are here because at least 1 chair empty!"     *)
(* (lines 114-118) is never reached.                                       *)
THEOREM ChairForEveryTicket == Spec => []ChairForTicket
BY LapInductive, LapInit, CutInit, CutInductive, TicketMeansChair, TypeCorrect,
   PTL DEF Spec

(* A barber always cuts the hair of the customer seated in the chair he    *)
(* was told, whom no other barber cuts (lines 198-208).                    *)
THEOREM CutsSeatedCustomerAlways == Spec => []CutsSeatedCustomer
<1>1. TypeOK /\ LapInv /\ CutInv => CutsSeatedCustomer
  BY DEF LapInv, SeatInv, CutInv, CallInv, Named, NamedIn,
         CutsSeatedCustomer, BarbersAt, Waiting, Sitting
<1> QED
  BY <1>1, LapInductive, LapInit, CutInit, CutInductive, TypeCorrect, PTL
  DEF Spec

-----------------------------------------------------------------------------
(***************************************************************************)
(* The cash counter, and the shop as a whole: reads from the pipes never   *)
(* block, a receipt goes to the customer it was called for, and every step *)
(* is a step of ShopService.                                               *)
(***************************************************************************)
(* A call is in pipe1 before cust_ready is posted for it, and stays there  *)
(* until a barber who took the post has read it; likewise a name in pipe2. *)
(* Who is between the two is counted: a customer at "ready", the counter   *)
(* at "ring", a barber at "read".                                          *)
CallsOwed ==
    Cardinality(BarbersAt({"read"})) + Cardinality(At({"ready"}))
      + (IF kpc = "ring" THEN 1 ELSE 0)
NamesOwed == Cardinality(At({"pay"})) + (IF kpc = "name" THEN 1 ELSE 0)

PipeInv ==
    /\ Len(pipe1) = sem["cust_ready"] + CallsOwed
    /\ Len(pipe2) = sem["readywithpayment"] + NamesOwed

(* A customer is in the queue for payment, or the one at the counter, or   *)
(* has his receipt: never two of them.                                     *)
Paying == {"pay", "receipt"}
Serving == {"call", "ring", "paying", "give"}
Owed(c) == cpc[c] \in Paying /\ receipt[c] = 0

PayInv ==
    /\ \A c \in Customers :
          receipt[c] # 0 => receipt[c] = 1 /\ cpc[c] \in Paying
    /\ \A k \in 1 .. Len(pipe2) : Owed(pipe2[k])
    /\ \A k, l \in 1 .. Len(pipe2) : pipe2[k] = pipe2[l] => k = l
    /\ kpc \in Serving =>
          Owed(payer) /\ \A k \in 1 .. Len(pipe2) : pipe2[k] # payer

CashInv == PipeInv /\ PayInv

LEMMA CrowdsFinite ==
    ASSUME NEW L
    PROVE  /\ IsFiniteSet(At(L)) /\ Cardinality(At(L)) \in Nat
           /\ IsFiniteSet(BarbersAt(L)) /\ Cardinality(BarbersAt(L)) \in Nat
<1>1. IsFiniteSet(Customers) /\ IsFiniteSet(Barbers)
  BY ShopAssumption, FS_Interval DEF Customers, Barbers
<1>2. At(L) \subseteq Customers /\ BarbersAt(L) \subseteq Barbers
  BY DEF At, BarbersAt
<1> QED
  BY <1>1, <1>2, FS_Subset, FS_CardinalityType

(* One thread more or less at a place.                                     *)
LEMMA OneMore ==
    ASSUME NEW S, NEW T, NEW x, IsFiniteSet(S), x \notin S, T = S \cup {x}
    PROVE  Cardinality(T) = Cardinality(S) + 1
BY FS_AddElement

LEMMA OneLess ==
    ASSUME NEW S, NEW T, NEW x, IsFiniteSet(S), x \in S, T = S \ {x}
    PROVE  Cardinality(T) = Cardinality(S) - 1
BY FS_RemoveElement

(* What a step may do to the balance of a pipe: one more or less owed, for *)
(* a call or name written or read or a post made or taken.                 *)
LEMMA PipeBalance ==
    ASSUME TypeOK, PipeInv
    PROVE  /\ CallsOwed \in Nat /\ NamesOwed \in Nat
           /\ Len(pipe1) + 1 = sem["cust_ready"] + (CallsOwed + 1)
           /\ Len(pipe1) - 1 = sem["cust_ready"] + (CallsOwed - 1)
           /\ Len(pipe1) = (sem["cust_ready"] + 1) + (CallsOwed - 1)
           /\ Len(pipe1) = (sem["cust_ready"] - 1) + (CallsOwed + 1)
           /\ Len(pipe2) + 1 = sem["readywithpayment"] + (NamesOwed + 1)
           /\ Len(pipe2) - 1 = sem["readywithpayment"] + (NamesOwed - 1)
           /\ Len(pipe2) = (sem["readywithpayment"] + 1) + (NamesOwed - 1)
           /\ Len(pipe2) = (sem["readywithpayment"] - 1) + (NamesOwed + 1)
<1>1. /\ Cardinality(At({"ready"})) \in Nat /\ Cardinality(At({"pay"})) \in Nat
      /\ Cardinality(BarbersAt({"read"})) \in Nat
  BY CrowdsFinite
<1>2. CallsOwed \in Nat /\ NamesOwed \in Nat
  BY <1>1 DEF CallsOwed, NamesOwed
<1>3. /\ sem["cust_ready"] \in Nat /\ sem["readywithpayment"] \in Nat
      /\ Len(pipe1) \in Nat /\ Len(pipe2) \in Nat
  BY DEF TypeOK, SemaphoresOK, Names, ShopOK
<1>4. /\ Len(pipe1) = sem["cust_ready"] + CallsOwed
      /\ Len(pipe2) = sem["readywithpayment"] + NamesOwed
  BY DEF PipeInv
<1> DEFINE Shifts(l, s, o) == /\ l + 1 = s + (o + 1)
                              /\ l - 1 = s + (o - 1)
                              /\ l = (s + 1) + (o - 1)
                              /\ l = (s - 1) + (o + 1)
<1>5. \A l, s, o \in Nat : l = s + o => Shifts(l, s, o)
  OBVIOUS
<1>6. Shifts(Len(pipe1), sem["cust_ready"], CallsOwed)
  <2> HIDE DEF Shifts
  <2> QED
    BY <1>2, <1>3, <1>4, <1>5
<1>7. Shifts(Len(pipe2), sem["readywithpayment"], NamesOwed)
  <2> HIDE DEF Shifts
  <2> QED
    BY <1>2, <1>3, <1>4, <1>5
<1> QED
  BY <1>2, <1>6, <1>7, Zenon

LEMMA CashInit == Init => CashInv
<1> SUFFICES ASSUME Init PROVE CashInv
  OBVIOUS
<1>1. At({"ready"}) = {} /\ At({"pay"}) = {} /\ BarbersAt({"read"}) = {}
  BY DEF Init, At, BarbersAt
<1>2. PipeInv
  <2>1. /\ Len(pipe1) = 0 /\ Len(pipe2) = 0 /\ kpc = "idle"
        /\ sem["cust_ready"] = 0 /\ sem["readywithpayment"] = 0
    BY DEF Init
  <2>2. /\ Cardinality(At({"ready"})) = 0 /\ Cardinality(At({"pay"})) = 0
        /\ Cardinality(BarbersAt({"read"})) = 0
    BY <1>1, FS_EmptySet, Zenon
  <2>3. CallsOwed = 0 /\ NamesOwed = 0
    BY <2>1, <2>2 DEF CallsOwed, NamesOwed
  <2> QED
    BY <2>1, <2>3 DEF PipeInv
<1>3. PayInv
  BY DEF Init, PayInv, Serving
<1> QED
  BY <1>2, <1>3 DEF CashInv

(* Most steps of a customer move him between places without a pipe and     *)
(* leave the counter's semaphores alone.                                   *)
Aside(c) ==
    /\ UNCHANGED <<bpc, kpc, payer, pipe1, pipe2, receipt>>
    /\ sem'["cust_ready"] = sem["cust_ready"]
    /\ sem'["readywithpayment"] = sem["readywithpayment"]
    /\ cpc' = [cpc EXCEPT ![c] = cpc'[c]]
    /\ cpc[c] \notin {"ready"} \cup Paying
    /\ cpc'[c] \notin {"ready"} \cup Paying

LEMMA AsideKeeps ==
    ASSUME TypeOK, CashInv, NEW c \in Customers, Aside(c)
    PROVE  CashInv'
<1> USE DEF Aside, TypeOK, LabelsOK, CashInv, Paying
<1>1. PipeInv'
  <2>1. /\ At({"ready"})' = At({"ready"}) /\ At({"pay"})' = At({"pay"})
        /\ BarbersAt({"read"})' = BarbersAt({"read"})
    BY DEF At, BarbersAt
  <2> QED
    BY <2>1 DEF PipeInv, CallsOwed, NamesOwed
<1>2. \A d \in Customers : Owed(d) => cpc'[d] \in Paying /\ receipt'[d] = 0
  BY DEF Owed
<1>3. PayInv'
  BY <1>2 DEF PayInv, Owed, ShopOK
<1> QED
  BY <1>1, <1>3

LEMMA MostStepAside ==
    ASSUME TypeOK, NEW c \in Customers,
           \/ Enter(c) \/ LockToLook(c) \/ Decide(c) \/ ReserveFilmfare(c)
           \/ TakeFilmfare(c) \/ TicketWhileReading(c) \/ UnreserveFilmfare(c)
           \/ PutBackFilmfare(c) \/ Ticket(c) \/ LockToSelect(c)
           \/ ScanChairs(c) \/ Occupy(c) \/ HaircutDone(c) \/ LockToRise(c)
           \/ LeaveChair(c) \/ PostDone(c) \/ LeaveShop(c) \/ ExitProgram(c)
    PROVE  Aside(c)
<1> USE DEF Aside, TypeOK, LabelsOK, SemaphoresOK, CStep, OnlySem, staffVars,
            cashVars, cutVars, Paying, Names
<1>1. CASE Enter(c)
  BY <1>1 DEF Enter, Wait
<1>2. CASE LockToLook(c)
  BY <1>2 DEF LockToLook, Wait
<1>3. CASE Decide(c)
  BY <1>3 DEF Decide, Post
<1>4. CASE ReserveFilmfare(c)
  BY <1>4 DEF ReserveFilmfare
<1>5. CASE TakeFilmfare(c)
  BY <1>5 DEF TakeFilmfare, Wait
<1>6. CASE TicketWhileReading(c)
  BY <1>6 DEF TicketWhileReading, Wait
<1>7. CASE UnreserveFilmfare(c)
  BY <1>7 DEF UnreserveFilmfare
<1>8. CASE PutBackFilmfare(c)
  BY <1>8 DEF PutBackFilmfare, Post
<1>9. CASE Ticket(c)
  BY <1>9 DEF Ticket, Wait
<1>10. CASE LockToSelect(c)
  BY <1>10 DEF LockToSelect, Wait
<1>11. CASE ScanChairs(c)
  BY <1>11 DEF ScanChairs
<1>12. CASE Occupy(c)
  BY <1>12 DEF Occupy, Post
<1>13. CASE HaircutDone(c)
  BY <1>13 DEF HaircutDone
<1>14. CASE LockToRise(c)
  BY <1>14 DEF LockToRise, Wait
<1>15. CASE LeaveChair(c)
  BY <1>15 DEF LeaveChair, Post
<1>16. CASE PostDone(c)
  BY <1>16 DEF PostDone
<1>17. CASE LeaveShop(c)
  BY <1>17 DEF LeaveShop, Post
<1>18. CASE ExitProgram(c)
  BY <1>18 DEF ExitProgram
<1> QED
  BY <1>1, <1>2, <1>3, <1>4, <1>5, <1>6, <1>7, <1>8, <1>9, <1>10,
     <1>11, <1>12, <1>13, <1>14, <1>15, <1>16, <1>17, <1>18

(* The customer's own steps at the pipes and at the counter.               *)
LEMMA CashCustomer ==
    ASSUME TypeOK, CashInv, NEW c \in Customers, Customer(c)
    PROVE  CashInv'
<1> USE DEF TypeOK, LabelsOK, CStep, CashInv
<1> DEFINE ready == Cardinality(At({"ready"}))
           pay == Cardinality(At({"pay"}))
           read == Cardinality(BarbersAt({"read"}))
<1>0. /\ ready \in Nat /\ pay \in Nat /\ read \in Nat
      /\ sem["cust_ready"] \in Nat /\ sem["readywithpayment"] \in Nat
      /\ Len(pipe1) \in Nat /\ Len(pipe2) \in Nat
  BY CrowdsFinite DEF SemaphoresOK, Names, ShopOK
<1>1. CASE CallBarber(c)
  <2> USE <1>1 DEF CallBarber, staffVars, cashVars
  <2>1. At({"ready"})' = At({"ready"}) \cup {c} /\ c \notin At({"ready"})
    BY DEF At
  <2>2. At({"pay"})' = At({"pay"}) /\ BarbersAt({"read"})' = BarbersAt({"read"})
    BY DEF At, BarbersAt
  <2>3. ready' = ready + 1
    BY <2>1, CrowdsFinite, OneMore
  <2>4. Len(pipe1') = Len(pipe1) + 1
    BY DEF ShopOK
  <2>5. PipeInv'
    <3>1. /\ CallsOwed' = CallsOwed + 1 /\ NamesOwed' = NamesOwed
      BY <1>0, <2>2, <2>3 DEF CallsOwed, NamesOwed
    <3>2. UNCHANGED <<sem, pipe2>>
      OBVIOUS
    <3> HIDE <1>1
    <3> QED
      BY PipeBalance, <2>4, <3>1, <3>2 DEF PipeInv
  <2>6. \A d \in Customers : Owed(d) => cpc'[d] \in Paying /\ receipt'[d] = 0
    BY DEF Owed, Paying
  <2>7. PayInv'
    BY <2>6 DEF PayInv, Owed, ShopOK, Paying
  <2> QED
    BY <2>5, <2>7
<1>2. CASE Ready(c)
  <2> USE <1>2 DEF Ready, OnlySem, staffVars, cashVars, cutVars
  <2>1. At({"ready"})' = At({"ready"}) \ {c} /\ c \in At({"ready"})
    BY DEF At
  <2>2. At({"pay"})' = At({"pay"}) /\ BarbersAt({"read"})' = BarbersAt({"read"})
    BY DEF At, BarbersAt
  <2>3. ready' = ready - 1
    BY <2>1, CrowdsFinite, OneLess
  <2>4. /\ sem'["cust_ready"] = sem["cust_ready"] + 1
        /\ sem'["readywithpayment"] = sem["readywithpayment"]
    BY DEF Post, SemaphoresOK, Names
  <2>5. PipeInv'
    <3>1. /\ CallsOwed' = CallsOwed - 1 /\ NamesOwed' = NamesOwed
      BY <1>0, <2>2, <2>3 DEF CallsOwed, NamesOwed
    <3>2. UNCHANGED <<pipe1, pipe2>>
      OBVIOUS
    <3> HIDE <1>2
    <3> QED
      BY PipeBalance, <2>4, <3>1, <3>2 DEF PipeInv
  <2>6. \A d \in Customers : Owed(d) => cpc'[d] \in Paying /\ receipt'[d] = 0
    BY DEF Owed, Paying
  <2>7. PayInv'
    BY <2>6 DEF PayInv, Owed, ShopOK, Paying
  <2> QED
    BY <2>5, <2>7
<1>3. CASE QueueToPay(c)
  <2> USE <1>3 DEF QueueToPay, staffVars, cutVars
  <2>1. At({"pay"})' = At({"pay"}) \cup {c} /\ c \notin At({"pay"})
    BY DEF At
  <2>2. /\ At({"ready"})' = At({"ready"})
        /\ BarbersAt({"read"})' = BarbersAt({"read"})
    BY DEF At, BarbersAt
  <2>3. pay' = pay + 1
    BY <2>1, CrowdsFinite, OneMore
  <2> DEFINE n == Len(pipe2)
  <2>4. /\ n \in Nat /\ Len(pipe2') = n + 1 /\ pipe2'[n + 1] = c
        /\ \A k \in 1 .. n : pipe2'[k] = pipe2[k] /\ pipe2[k] \in Customers
    BY DEF ShopOK
  <2>5. PipeInv'
    <3>1. /\ CallsOwed' = CallsOwed /\ NamesOwed' = NamesOwed + 1
      BY <1>0, <2>2, <2>3 DEF CallsOwed, NamesOwed
    <3>2. UNCHANGED <<sem, pipe1>> /\ Len(pipe2') = Len(pipe2) + 1
      BY <2>4
    <3> HIDE <1>3
    <3> QED
      BY PipeBalance, <3>1, <3>2 DEF PipeInv
  <2>6. /\ \A d \in Customers : Owed(d) =>
              d # c /\ cpc'[d] \in Paying /\ receipt'[d] = 0
        /\ cpc'[c] \in Paying /\ receipt'[c] = 0
    BY DEF Owed, Paying, PayInv
  <2>7. \A k \in 1 .. n : Owed(pipe2[k]) /\ pipe2[k] # c
    BY <2>4, <2>6 DEF PayInv
  <2>8. kpc \in Serving => Owed(payer) /\ payer # c /\ payer \in Customers
    BY <2>6 DEF PayInv, ShopOK
  <2>9. \A d \in Customers : receipt'[d] # 0 =>
           receipt'[d] = 1 /\ cpc'[d] \in Paying
    BY DEF PayInv, Paying
  <2>10. UNCHANGED <<kpc, payer>>
    OBVIOUS
  <2> HIDE <1>3 DEF n
  <2>11. \A k \in 1 .. n + 1 : k \in 1 .. n \/ k = n + 1
    BY <2>4
  <2>12. \A k \in 1 .. n + 1 : cpc'[pipe2'[k]] \in Paying /\ receipt'[pipe2'[k]] = 0
    BY <2>4, <2>6, <2>7, <2>11
  <2>13. \A k, l \in 1 .. n + 1 : pipe2'[k] = pipe2'[l] => k = l
    BY <2>4, <2>7, <2>11 DEF PayInv, n
  <2>14. kpc' \in Serving =>
            /\ cpc'[payer'] \in Paying /\ receipt'[payer'] = 0
            /\ \A k \in 1 .. n + 1 : pipe2'[k] # payer'
    BY <2>4, <2>6, <2>8, <2>10, <2>11 DEF PayInv, n
  <2> QED
    BY <2>4, <2>5, <2>9, <2>12, <2>13, <2>14 DEF PayInv, Owed
<1>4. CASE Pay(c)
  <2> USE <1>4 DEF Pay, OnlySem, staffVars, cashVars, cutVars
  <2>1. At({"pay"})' = At({"pay"}) \ {c} /\ c \in At({"pay"})
    BY DEF At
  <2>2. /\ At({"ready"})' = At({"ready"})
        /\ BarbersAt({"read"})' = BarbersAt({"read"})
    BY DEF At, BarbersAt
  <2>3. pay' = pay - 1
    BY <2>1, CrowdsFinite, OneLess
  <2>4. /\ sem'["readywithpayment"] = sem["readywithpayment"] + 1
        /\ sem'["cust_ready"] = sem["cust_ready"]
    BY DEF Post, SemaphoresOK, Names
  <2>5. PipeInv'
    <3>1. /\ CallsOwed' = CallsOwed /\ NamesOwed' = NamesOwed - 1
      BY <1>0, <2>2, <2>3 DEF CallsOwed, NamesOwed
    <3>2. UNCHANGED <<pipe1, pipe2>>
      OBVIOUS
    <3> HIDE <1>4
    <3> QED
      BY PipeBalance, <2>4, <3>1, <3>2 DEF PipeInv
  <2>6. \A d \in Customers : Owed(d) => cpc'[d] \in Paying /\ receipt'[d] = 0
    BY DEF Owed, Paying
  <2>7. PayInv'
    BY <2>6 DEF PayInv, Owed, ShopOK, Paying
  <2> QED
    BY <2>5, <2>7
<1>5. CASE TakeReceipt(c)
  <2> USE <1>5 DEF TakeReceipt, staffVars, cutVars
  <2>1. /\ At({"ready"})' = At({"ready"}) /\ At({"pay"})' = At({"pay"})
        /\ BarbersAt({"read"})' = BarbersAt({"read"})
    BY DEF At, BarbersAt
  <2>2. PipeInv'
    BY <2>1 DEF PipeInv, CallsOwed, NamesOwed
  <2>3. receipt[c] = 1 /\ receipt' = [receipt EXCEPT ![c] = 0]
    <3>1. receipt[c] # 0
      OBVIOUS
    <3>2. receipt[c] = 1
      BY <3>1 DEF PayInv
    <3> QED
      BY <3>2
  <2>4. \A d \in Customers : Owed(d) => cpc'[d] \in Paying /\ receipt'[d] = 0
    BY <2>3 DEF Owed, SemaphoresOK
  <2>5. \A d \in Customers : receipt'[d] # 0 =>
           receipt'[d] = 1 /\ cpc'[d] \in Paying
    BY <2>3 DEF PayInv, Paying, SemaphoresOK
  <2>6. PayInv'
    BY <2>4, <2>5 DEF PayInv, Owed, ShopOK
  <2> QED
    BY <2>2, <2>6
<1> QED
  BY <1>1, <1>2, <1>3, <1>4, <1>5, MostStepAside, AsideKeeps DEF Customer

(* A barber takes a post of cust_ready, then the call it stands for.       *)
LEMMA CashBarber ==
    ASSUME TypeOK, CashInv, NEW b \in Barbers, Barber(b)
    PROVE  CashInv'
<1> USE DEF TypeOK, LabelsOK, BStep, CashInv
<1> DEFINE read == Cardinality(BarbersAt({"read"}))
<1>0. /\ Cardinality(At({"ready"})) \in Nat /\ Cardinality(At({"pay"})) \in Nat
      /\ read \in Nat
      /\ sem["cust_ready"] \in Nat /\ sem["readywithpayment"] \in Nat
      /\ Len(pipe1) \in Nat /\ Len(pipe2) \in Nat
  BY CrowdsFinite DEF SemaphoresOK, Names, ShopOK
<1>1. /\ UNCHANGED <<cpc, kpc, payer, pipe2, receipt>>
      /\ sem'["readywithpayment"] = sem["readywithpayment"]
  BY DEF Barber, Sleep, ReadCall, CutHair, SeeLeave, ReleaseChair,
         AcceptPayment, Wait, Post, SemaphoresOK, Names, cashVars, cutVars,
         seatVars
<1>2. At({"ready"})' = At({"ready"}) /\ At({"pay"})' = At({"pay"})
  BY <1>1 DEF At
<1>3. PayInv'
  BY <1>1 DEF PayInv, Owed
<1>4. NamesOwed' = NamesOwed
  BY <1>1, <1>2 DEF NamesOwed
<1>5. CASE Sleep(b)
  <2>1. /\ BarbersAt({"read"})' = BarbersAt({"read"}) \cup {b}
        /\ b \notin BarbersAt({"read"})
    BY <1>5 DEF Sleep, BarbersAt
  <2>2. read' = read + 1
    BY <2>1, CrowdsFinite, OneMore
  <2>3. CallsOwed' = CallsOwed + 1
    BY <1>0, <1>1, <1>2, <2>2 DEF CallsOwed
  <2>4. pipe1' = pipe1 /\ sem'["cust_ready"] = sem["cust_ready"] - 1
    BY <1>5 DEF Sleep, Wait, SemaphoresOK, Names, cutVars
  <2> QED
    BY PipeBalance, <1>1, <1>3, <1>4, <2>3, <2>4 DEF PipeInv
<1>6. CASE ReadCall(b)
  <2>1. /\ BarbersAt({"read"})' = BarbersAt({"read"}) \ {b}
        /\ b \in BarbersAt({"read"})
    BY <1>6 DEF ReadCall, BarbersAt
  <2>2. read' = read - 1
    BY <2>1, CrowdsFinite, OneLess
  <2>3. CallsOwed' = CallsOwed - 1
    BY <1>0, <1>1, <1>2, <2>2 DEF CallsOwed
  <2>4. Len(pipe1') = Len(pipe1) - 1 /\ sem'["cust_ready"] = sem["cust_ready"]
    BY <1>6 DEF ReadCall, ShopOK
  <2> QED
    BY PipeBalance, <1>1, <1>3, <1>4, <2>3, <2>4 DEF PipeInv
<1>7. CASE CutHair(b) \/ SeeLeave(b) \/ ReleaseChair(b) \/ AcceptPayment(b)
  <2>1. BarbersAt({"read"})' = BarbersAt({"read"})
    BY <1>7 DEF CutHair, SeeLeave, ReleaseChair, AcceptPayment, BarbersAt
  <2>2. CallsOwed' = CallsOwed
    BY <1>1, <1>2, <2>1 DEF CallsOwed
  <2>3. pipe1' = pipe1 /\ sem'["cust_ready"] = sem["cust_ready"]
    BY <1>7 DEF CutHair, SeeLeave, ReleaseChair, AcceptPayment, Post,
                SemaphoresOK, Names, cutVars
  <2> QED
    BY <1>1, <1>3, <1>4, <2>2, <2>3 DEF PipeInv
<1> QED
  BY <1>5, <1>6, <1>7 DEF Barber

(* The counter takes a post of readywithpayment, then the oldest name,     *)
(* which need not be the name of the customer who posted.                  *)
LEMMA CashCounter ==
    ASSUME TypeOK, CashInv, cashcounter
    PROVE  CashInv'
<1> USE DEF KStep
<1>0. /\ Cardinality(At({"ready"})) \in Nat /\ Cardinality(At({"pay"})) \in Nat
      /\ Cardinality(BarbersAt({"read"})) \in Nat
      /\ sem["cust_ready"] \in Nat /\ sem["readywithpayment"] \in Nat
      /\ Len(pipe1) \in Nat /\ Len(pipe2) \in Nat
  BY CrowdsFinite DEF TypeOK, SemaphoresOK, Names, ShopOK
<1>a. PipeInv /\ PayInv
  BY DEF CashInv
<1>1. UNCHANGED <<cpc, bpc>>
  BY DEF cashcounter, AwaitPayer, ReadName, CallToCounter, Ring, Paid,
         GiveReceipt
<1>2. /\ At({"ready"})' = At({"ready"}) /\ At({"pay"})' = At({"pay"})
      /\ BarbersAt({"read"})' = BarbersAt({"read"})
  BY <1>1 DEF At, BarbersAt
<1>3. CASE AwaitPayer
  <2>1. CallsOwed' = CallsOwed /\ NamesOwed' = NamesOwed + 1
    BY <1>0, <1>2, <1>3 DEF AwaitPayer, CallsOwed, NamesOwed
  <2>2. /\ sem'["readywithpayment"] = sem["readywithpayment"] - 1
        /\ sem'["cust_ready"] = sem["cust_ready"]
        /\ UNCHANGED <<pipe1, pipe2, receipt>>
        /\ kpc' \notin Serving
    BY <1>3 DEF AwaitPayer, Wait, TypeOK, SemaphoresOK, Names, cashVars, cutVars,
                Serving
  <2>3. PipeInv'
    <3>1. Len(pipe1') = Len(pipe1) /\ Len(pipe2') = Len(pipe2)
      BY <2>2
    <3> QED
      BY <1>a, PipeBalance, <2>1, <2>2, <3>1 DEF PipeInv
  <2>4. PayInv'
    BY <1>a, <1>1, <2>2 DEF PayInv, Owed
  <2> QED
    BY <2>3, <2>4 DEF CashInv
<1>4. CASE ReadName
  <2> DEFINE n == Len(pipe2)
  <2>1. CallsOwed' = CallsOwed /\ NamesOwed' = NamesOwed - 1
    BY <1>0, <1>2, <1>4 DEF ReadName, CallsOwed, NamesOwed
  <2>2. /\ n \in Nat \ {0} /\ Len(pipe2') = n - 1
        /\ \A k \in 1 .. n - 1 : k + 1 \in 1 .. n /\ pipe2'[k] = pipe2[k + 1]
        /\ payer' = pipe2[1]
    BY <1>4 DEF ReadName, TypeOK, ShopOK
  <2>3. UNCHANGED <<pipe1, sem, receipt>>
    BY <1>4 DEF ReadName, cutVars
  <2>4. PipeInv'
    <3>1. Len(pipe1') = Len(pipe1) /\ Len(pipe2') = Len(pipe2) - 1
      BY <2>2, <2>3
    <3> HIDE DEF n
    <3> QED
      BY <1>a, PipeBalance, <2>1, <2>3, <3>1 DEF PipeInv
  <2>5. \A k \in 1 .. n - 1 : Owed(pipe2[k + 1]) /\ pipe2'[k] # payer'
    BY <1>a, <2>2 DEF PayInv
  <2>6. Owed(payer')
    BY <1>a, <2>2 DEF PayInv
  <2>7. \A k, l \in 1 .. n - 1 : pipe2'[k] = pipe2'[l] => k = l
    BY <1>a, <2>2 DEF PayInv
  <2> HIDE DEF n
  <2>8. PayInv'
    BY <1>a, <1>1, <2>2, <2>3, <2>5, <2>6, <2>7 DEF PayInv, Owed
  <2> QED
    BY <2>4, <2>8 DEF CashInv
<1>5. CASE CallToCounter
  <2>1. CallsOwed' = CallsOwed + 1 /\ NamesOwed' = NamesOwed
    BY <1>0, <1>2, <1>5 DEF CallToCounter, CallsOwed, NamesOwed
  <2>2. Len(pipe1') = Len(pipe1) + 1
    BY <1>5 DEF CallToCounter, TypeOK, ShopOK
  <2>3. UNCHANGED <<sem, pipe2, receipt, payer>> /\ kpc \in Serving
    BY <1>5 DEF CallToCounter, cashVars, Serving
  <2>4. PipeInv'
    <3>1. sem' = sem /\ Len(pipe2') = Len(pipe2)
      BY <2>3
    <3> QED
      BY <1>a, PipeBalance, <2>1, <2>2, <3>1 DEF PipeInv
  <2>5. PayInv'
    BY <1>a, <1>1, <2>3 DEF PayInv, Owed
  <2> QED
    BY <2>4, <2>5 DEF CashInv
<1>6. CASE Ring
  <2>1. CallsOwed' = CallsOwed - 1 /\ NamesOwed' = NamesOwed
    BY <1>0, <1>2, <1>6 DEF Ring, CallsOwed, NamesOwed
  <2>2. /\ sem'["cust_ready"] = sem["cust_ready"] + 1
        /\ sem'["readywithpayment"] = sem["readywithpayment"]
    BY <1>6 DEF Ring, Post, TypeOK, SemaphoresOK, Names
  <2>3. UNCHANGED <<pipe1, pipe2, receipt, payer>> /\ kpc \in Serving
    BY <1>6 DEF Ring, cashVars, cutVars, Serving
  <2>4. PipeInv'
    <3>1. Len(pipe1') = Len(pipe1) /\ Len(pipe2') = Len(pipe2)
      BY <2>3
    <3> QED
      BY <1>a, PipeBalance, <2>1, <2>2, <3>1 DEF PipeInv
  <2>5. PayInv'
    BY <1>a, <1>1, <2>3 DEF PayInv, Owed
  <2> QED
    BY <2>4, <2>5 DEF CashInv
<1>8. CASE Paid
  <2>1. CallsOwed' = CallsOwed /\ NamesOwed' = NamesOwed
    BY <1>2, <1>8 DEF Paid, CallsOwed, NamesOwed
  <2>2. /\ sem'["cust_ready"] = sem["cust_ready"]
        /\ sem'["readywithpayment"] = sem["readywithpayment"]
    BY <1>8 DEF Paid, Wait, TypeOK, SemaphoresOK, Names
  <2>3. UNCHANGED <<pipe1, pipe2, receipt, payer>> /\ kpc \in Serving
    BY <1>8 DEF Paid, cashVars, cutVars, Serving
  <2>4. PipeInv'
    BY <1>a, <2>1, <2>2, <2>3 DEF PipeInv
  <2>5. PayInv'
    BY <1>a, <1>1, <2>3 DEF PayInv, Owed
  <2> QED
    BY <2>4, <2>5 DEF CashInv
<1>7. CASE GiveReceipt
  <2>1. CallsOwed' = CallsOwed /\ NamesOwed' = NamesOwed
    BY <1>2, <1>7 DEF GiveReceipt, CallsOwed, NamesOwed
  <2>2. /\ UNCHANGED <<pipe1, pipe2, sem>> /\ kpc \in Serving
        /\ kpc' \notin Serving /\ payer \in Customers
    BY <1>7 DEF GiveReceipt, cutVars, Serving, TypeOK, ShopOK
  <2>3. PipeInv'
    BY <1>a, <2>1, <2>2 DEF PipeInv
  <2>4. /\ Owed(payer) /\ receipt' = [receipt EXCEPT ![payer] = 1]
        /\ \A k \in 1 .. Len(pipe2) : pipe2[k] # payer
    <3>1. Owed(payer) /\ \A k \in 1 .. Len(pipe2) : pipe2[k] # payer
      BY <1>a, <2>2 DEF PayInv
    <3>2. receipt[payer] = 0
      BY <3>1 DEF Owed
    <3> QED
      BY <1>7, <3>1, <3>2 DEF GiveReceipt
  <2>5. \A d \in Customers : receipt'[d] # 0 =>
           receipt'[d] = 1 /\ cpc'[d] \in Paying
    BY <1>a, <1>1, <2>2, <2>4 DEF PayInv, Owed, TypeOK, SemaphoresOK
  <2>6. \A k \in 1 .. Len(pipe2) :
           cpc'[pipe2[k]] \in Paying /\ receipt'[pipe2[k]] = 0
    <3> SUFFICES ASSUME NEW k \in 1 .. Len(pipe2)
                 PROVE  cpc'[pipe2[k]] \in Paying /\ receipt'[pipe2[k]] = 0
      OBVIOUS
    <3>1. Owed(pipe2[k]) /\ pipe2[k] # payer /\ pipe2[k] \in Customers
      BY <1>a, <2>4 DEF PayInv, TypeOK, ShopOK
    <3> QED
      BY <1>1, <2>2, <2>4, <3>1 DEF Owed, TypeOK, SemaphoresOK
  <2>7. PayInv'
    BY <1>a, <2>2, <2>5, <2>6 DEF PayInv, Owed
  <2> QED
    BY <2>3, <2>7 DEF CashInv
<1> QED
  BY <1>3, <1>4, <1>5, <1>6, <1>7, <1>8 DEF cashcounter

LEMMA CashInductive == TypeOK /\ CashInv /\ [Next]_vars => CashInv'
<1> SUFFICES ASSUME TypeOK, CashInv, [Next]_vars
             PROVE  CashInv'
  OBVIOUS
<1>1. CASE UNCHANGED vars
  BY <1>1 DEF vars, CashInv, PipeInv, CallsOwed, NamesOwed, PayInv, Owed, At,
              BarbersAt
<1> QED
  BY <1>1, CashCustomer, CashBarber, CashCounter DEF Next, Exited

(* Nobody ever blocks in read() while he holds mutex3 or mutex4 (lines     *)
(* 193-200, 234-240).                                                      *)
THEOREM ReadsNeverBlockAlways == Spec => []ReadsNeverBlock
<1>1. TypeOK /\ CashInv => ReadsNeverBlock
  <2> SUFFICES ASSUME TypeOK, PipeInv PROVE ReadsNeverBlock
    BY DEF CashInv
  <2>1. /\ Cardinality(At({"ready"})) \in Nat
        /\ Cardinality(At({"pay"})) \in Nat
        /\ Cardinality(BarbersAt({"read"})) \in Nat
    BY CrowdsFinite
  <2>2. sem["cust_ready"] \in Nat /\ sem["readywithpayment"] \in Nat
    BY DEF TypeOK, SemaphoresOK, Names
  <2>3. /\ Cardinality(BarbersAt({"read"})) <= CallsOwed
        /\ (IF kpc = "name" THEN 1 ELSE 0) <= NamesOwed
        /\ CallsOwed \in Nat /\ NamesOwed \in Nat
    BY <2>1 DEF CallsOwed, NamesOwed
  <2> QED
    BY <2>1, <2>2, <2>3 DEF PipeInv, ReadsNeverBlock
<1> QED
  BY <1>1, CashInit, CashInductive, TypeCorrect, PTL DEF Spec

(* The counter serves a customer who waits for his receipt and has none,   *)
(* although the post it took may have been another customer's (lines       *)
(* 234-259).                                                               *)
THEOREM ReceiptForPayerAlways == Spec => []ReceiptForPayer
<1>1. CashInv => ReceiptForPayer
  BY DEF CashInv, PayInv, Serving, Paying, Owed, ReceiptForPayer
<1> QED
  BY <1>1, CashInit, CashInductive, TypeCorrect, PTL DEF Spec

-----------------------------------------------------------------------------
(* The threads implement ShopService.  Its bounds on the shop need what    *)
(* becomes of the tickets of max_capacity; its end, that a customer who    *)
(* has posted done[] is on his way out.  The bound on the chairs follows   *)
(* from SeatInv, and the exit of line 118 is excluded by ChairForTicket.   *)
InShop == Customers \ At({"enter", "await", "gone"})
CapacityInv == sem["max_capacity"] + Cardinality(InShop) = maxcapacity
DoneInv ==
    \A c \in Customers : done[c] > 0 => cpc[c] \in {"door", "await", "gone"}
DoorInv == CapacityInv /\ DoneInv

LEMMA InShopFinite == IsFiniteSet(InShop) /\ Cardinality(InShop) \in Nat
<1>1. IsFiniteSet(Customers) /\ InShop \subseteq Customers
  BY ShopAssumption, FS_Interval DEF InShop, Customers
<1> QED
  BY <1>1, FS_Subset, FS_CardinalityType

LEMMA DoorInit == Init => DoorInv
<1> SUFFICES ASSUME Init PROVE DoorInv
  OBVIOUS
<1>1. InShop = {}
  BY DEF Init, InShop, At
<1>2. Cardinality(InShop) = 0 /\ sem["max_capacity"] = maxcapacity
  BY <1>1, FS_EmptySet DEF Init
<1> QED
  BY <1>2, ShopAssumption DEF Init, DoorInv, CapacityInv, DoneInv

(* Away from the door, a customer stays in the shop.                       *)
Indoors(c) ==
    /\ done' = done
    /\ sem'["max_capacity"] = sem["max_capacity"]
    /\ cpc' = [cpc EXCEPT ![c] = cpc'[c]]
    /\ cpc[c] \notin {"enter", "door", "await", "gone"}
    /\ cpc'[c] \notin {"enter", "await", "gone"}

LEMMA IndoorsKeeps ==
    ASSUME TypeOK, DoorInv, NEW c \in Customers, Indoors(c)
    PROVE  DoorInv'
<1>1. InShop' = InShop
  BY DEF Indoors, InShop, At, TypeOK, LabelsOK
<1>2. CapacityInv'
  BY <1>1 DEF Indoors, DoorInv, CapacityInv
<1>3. DoneInv'
  BY DEF Indoors, DoorInv, DoneInv, TypeOK, LabelsOK
<1> QED
  BY <1>2, <1>3 DEF DoorInv

LEMMA MostAreIndoors ==
    ASSUME TypeOK, NEW c \in Customers, Customer(c),
           ~Enter(c), ~PostDone(c), ~LeaveShop(c), ~ExitProgram(c)
    PROVE  Indoors(c)
<1> USE DEF Indoors, TypeOK, LabelsOK, SemaphoresOK, CStep, OnlySem, cashVars,
            Names
<1>1. CASE LockToLook(c)
  BY <1>1 DEF LockToLook, Wait
<1>2. CASE Decide(c)
  BY <1>2 DEF Decide, Post
<1>3. CASE ReserveFilmfare(c)
  BY <1>3 DEF ReserveFilmfare
<1>4. CASE TakeFilmfare(c)
  BY <1>4 DEF TakeFilmfare, Wait
<1>5. CASE TicketWhileReading(c)
  BY <1>5 DEF TicketWhileReading, Wait
<1>6. CASE UnreserveFilmfare(c)
  BY <1>6 DEF UnreserveFilmfare
<1>7. CASE PutBackFilmfare(c)
  BY <1>7 DEF PutBackFilmfare, Post
<1>8. CASE Ticket(c)
  BY <1>8 DEF Ticket, Wait
<1>9. CASE LockToSelect(c)
  BY <1>9 DEF LockToSelect, Wait
<1>10. CASE ScanChairs(c)
  BY <1>10 DEF ScanChairs
<1>11. CASE Occupy(c)
  BY <1>11 DEF Occupy, Post
<1>12. CASE CallBarber(c)
  BY <1>12 DEF CallBarber
<1>13. CASE Ready(c)
  BY <1>13 DEF Ready, Post
<1>14. CASE HaircutDone(c)
  BY <1>14 DEF HaircutDone
<1>15. CASE LockToRise(c)
  BY <1>15 DEF LockToRise, Wait
<1>16. CASE LeaveChair(c)
  BY <1>16 DEF LeaveChair, Post
<1>17. CASE QueueToPay(c)
  BY <1>17 DEF QueueToPay
<1>18. CASE Pay(c)
  BY <1>18 DEF Pay, Post
<1>19. CASE TakeReceipt(c)
  BY <1>19 DEF TakeReceipt
<1> HIDE DEF Indoors, TypeOK, LabelsOK, SemaphoresOK, CStep, OnlySem, cashVars,
             Names
<1> QED
  BY <1>1, <1>2, <1>3, <1>4, <1>5, <1>6, <1>7, <1>8, <1>9, <1>10,
     <1>11, <1>12, <1>13, <1>14, <1>15, <1>16, <1>17, <1>18, <1>19
  DEF Customer

LEMMA DoorInductive == TypeOK /\ DoorInv /\ [Next]_vars => DoorInv'
<1> SUFFICES ASSUME TypeOK, DoorInv, [Next]_vars
             PROVE  DoorInv'
  OBVIOUS
<1>1. CASE UNCHANGED <<cpc, done>> /\ sem'["max_capacity"] = sem["max_capacity"]
  BY <1>1 DEF DoorInv, CapacityInv, DoneInv, InShop, At
<1>2. CASE (\E b \in Barbers : Barber(b)) \/ cashcounter \/ UNCHANGED vars
  <2>1. UNCHANGED <<cpc, done>> /\ sem'["max_capacity"] = sem["max_capacity"]
    BY <1>2 DEF Barber, cashcounter, Sleep, ReadCall, CutHair, SeeLeave,
        ReleaseChair, AcceptPayment, AwaitPayer, ReadName, CallToCounter, Ring,
        Paid, GiveReceipt, Wait, Post, TypeOK, SemaphoresOK, Names, cashVars,
        vars
  <2> QED
    BY <2>1, <1>1
<1>3. ASSUME NEW c \in Customers, Customer(c) PROVE DoorInv'
  <2> USE DEF TypeOK, LabelsOK, CStep
  <2>1. CASE Enter(c)
    <3>1. InShop' = InShop \cup {c} /\ c \notin InShop
      BY <2>1 DEF Enter, InShop, At
    <3>2. Cardinality(InShop') = Cardinality(InShop) + 1
      BY <3>1, InShopFinite, OneMore
    <3>3. /\ sem["max_capacity"] \in Nat
          /\ sem'["max_capacity"] = sem["max_capacity"] - 1
      BY <2>1 DEF Enter, Wait, SemaphoresOK, Names
    <3>4. CapacityInv'
      BY <3>2, <3>3, InShopFinite DEF DoorInv, CapacityInv
    <3>5. DoneInv'
      BY <2>1 DEF Enter, OnlySem, cashVars, DoorInv, DoneInv
    <3> QED
      BY <3>4, <3>5 DEF DoorInv
  <2>2. CASE PostDone(c)
    <3>1. InShop' = InShop /\ sem' = sem
      BY <2>2 DEF PostDone, InShop, At
    <3>2. CapacityInv'
      BY <3>1 DEF DoorInv, CapacityInv
    <3>3. DoneInv'
      BY <2>2 DEF PostDone, DoorInv, DoneInv, SemaphoresOK
    <3> QED
      BY <3>2, <3>3 DEF DoorInv
  <2>3. CASE LeaveShop(c)
    <3>1. InShop' = InShop \ {c} /\ c \in InShop
      BY <2>3 DEF LeaveShop, InShop, At
    <3>2. Cardinality(InShop') = Cardinality(InShop) - 1
      BY <3>1, InShopFinite, OneLess
    <3>3. /\ sem["max_capacity"] \in Nat
          /\ sem'["max_capacity"] = sem["max_capacity"] + 1
      BY <2>3 DEF LeaveShop, Post, SemaphoresOK, Names
    <3>4. CapacityInv'
      BY <3>2, <3>3, InShopFinite DEF DoorInv, CapacityInv
    <3>5. DoneInv'
      BY <2>3 DEF LeaveShop, OnlySem, cashVars, DoorInv, DoneInv
    <3> QED
      BY <3>4, <3>5 DEF DoorInv
  <2>4. CASE ExitProgram(c)
    <3>1. InShop' = InShop /\ sem' = sem
      BY <2>4 DEF ExitProgram, InShop, At
    <3>2. CapacityInv'
      BY <3>1 DEF DoorInv, CapacityInv
    <3>3. DoneInv'
      BY <2>4 DEF ExitProgram, DoorInv, DoneInv, SemaphoresOK
    <3> QED
      BY <3>2, <3>3 DEF DoorInv
  <2> QED
    BY <1>3, <2>1, <2>2, <2>3, <2>4, MostAreIndoors, IndoorsKeeps
<1> QED
  BY <1>2, <1>3 DEF Next, Exited

Phase == [c \in Customers |-> PhaseOf(c)]

LEMMA SameClients == Service!Clients = Customers
BY DEF Service!Clients, Customers

LEMMA SameCount ==
    ASSUME NEW S PROVE Service!Cardinality(S) = Cardinality(S)
BY Zenon DEF Service!Cardinality, Cardinality

(* A customer's move is his own move in the service, or none.              *)
LEMMA PhaseMoves ==
    ASSUME TypeOK, NEW c \in Customers, NEW to, cpc' = [cpc EXCEPT ![c] = to]
    PROVE  Phase' = [Phase EXCEPT ![c] = PhaseOf(c)']
<1>1. \A d \in Customers : d # c => PhaseOf(d)' = PhaseOf(d)
  BY DEF PhaseOf, TypeOK, LabelsOK
<1> QED
  BY <1>1 DEF Phase

LEMMA QuietStep ==
    ASSUME TypeOK, NEW c \in Customers, NEW to, cpc' = [cpc EXCEPT ![c] = to],
           PhaseOf(c)' = PhaseOf(c), program' = program
    PROVE  UNCHANGED Service!serviceVars
<1>1. Phase' = Phase
  BY PhaseMoves DEF Phase
<1> QED
  BY <1>1 DEF Phase, Service!serviceVars

LEMMA MoveStep ==
    ASSUME TypeOK, NEW c \in Customers, NEW to, cpc' = [cpc EXCEPT ![c] = to],
           program = "running", program' = program
    PROVE  Service!Step(c, PhaseOf(c), PhaseOf(c)')
BY PhaseMoves DEF Phase, Service!Step

(* The customers between whom the service does not tell.                   *)
LEMMA MostAreQuiet ==
    ASSUME TypeOK, ChairForTicket, NEW c \in Customers, Customer(c),
           ~Enter(c), ~Occupy(c), ~HaircutDone(c), ~LeaveChair(c),
           ~TakeReceipt(c), ~LeaveShop(c), ~ExitProgram(c)
    PROVE  UNCHANGED Service!serviceVars
<1> DEFINE Quiet == /\ cpc' = [cpc EXCEPT ![c] = cpc'[c]]
                    /\ PhaseOf(c)' = PhaseOf(c)
                    /\ program' = program
<1>0. SUFFICES Quiet
  BY QuietStep
<1> USE DEF TypeOK, LabelsOK, CStep, OnlySem, PhaseOf
<1>1. CASE LockToLook(c)
  BY <1>1 DEF LockToLook
<1>2. CASE Decide(c)
  BY <1>2 DEF Decide
<1>3. CASE ReserveFilmfare(c)
  BY <1>3 DEF ReserveFilmfare
<1>4. CASE TakeFilmfare(c)
  BY <1>4 DEF TakeFilmfare
<1>5. CASE TicketWhileReading(c)
  BY <1>5 DEF TicketWhileReading
<1>6. CASE UnreserveFilmfare(c)
  BY <1>6 DEF UnreserveFilmfare
<1>7. CASE PutBackFilmfare(c)
  BY <1>7 DEF PutBackFilmfare
<1>8. CASE Ticket(c)
  BY <1>8 DEF Ticket
<1>9. CASE LockToSelect(c)
  BY <1>9 DEF LockToSelect
<1>10. CASE ScanChairs(c)
  <2>1. ~ChairsTaken
    BY <1>10 DEF ScanChairs, ChairForTicket, At
  <2> QED
    BY <1>10, <2>1 DEF ScanChairs
<1>11. CASE CallBarber(c)
  BY <1>11 DEF CallBarber
<1>12. CASE Ready(c)
  BY <1>12 DEF Ready
<1>13. CASE LockToRise(c)
  BY <1>13 DEF LockToRise
<1>14. CASE QueueToPay(c)
  BY <1>14 DEF QueueToPay
<1>15. CASE Pay(c)
  BY <1>15 DEF Pay
<1>16. CASE PostDone(c)
  BY <1>16 DEF PostDone
<1> HIDE DEF TypeOK, LabelsOK, CStep, OnlySem, PhaseOf, Quiet
<1> QED
  BY <1>1, <1>2, <1>3, <1>4, <1>5, <1>6, <1>7, <1>8, <1>9, <1>10, <1>11,
     <1>12, <1>13, <1>14, <1>15, <1>16
  DEF Customer

(* Nobody is admitted to a full shop, and nobody sits down when all chairs *)
(* are taken: those who sit have a chair each, and it is not the one the   *)
(* newcomer has selected.                                                  *)
LEMMA RoomInside ==
    ASSUME TypeOK, DoorInv, sem["max_capacity"] > 0
    PROVE  Cardinality(Service!Inside) < maxcapacity
<1>1. Service!Inside = InShop
  BY SameClients DEF Service!Inside, Service!InPhase, InShop, At, PhaseOf,
                     TypeOK, LabelsOK, CustomerLabels
<1> QED
  BY <1>1, InShopFinite DEF DoorInv, CapacityInv, TypeOK, SemaphoresOK, Names

LEMMA RoomToSit ==
    ASSUME TypeOK, LapInv, NEW c \in Customers, cpc[c] = "occupy"
    PROVE  Cardinality(Service!InChair) < totalchairs
<1> DEFINE S == At(Sitting)
           F == Chairs \ {seat[c]}
           place == [d \in S |-> seat[d]]
<1>1. Service!InChair = S
  BY SameClients DEF Service!InChair, Service!InPhase, At, Sitting, PhaseOf,
                     TypeOK, LabelsOK, CustomerLabels
<1>2. seat[c] \in Chairs /\ chair[seat[c]] = -1
  BY DEF TypeOK, ShopOK, LapInv, SeatInv
<1>3. \A d \in S : seat[d] \in F /\ chair[seat[d]] = d
  BY <1>2 DEF At, LapInv, SeatInv, TypeOK, ShopOK, Customers
<1>4. place \in Injection(S, F)
  BY <1>3 DEF Injection, IsInjective
<1>5. IsFiniteSet(F) /\ Cardinality(F) = totalchairs - 1
  BY <1>2, ChairsFinite, FS_RemoveElement
<1>6. IsFiniteSet(S) /\ Cardinality(S) \in Nat
  BY CrowdsFinite
<1>7. Cardinality(S) <= Cardinality(F)
  BY <1>4, <1>5, FS_Injection DEF ExistsInjection
<1> HIDE DEF S, F
<1> QED
  BY <1>1, <1>5, <1>6, <1>7, ShopAssumption

(* The other steps of a customer are steps of the service.                 *)
LEMMA ServiceCustomer ==
    ASSUME TypeOK, LapInv, DoorInv, ChairForTicket, program = "running",
           NEW c \in Customers, Customer(c)
    PROVE  [Service!Next]_(Service!serviceVars)
<1> USE DEF Service!Next
<1>0. c \in Service!Clients
  BY SameClients
<1>1. CASE Enter(c)
  <2>1. /\ PhaseOf(c) = "outside" /\ PhaseOf(c)' = "waiting"
        /\ program' = program /\ cpc' = [cpc EXCEPT ![c] = "look"]
    BY <1>1 DEF Enter, CStep, OnlySem, PhaseOf, TypeOK, LabelsOK
  <2>2. Service!Step(c, "outside", "waiting")
    BY <2>1, MoveStep
  <2>3. Cardinality(Service!Inside) < maxcapacity
    BY <1>1, RoomInside DEF Enter, Wait
  <2>4. Service!Admit(c)
    BY <2>2, <2>3, SameCount DEF Service!Admit
  <2> QED
    BY <1>0, <2>4
<1>2. CASE Occupy(c)
  <2>1. /\ PhaseOf(c) = "waiting" /\ PhaseOf(c)' = "seated"
        /\ program' = program /\ cpc' = [cpc EXCEPT ![c] = "callbarber"]
    BY <1>2 DEF Occupy, CStep, PhaseOf, TypeOK, LabelsOK
  <2>2. Service!Step(c, "waiting", "seated")
    BY <2>1, MoveStep
  <2>3. Cardinality(Service!InChair) < totalchairs
    BY <1>2, RoomToSit DEF Occupy, CStep
  <2>4. Service!Sit(c)
    BY <2>2, <2>3, SameCount DEF Service!Sit
  <2> QED
    BY <1>0, <2>4
<1>3. CASE HaircutDone(c)
  <2>1. /\ PhaseOf(c) = "seated" /\ PhaseOf(c)' = "shorn"
        /\ program' = program /\ cpc' = [cpc EXCEPT ![c] = "rise"]
    BY <1>3 DEF HaircutDone, CStep, PhaseOf, TypeOK, LabelsOK
  <2>2. Service!Step(c, "seated", "shorn")
    BY <2>1, MoveStep
  <2> QED
    BY <1>0, <2>2 DEF Service!Cut
<1>4. CASE LeaveChair(c)
  <2>1. /\ PhaseOf(c) = "shorn" /\ PhaseOf(c)' = "risen"
        /\ program' = program /\ cpc' = [cpc EXCEPT ![c] = "queue"]
    BY <1>4 DEF LeaveChair, CStep, PhaseOf, TypeOK, LabelsOK
  <2>2. Service!Step(c, "shorn", "risen")
    BY <2>1, MoveStep
  <2> QED
    BY <1>0, <2>2 DEF Service!Rise
<1>5. CASE TakeReceipt(c)
  <2>1. /\ PhaseOf(c) = "risen" /\ PhaseOf(c)' = "paid"
        /\ program' = program /\ cpc' = [cpc EXCEPT ![c] = "done"]
    BY <1>5 DEF TakeReceipt, CStep, PhaseOf, TypeOK, LabelsOK
  <2>2. Service!Step(c, "risen", "paid")
    BY <2>1, MoveStep
  <2> QED
    BY <1>0, <2>2 DEF Service!TakeMoney
<1>6. CASE LeaveShop(c)
  <2>1. /\ PhaseOf(c) = "paid" /\ PhaseOf(c)' = "gone"
        /\ program' = program /\ cpc' = [cpc EXCEPT ![c] = cpc'[c]]
    BY <1>6 DEF LeaveShop, CStep, OnlySem, PhaseOf, TypeOK, LabelsOK
  <2>2. Service!Step(c, "paid", "gone")
    BY <2>1, MoveStep
  <2> QED
    BY <1>0, <2>2 DEF Service!Leave
<1>7. CASE ExitProgram(c)
  <2>1. \A d \in Customers : PhaseOf(d) \in {"paid", "gone"}
    BY <1>7 DEF ExitProgram, DoorInv, DoneInv, PhaseOf, TypeOK, SemaphoresOK
  <2>2. PhaseOf(c)' = PhaseOf(c) /\ cpc' = [cpc EXCEPT ![c] = "gone"]
    BY <1>7 DEF ExitProgram, CStep, PhaseOf, TypeOK, LabelsOK
  <2>3. Phase' = Phase
    BY <2>2, PhaseMoves DEF Phase
  <2>4. Service!InPhase({"paid", "gone"}) = Service!Clients
    BY <2>1, SameClients DEF Service!InPhase
  <2> QED
    BY <1>7, <2>3, <2>4 DEF ExitProgram, Service!Close, Phase
<1> QED
  BY <1>1, <1>2, <1>3, <1>4, <1>5, <1>6, <1>7, MostAreQuiet

LEMMA ServiceStep ==
    ASSUME TypeOK, LapInv, DoorInv, ChairForTicket, [Next]_vars
    PROVE  [Service!Next]_(Service!serviceVars)
<1>1. CASE program = "running" /\ \E c \in Customers : Customer(c)
  BY <1>1, ServiceCustomer
<1>2. CASE (\E b \in Barbers : Barber(b)) \/ cashcounter \/ UNCHANGED vars
  <2>1. UNCHANGED <<cpc, program>>
    BY <1>2 DEF Barber, cashcounter, Sleep, ReadCall, CutHair, SeeLeave,
        ReleaseChair, AcceptPayment, AwaitPayer, ReadName, CallToCounter, Ring,
        Paid, GiveReceipt, vars
  <2> QED
    BY <2>1 DEF Service!serviceVars, PhaseOf
<1> QED
  BY <1>1, <1>2 DEF Next, Exited

LEMMA ServiceInit == Init => Service!Init
BY SameClients DEF Init, Service!Init, PhaseOf

(* Whatever the threads do, the shop keeps the promises of ShopService: no *)
(* more than maxcapacity inside nor totalchairs in chairs, every customer  *)
(* through the same stations in order, and exit(0) only when all have      *)
(* their receipts (the whole of barber.c).  That the service goes on is    *)
(* liveness, which only the run checks.                                    *)
THEOREM KeepsPromise == Spec => Service!Promise
<1>1. Spec => [](TypeOK /\ LapInv /\ DoorInv /\ ChairForTicket)
  BY TypeCorrect, LapInit, LapInductive, DoorInit, DoorInductive,
     ChairForEveryTicket, PTL DEF Spec
<1>2. Spec => [][Service!Next]_(Service!serviceVars)
  BY <1>1, ServiceStep, PTL DEF Spec
<1> QED
  BY <1>2, ServiceInit, PTL DEF Spec, Service!Promise
================================================================================
