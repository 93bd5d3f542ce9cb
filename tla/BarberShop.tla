------------------------------ MODULE BarberShop ------------------------------
(***************************************************************************)
(* The barbershop of OS-master/barber.c: customers, barbers and the cash   *)
(* counter are threads of one process that meet only through POSIX         *)
(* semaphores, two pipes and a few globals guarded by semaphores.          *)
(*                                                                         *)
(* One action is the code from one semaphore operation up to the next one  *)
(* another thread can notice.  A read or write of a pipe, with its mutex3  *)
(* or mutex4, is one step (nothing blocks inside; ReadsNeverBlock checks   *)
(* that the reads do not block either), and so is                          *)
(* a section guarded by mutexfilmfare.  mutex2 is kept explicit, because   *)
(* the scan for a chair and its occupation are separate statements.        *)
(***************************************************************************)
EXTENDS Integers, Sequences, FiniteSets

CONSTANTS totalcustomers, totalbarbers, maxcapacity, totalchairs,
          totalfilmfares

ASSUME ShopAssumption ==
    /\ totalcustomers \in Nat \ {0}
    /\ totalbarbers   \in Nat \ {0}
    /\ maxcapacity    \in Nat \ {0}
    /\ totalchairs    \in Nat \ {0}
    /\ totalfilmfares \in Nat

VARIABLES
    cpc, bpc, kpc,        \* where each customer, each barber, the counter is
    sem,                  \* the counting semaphores, by their C name
    finished, receipt, done,         \* per-customer semaphores
    leave_bchair,                    \* per-chair semaphore
    chair, freechairs, freefilmfares,
    pipe1,                \* calls to the barbers: <<customer or -1, chair>>
    pipe2,                \* customers queueing at the cash counter
    seat,                 \* each customer's local variable i
    call,                 \* each barber's <<myCustomer, myChair>>
    payer,                \* the counter's local variable Customer
    program               \* "running" until a thread calls exit(0)

vars == <<cpc, bpc, kpc, sem, finished, receipt, done, leave_bchair, chair,
          freechairs, freefilmfares, pipe1, pipe2, seat, call, payer, program>>

Customers == 0 .. totalcustomers - 1
Barbers   == 1 .. totalbarbers
Chairs    == 0 .. totalchairs - 1
Counter   == -1           \* MyId of the cash counter, and an empty chair
Last      == totalcustomers - 1
Calls     == (Customers \cup {Counter}) \X Chairs

Names == {"max_capacity", "mutex2", "filmfare", "barberchair", "cust_ready",
          "readywithpayment", "finishedcounter"}

Init ==
    /\ cpc = [c \in Customers |-> "enter"]
    /\ bpc = [b \in Barbers |-> "sleep"]
    /\ kpc = "idle"
    /\ sem = [max_capacity |-> maxcapacity, mutex2 |-> 1,
              filmfare |-> totalfilmfares, barberchair |-> totalchairs,
              cust_ready |-> 0, readywithpayment |-> 0, finishedcounter |-> 0]
    /\ finished = [c \in Customers |-> 0]
    /\ receipt = [c \in Customers |-> 0]
    /\ done = [c \in Customers |-> 0]
    /\ leave_bchair = [i \in Chairs |-> 0]
    /\ chair = [i \in Chairs |-> -1]
    /\ freechairs = totalchairs
    /\ freefilmfares = totalfilmfares
    /\ pipe1 = <<>>
    /\ pipe2 = <<>>
    /\ seat = [c \in Customers |-> 0]
    /\ call = [b \in Barbers |-> <<Counter, 0>>]
    /\ payer = 0
    /\ program = "running"

-----------------------------------------------------------------------------
(* The steps of a thread are written [from, to, what else changes].        *)

UncheckedWait(s) == sem' = [sem EXCEPT ![s] = @ - 1]         \* faulty variant
Wait(s) == sem[s] > 0 /\ sem' = [sem EXCEPT ![s] = @ - 1]
Post(s) == sem' = [sem EXCEPT ![s] = @ + 1]

CStep(c, from, to) == cpc[c] = from /\ cpc' = [cpc EXCEPT ![c] = to]
BStep(b, from, to) == bpc[b] = from /\ bpc' = [bpc EXCEPT ![b] = to]
KStep(from, to)    == kpc = from /\ kpc' = to

staffVars == <<bpc, kpc, call, payer>>
cashVars  == <<receipt, done, pipe2>>
cutVars   == <<finished, leave_bchair, pipe1>>
seatVars  == <<chair, freechairs, seat>>

(* A customer that only waits for or posts a counting semaphore.           *)
OnlySem == UNCHANGED <<staffVars, cashVars, cutVars, seatVars, freefilmfares,
                       program>>

EnterFull(c) == CStep(c, "enter", "look") /\ UNCHANGED sem /\ OnlySem   \* faulty
Enter(c) == CStep(c, "enter", "look") /\ Wait("max_capacity") /\ OnlySem

LockToLook(c) == CStep(c, "look", "decide") /\ Wait("mutex2") /\ OnlySem

(* Straight to a barber chair, or to the reading corner when no chair is   *)
(* free or somebody is reading already.                                    *)
MustRead == freechairs = 0 \/ freefilmfares < totalfilmfares

Decide(c) ==
    /\ CStep(c, "decide", IF MustRead THEN "choose" ELSE "ticket")
    /\ Post("mutex2")
    /\ OnlySem

ReserveFilmfare(c) ==
    /\ CStep(c, "choose", "filmfare")
    /\ freefilmfares' = freefilmfares - 1
    /\ UNCHANGED <<sem, staffVars, cashVars, cutVars, seatVars, program>>

TakeFilmfare(c) ==
    CStep(c, "filmfare", "reading") /\ Wait("filmfare") /\ OnlySem

TicketWhileReading(c) ==
    CStep(c, "reading", "unreserve") /\ Wait("barberchair") /\ OnlySem

UnreserveFilmfare(c) ==
    /\ CStep(c, "unreserve", "putback")
    /\ freefilmfares' = freefilmfares + 1
    /\ UNCHANGED <<sem, staffVars, cashVars, cutVars, seatVars, program>>

PutBackFilmfare(c) == CStep(c, "putback", "select") /\ Post("filmfare") /\ OnlySem

Ticket(c) == CStep(c, "ticket", "select") /\ Wait("barberchair") /\ OnlySem

SelectUnlocked(c) ==                                         \* faulty variant
    CStep(c, "select", "scan") /\ UNCHANGED sem /\ OnlySem
LockToSelect(c) == CStep(c, "select", "scan") /\ Wait("mutex2") /\ OnlySem

(* The scan takes the first chair marked -1; without one it exits.         *)
FirstFree(i) == chair[i] = -1 /\ \A j \in Chairs : j < i => chair[j] # -1
ChairsTaken  == \A i \in Chairs : chair[i] # -1

ScanChairs(c) ==
    /\ CStep(c, "scan", IF ChairsTaken THEN "scan" ELSE "occupy")
    /\ program' = IF ChairsTaken THEN "exited" ELSE program
    /\ IF ChairsTaken
       THEN UNCHANGED seat
       ELSE \E i \in Chairs : FirstFree(i) /\ seat' = [seat EXCEPT ![c] = i]
    /\ UNCHANGED <<sem, staffVars, cashVars, cutVars, chair, freechairs,
                   freefilmfares>>

Occupy(c) ==
    /\ CStep(c, "occupy", "callbarber")
    /\ chair' = [chair EXCEPT ![seat[c]] = c]
    /\ freechairs' = freechairs - 1
    /\ Post("mutex2")
    /\ UNCHANGED <<staffVars, cashVars, cutVars, seat, freefilmfares, program>>

CallBarber(c) ==
    /\ CStep(c, "callbarber", "ready")
    /\ pipe1' = Append(pipe1, <<c, seat[c]>>)
    /\ UNCHANGED <<sem, staffVars, cashVars, finished, leave_bchair, seatVars,
                   freefilmfares, program>>

Ready(c) == CStep(c, "ready", "haircut") /\ Post("cust_ready") /\ OnlySem

RiseUncut(c) ==                                              \* faulty variant
    CStep(c, "haircut", "rise") /\ UNCHANGED sem /\ OnlySem
HaircutDone(c) ==
    /\ CStep(c, "haircut", "rise")
    /\ finished[c] > 0
    /\ finished' = [finished EXCEPT ![c] = @ - 1]
    /\ UNCHANGED <<sem, staffVars, cashVars, leave_bchair, pipe1, seatVars,
                   freefilmfares, program>>

LockToRise(c) == CStep(c, "rise", "leave") /\ Wait("mutex2") /\ OnlySem

LeaveChair(c) ==
    /\ CStep(c, "leave", "queue")
    /\ freechairs' = freechairs + 1
    /\ chair' = [chair EXCEPT ![seat[c]] = -1]
    /\ leave_bchair' = [leave_bchair EXCEPT ![seat[c]] = @ + 1]
    /\ Post("mutex2")
    /\ UNCHANGED <<staffVars, cashVars, finished, pipe1, seat, freefilmfares,
                   program>>

QueueToPay(c) ==
    /\ CStep(c, "queue", "pay")
    /\ pipe2' = Append(pipe2, c)
    /\ UNCHANGED <<sem, staffVars, receipt, done, cutVars, seatVars,
                   freefilmfares, program>>

Pay(c) == CStep(c, "pay", "receipt") /\ Post("readywithpayment") /\ OnlySem

LeaveWithoutReceipt(c) ==                                    \* faulty variant
    CStep(c, "receipt", "done") /\ UNCHANGED sem /\ OnlySem
TakeReceipt(c) ==
    /\ CStep(c, "receipt", "done")
    /\ receipt[c] > 0
    /\ receipt' = [receipt EXCEPT ![c] = @ - 1]
    /\ UNCHANGED <<sem, staffVars, done, pipe2, cutVars, seatVars,
                   freefilmfares, program>>

PostDone(c) ==
    /\ CStep(c, "done", "door")
    /\ done' = [done EXCEPT ![c] = @ + 1]
    /\ UNCHANGED <<sem, staffVars, receipt, pipe2, cutVars, seatVars,
                   freefilmfares, program>>

LeaveShop(c) ==
    /\ CStep(c, "door", IF c = Last THEN "await" ELSE "gone")
    /\ Post("max_capacity")
    /\ OnlySem

(* The last customer takes done[0], done[1], ... in turn and exits.  Each  *)
(* is posted once, so the loop ends exactly when all have been posted.     *)
ExitProgram(c) ==
    /\ CStep(c, "await", "gone")
    /\ \A k \in Customers : done[k] > 0
    /\ done' = [k \in Customers |-> done[k] - 1]
    /\ program' = "exited"
    /\ UNCHANGED <<sem, staffVars, receipt, pipe2, cutVars, seatVars,
                   freefilmfares>>

Customer(c) ==
    \/ Enter(c) \/ LockToLook(c) \/ Decide(c)
    \/ ReserveFilmfare(c) \/ TakeFilmfare(c) \/ TicketWhileReading(c)
    \/ UnreserveFilmfare(c) \/ PutBackFilmfare(c) \/ Ticket(c)
    \/ LockToSelect(c) \/ ScanChairs(c) \/ Occupy(c)
    \/ CallBarber(c) \/ Ready(c) \/ HaircutDone(c) \/ LockToRise(c)
    \/ LeaveChair(c) \/ QueueToPay(c) \/ Pay(c) \/ TakeReceipt(c)
    \/ PostDone(c) \/ LeaveShop(c) \/ ExitProgram(c)

-----------------------------------------------------------------------------
Busy(b) ==                                                   \* faulty variant
    /\ BStep(b, "sleep", "read")
    /\ UNCHANGED <<cpc, kpc, call, payer, sem, cashVars, cutVars, seatVars,
                   freefilmfares, program>>
Sleep(b) ==
    /\ BStep(b, "sleep", "read")
    /\ Wait("cust_ready")
    /\ UNCHANGED <<cpc, kpc, call, payer, cashVars, cutVars, seatVars,
                   freefilmfares, program>>

ReadCall(b) ==
    /\ pipe1 # <<>>
    /\ BStep(b, "read", IF Head(pipe1)[1] = Counter THEN "accept" ELSE "cut")
    /\ call' = [call EXCEPT ![b] = Head(pipe1)]
    /\ pipe1' = Tail(pipe1)
    /\ UNCHANGED <<cpc, kpc, payer, sem, cashVars, finished, leave_bchair,
                   seatVars, freefilmfares, program>>

CutAndRelease(b) ==                                          \* faulty variant
    /\ BStep(b, "cut", "release")
    /\ finished' = [finished EXCEPT ![call[b][1]] = @ + 1]
    /\ UNCHANGED <<cpc, kpc, call, payer, sem, cashVars, leave_bchair, pipe1,
                   seatVars, freefilmfares, program>>
CutHair(b) ==
    /\ BStep(b, "cut", "stand")
    /\ finished' = [finished EXCEPT ![call[b][1]] = @ + 1]
    /\ UNCHANGED <<cpc, kpc, call, payer, sem, cashVars, leave_bchair, pipe1,
                   seatVars, freefilmfares, program>>

SeeLeave(b) ==
    /\ BStep(b, "stand", "release")
    /\ leave_bchair[call[b][2]] > 0
    /\ leave_bchair' = [leave_bchair EXCEPT ![call[b][2]] = @ - 1]
    /\ UNCHANGED <<cpc, kpc, call, payer, sem, cashVars, finished, pipe1,
                   seatVars, freefilmfares, program>>

KeepChair(b) ==                                              \* faulty variant
    /\ BStep(b, "release", "sleep")
    /\ UNCHANGED <<cpc, kpc, call, payer, sem, cashVars, cutVars, seatVars,
                   freefilmfares, program>>
ReleaseChair(b) ==
    /\ BStep(b, "release", "sleep")
    /\ Post("barberchair")
    /\ UNCHANGED <<cpc, kpc, call, payer, cashVars, cutVars, seatVars,
                   freefilmfares, program>>

AcceptPayment(b) ==
    /\ BStep(b, "accept", "sleep")
    /\ Post("finishedcounter")
    /\ UNCHANGED <<cpc, kpc, call, payer, cashVars, cutVars, seatVars,
                   freefilmfares, program>>

Barber(b) ==
    \/ Sleep(b) \/ ReadCall(b) \/ CutHair(b) \/ SeeLeave(b)
    \/ ReleaseChair(b) \/ AcceptPayment(b)

-----------------------------------------------------------------------------
AwaitPayer ==
    /\ KStep("idle", "name")
    /\ Wait("readywithpayment")
    /\ UNCHANGED <<cpc, bpc, call, payer, cashVars, cutVars, seatVars,
                   freefilmfares, program>>

ReadName ==
    /\ pipe2 # <<>>
    /\ KStep("name", "call")
    /\ payer' = Head(pipe2)
    /\ pipe2' = Tail(pipe2)
    /\ UNCHANGED <<cpc, bpc, call, sem, receipt, done, cutVars, seatVars,
                   freefilmfares, program>>

CallToCounter ==
    /\ KStep("call", "ring")
    /\ pipe1' = Append(pipe1, <<Counter, 0>>)
    /\ UNCHANGED <<cpc, bpc, call, payer, sem, cashVars, finished,
                   leave_bchair, seatVars, freefilmfares, program>>

Ring ==
    /\ KStep("ring", "paying")
    /\ Post("cust_ready")
    /\ UNCHANGED <<cpc, bpc, call, payer, cashVars, cutVars, seatVars,
                   freefilmfares, program>>

Paid ==
    /\ KStep("paying", "give")
    /\ Wait("finishedcounter")
    /\ UNCHANGED <<cpc, bpc, call, payer, cashVars, cutVars, seatVars,
                   freefilmfares, program>>

GiveReceipt ==
    /\ KStep("give", "idle")
    /\ receipt' = [receipt EXCEPT ![payer] = @ + 1]
    /\ UNCHANGED <<cpc, bpc, call, payer, sem, done, pipe2, cutVars, seatVars,
                   freefilmfares, program>>

cashcounter ==
    AwaitPayer \/ ReadName \/ CallToCounter \/ Ring \/ Paid \/ GiveReceipt

-----------------------------------------------------------------------------
(* exit(0) ends every thread; the stuttering step keeps the end of the     *)
(* program apart from a deadlock.                                          *)
Exited == program = "exited" /\ UNCHANGED vars

Next ==
    \/ /\ program = "running"
       /\ \/ \E c \in Customers : Customer(c)
          \/ \E b \in Barbers : Barber(b)
          \/ cashcounter
    \/ Exited

Spec == Init /\ [][Next]_vars

(* The threads are preemptively scheduled by the operating system.  Every  *)
(* thread takes finitely many steps, so that some thread always moving is  *)
(* all the fairness needed.                                                *)
FairSpec == Spec /\ WF_vars(Next)

-----------------------------------------------------------------------------
CustomerLabels ==
    {"enter", "look", "decide", "choose", "filmfare", "reading", "unreserve",
     "putback", "ticket", "select", "scan", "occupy", "callbarber", "ready",
     "haircut", "rise", "leave", "queue", "pay", "receipt", "done", "door",
     "await", "gone"}
BarberLabels == {"sleep", "read", "cut", "stand", "release", "accept"}
CounterLabels == {"idle", "name", "call", "ring", "paying", "give"}

At(L) == {c \in Customers : cpc[c] \in L}
BarbersAt(L) == {b \in Barbers : bpc[b] \in L}

(* Type invariant.                                                         *)
LabelsOK ==
    /\ cpc \in [Customers -> CustomerLabels]
    /\ bpc \in [Barbers -> BarberLabels]
    /\ kpc \in CounterLabels
    /\ program \in {"running", "exited"}
SemaphoresOK ==
    /\ sem \in [Names -> Nat]
    /\ finished \in [Customers -> Nat]
    /\ receipt \in [Customers -> Nat]
    /\ done \in [Customers -> Nat]
    /\ leave_bchair \in [Chairs -> Nat]
ShopOK ==
    /\ chair \in [Chairs -> Customers \cup {-1}]
    /\ freechairs \in Int
    /\ freefilmfares \in Int
    /\ seat \in [Customers -> Chairs]
    /\ pipe1 \in Seq(Calls)
    /\ pipe2 \in Seq(Customers)
    /\ call \in [Barbers -> Calls]
    /\ payer \in Customers
TypeOK == LabelsOK /\ SemaphoresOK /\ ShopOK

(* mutex2 admits one customer to the section that selects or frees a chair *)
(* (lines 73-77, 111-126, 143-147).                                        *)
ChairSection == {"decide", "scan", "occupy", "leave"}
ChairMutex ==
    /\ sem["mutex2"] + Cardinality(At(ChairSection)) = 1

(* "The secure selection ensures we aren't sitting on somebody's lap"      *)
(* (line 121): a chair names a customer exactly while he sits in it, and   *)
(* freechairs, which other customers decide on, counts the empty chairs.   *)
Sitting == {"callbarber", "ready", "haircut", "rise", "leave"}
NobodysLap ==
    /\ \A c \in At(Sitting) : chair[seat[c]] = c
    /\ \A i \in Chairs : chair[i] # -1 =>
          cpc[chair[i]] \in Sitting /\ seat[chair[i]] = i
    /\ freechairs = Cardinality({i \in Chairs : chair[i] = -1})

(* Line 115, "This is not possible! we are here because at least 1 chair   *)
(* empty!": a customer holding a barberchair ticket finds a chair, although*)
(* tickets are posted by barbers and chairs are freed by customers.        *)
ChairForTicket ==
    At({"scan"}) # {} => ~ChairsTaken

(* Where the tickets of barberchair are: still in the semaphore, with a    *)
(* customer who has not been cut yet, or with a barber who will post one.  *)
Ticketed == {"unreserve", "putback", "select", "scan", "occupy", "callbarber",
             "ready", "haircut"}
Uncut == {c \in At(Ticketed) : finished[c] = 0}
TicketAccounting ==
    sem["barberchair"] + Cardinality(Uncut)
      + Cardinality(BarbersAt({"stand", "release"})) = totalchairs

(* A barber who was called finds the call in the pipe, and the counter the *)
(* name of its customer: nobody ever blocks in read() inside mutex3 or     *)
(* mutex4, which would stop everyone (lines 193-200, 234-240).             *)
ReadsNeverBlock ==
    /\ sem["cust_ready"] + Cardinality(BarbersAt({"read"})) <= Len(pipe1)
    /\ sem["readywithpayment"] + (IF kpc = "name" THEN 1 ELSE 0) <= Len(pipe2)

(* A barber cuts the hair of a customer who sits in the chair he was told, *)
(* is not cut yet, and is nobody else's (lines 198-208).                   *)
CutsSeatedCustomer ==
    \A b \in BarbersAt({"cut"}) :
      /\ cpc[call[b][1]] \in {"ready", "haircut"}
      /\ finished[call[b][1]] = 0
      /\ chair[call[b][2]] = call[b][1]
      /\ \A d \in BarbersAt({"cut", "stand"}) \ {b} :
            bpc[d] = "stand" \/ call[d][1] # call[b][1]

(* The counter talks about one customer at a time, and that customer is    *)
(* waiting for his receipt (lines 234-259).                                *)
ReceiptForPayer ==
    kpc \in {"call", "ring", "paying", "give"} =>
      cpc[payer] \in {"pay", "receipt"} /\ receipt[payer] = 0

(* Lines 209-210, "wait till the chapie gets up. individualized, so that   *)
(* we get sem_post from the right guy": when a barber has seen his chair   *)
(* left, his customer is out of it.                                        *)
RightGuy ==
    \A b \in BarbersAt({"release"}) : cpc[call[b][1]] \notin Sitting

(* The program ends: every customer is served and the last one exits       *)
(* (lines 166-172).                                                        *)
AllServed == <>(program = "exited")

-----------------------------------------------------------------------------
(* The threads implement ShopService: a customer is inside from his        *)
(* max_capacity ticket until he gives it back, seated while chair[] names  *)
(* him, and shorn once he has been told so.                                *)
PhaseOf(c) ==
    CASE cpc[c] = "enter" -> "outside"
      [] cpc[c] \in {"callbarber", "ready", "haircut"} -> "seated"
      [] cpc[c] \in {"rise", "leave"} -> "shorn"
      [] cpc[c] \in {"queue", "pay", "receipt"} -> "risen"
      [] cpc[c] \in {"done", "door"} -> "paid"
      [] cpc[c] \in {"await", "gone"} -> "gone"
      [] OTHER -> "waiting"

Service == INSTANCE ShopService WITH
              phase <- [c \in Customers |-> PhaseOf(c)], open <- program
ImplementsService == Service!Spec
=============================================================================
