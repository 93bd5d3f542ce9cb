------------------------------ MODULE ShopService ------------------------------
(***************************************************************************)
(* What the shop of OS-master/barber.c promises its customers, without     *)
(* semaphores, pipes or barbers: at most maxcapacity people inside, at     *)
(* most totalchairs of them in barber chairs, everybody shorn before       *)
(* rising, paid before leaving, and the program over only when all have    *)
(* paid.                                                                   *)
(***************************************************************************)
EXTENDS Integers, FiniteSets

CONSTANTS totalcustomers, maxcapacity, totalchairs

VARIABLES phase, open

serviceVars == <<phase, open>>

Clients == 0 .. totalcustomers - 1
InPhase(P) == {c \in Clients : phase[c] \in P}

Inside == InPhase({"waiting", "seated", "shorn", "risen", "paid"})
InChair == InPhase({"seated", "shorn"})

Step(c, from, to) ==
    /\ phase[c] = from
    /\ phase' = [phase EXCEPT ![c] = to]
    /\ open = "running" /\ open' = open

Init == phase = [c \in Clients |-> "outside"] /\ open = "running"

Admit(c) == Cardinality(Inside) < maxcapacity /\ Step(c, "outside", "waiting")
Sit(c)   == Cardinality(InChair) < totalchairs /\ Step(c, "waiting", "seated")
Cut(c)   == Step(c, "seated", "shorn")
Rise(c)  == Step(c, "shorn", "risen")
TakeMoney(c) == Step(c, "risen", "paid")
Leave(c) == Step(c, "paid", "gone")

Close ==
    /\ open = "running"
    /\ InPhase({"paid", "gone"}) = Clients
    /\ open' = "exited"
    /\ UNCHANGED phase

Next ==
    \/ \E c \in Clients :
          Admit(c) \/ Sit(c) \/ Cut(c) \/ Rise(c) \/ TakeMoney(c) \/ Leave(c)
    \/ Close

Promise == Init /\ [][Next]_serviceVars
Spec == Promise /\ WF_serviceVars(Next)
=============================================================================
