-------------------------------- MODULE Smokers --------------------------------
(***************************************************************************)
(* ClassicalIPC-Problems/smoker.c: the agent puts down what one smoker     *)
(* lacks; everybody waits on the one condition variable self.  agnt is     *)
(* never reset, so that the agent never waits.  main exits as soon as the  *)
(* agent has ended.                                                        *)
(***************************************************************************)
EXTENDS PosixIpc

CONSTANT Rounds          \* 10 in the code

Types == 0 .. 2          \* t, m and p, and the smokers
Agent == 3
main == 4

Init ==
    /\ pc = [x \in 0 .. 4 |-> CASE x \in Types -> "pickup"
                                [] x = Agent -> "putdown"
                                [] OTHER -> "join"]
    /\ sem = <<>>
    /\ asleep = {}
    /\ mem = [table |-> [type \in Types |-> 0], agnt |-> 1, x |-> 0]

putdown ==
    /\ Woken(Agent)
    /\ IF mem.agnt # 1
       THEN asleep' = asleep \cup {Agent} /\ UNCHANGED <<pc, mem>>
       ELSE /\ Go(Agent, "putdown", IF mem.x = Rounds - 1 THEN "end" ELSE "putdown")
            /\ \E type \in Types :
                 mem' = [mem EXCEPT !.table[type] = 1, !.x = @ + 1]
            /\ Broadcast(Types \cup {Agent})
    /\ UNCHANGED sem

pickup(s) ==
    /\ Woken(s) /\ pc[s] = "pickup"
    /\ IF mem.table[s] # 1
       THEN asleep' = asleep \cup {s} /\ UNCHANGED <<pc, mem>>
       ELSE /\ mem' = [mem EXCEPT !.table[s] = 0, !.agnt = 1]
            /\ Broadcast(Types \cup {Agent})
            /\ UNCHANGED pc
    /\ UNCHANGED sem

Exit ==
    /\ pc[Agent] = "end"
    /\ pc' = [x \in DOMAIN pc |-> "end"]
    /\ asleep' = {}
    /\ UNCHANGED <<sem, mem>>

Next == putdown \/ (\E s \in Types : pickup(s)) \/ (pc[main] = "join" /\ Exit)

Finished == pc[main] = "end"

(* No smoker sleeps while what he lacks is on the table.                   *)
NobodyOversleeps == \A s \in asleep \cap Types : mem.table[s] = 0
===============================================================================
