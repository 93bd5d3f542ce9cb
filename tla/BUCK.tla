---------------------------------- MODULE BUCK ----------------------------------
(***************************************************************************)
(* BUCK.java: the bottom-up search for an iceberg cube.  A cell is a tuple *)
(* with a value, or 0 for the code's "*", in each dimension.  The calls of *)
(* run that are still to be made are kept in the order of the recursion.   *)
(***************************************************************************)
EXTENDS PosixIpc, SequencesExt

CONSTANTS NDims, Values, NTransactions, minimum_support

main == 0
Star == 0
Dims == 1 .. NDims
Call(tuple, d) == [tuple |-> tuple, d |-> d]

(* The dimensions are counted from 1 here.                                 *)
Init ==
    /\ pc = [t \in {main} |-> "run"]
    /\ sem = <<>> /\ asleep = {}
    /\ \E all \in [1 .. NTransactions -> [Dims -> Values]] :
         mem = [all |-> all, iceberg |-> <<>>, calls |-> <<Call([i \in Dims |-> Star], 1)>>]

Covers(tuple, trans) == \A i \in Dims : tuple[i] \in {Star, trans[i]}

freq(tuple) == Cardinality({t \in DOMAIN mem.all : Covers(tuple, mem.all[t])})

(* One value for each transaction, in spite of the name.                   *)
allUniqueValues(d) == [t \in 1 .. NTransactions |-> mem.all[t][d]]

(* The calls made for a tuple, one dimension deeper.                       *)
Deeper(c) ==
    LET dims == allUniqueValues(c.d)
    IN  [t \in DOMAIN dims |-> Call([c.tuple EXCEPT ![c.d] = dims[t]], c.d + 1)]

(* Too deep or too rare a tuple ends the call.                             *)
Pruned(c) == c.d > NDims \/ freq(c.tuple) < minimum_support

run ==
    /\ pc[main] = "run"
    /\ LET c    == Head(mem.calls)
           rest == IF Pruned(c) THEN Tail(mem.calls) ELSE Deeper(c) \o Tail(mem.calls)
       IN  /\ Go(main, "run", IF rest = <<>> THEN "end" ELSE "run")
           /\ mem' = [mem EXCEPT
                !.calls = rest,
                !.iceberg = IF Pruned(c) THEN @ ELSE (c.tuple :> freq(c.tuple)) @@ @]
    /\ UNCHANGED <<sem, asleep>>

Next == run

Finished == pc[main] = "end"

-----------------------------------------------------------------------------
(* What run visits: cells that fix the first dimensions, not all of them,  *)
(* and leave the others open.                                              *)
Visited == {c \in [Dims -> Values \cup {Star}] :
               \E k \in 0 .. NDims - 1 : \A i \in Dims : (c[i] # Star) <=> i <= k}

(* Not to go below a rare cell loses nothing: of the cells run can come to *)
(* the frequent ones are in the iceberg with their counts, and no others   *)
(* (run).                                                                  *)
IcebergExact ==
    Finished => mem.iceberg = [c \in {x \in Visited : freq(x) >= minimum_support} |-> freq(c)]
==================================================================================
