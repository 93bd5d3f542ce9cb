---------------------------------- MODULE Dic ----------------------------------
(***************************************************************************)
(* DIC.java: dynamic itemset counting.  Each turn of run's loop, m         *)
(* transactions, is a step.  An itemset, a sorted list in the code, is a   *)
(* set of numbers; mem.of has the count and the start of each that is      *)
(* suspected or confirmed.                                                 *)
(***************************************************************************)
EXTENDS PosixIpc, FiniteSetsExt

CONSTANTS Items, Baskets, NTransactions, m, minimumSupport

main == 0

Init ==
    /\ pc = [t \in {main} |-> "run"]
    /\ sem = <<>> /\ asleep = {}
    /\ \E trans \in [0 .. NTransactions - 1 -> Baskets] :
         LET UniqueItems == {{x} : x \in UNION {trans[j] : j \in DOMAIN trans}}
         IN  mem = [allTransactions |-> trans, currentCount |-> 0,
                    SIF |-> UniqueItems, SF |-> {}, CIF |-> {}, CF |-> {},
                    of |-> [s \in UniqueItems |-> [startedAt |-> 0, count |-> 0]]]

(* What the next m transactions, from the first again after the last, add  *)
(* to the count of s.                                                      *)
Seen(s) ==
    Cardinality({i \in 0 .. m - 1 :
                   s \subseteq mem.allTransactions[(mem.currentCount + i) % NTransactions]})
Counts == [s \in DOMAIN mem.of |-> mem.of[s].count
                                   + IF s \in mem.SIF \cup mem.SF THEN Seen(s) ELSE 0]
Reached == (mem.currentCount + m) % NTransactions

(* Suspected infrequent sets that have the support by now.                 *)
Promoted == {s \in mem.SIF : Counts[s] >= minimumSupport}

canMerge(s, i) == Cardinality(s) = Cardinality(i) /\ s # i /\ s \ {Max(s)} = i \ {Max(i)}
Suspected == mem.SF \cup Promoted                                        \* faulty
Partners == mem.SF \cup Promoted \cup mem.CF
NewSets ==
    {p[1] \cup p[2] : p \in {q \in Promoted \X Partners : canMerge(q[1], q[2])}}
    \ DOMAIN mem.of

(* Once around: counting is back where it started for the set.             *)
Around(s) == mem.of[s].startedAt = Reached

Round ==
    /\ pc[main] = "run" /\ mem.SIF \cup mem.SF # {}
    /\ LET SIF == mem.SIF \ Promoted
           SF == mem.SF \cup Promoted
       IN  mem' = [mem EXCEPT
              !.currentCount = Reached,
              !.SIF = {s \in SIF : ~Around(s)} \cup NewSets,
              !.SF = {s \in SF : ~Around(s)},
              !.CIF = @ \cup {s \in SIF : Around(s)},
              !.CF = @ \cup {s \in SF : Around(s)},
              !.of = [s \in DOMAIN @ \cup NewSets |->
                        IF s \in NewSets THEN [startedAt |-> Reached, count |-> 0]
                        ELSE [@[s] EXCEPT !.count = Counts[s]]]]
    /\ UNCHANGED <<pc, sem, asleep>>

Done ==
    /\ mem.SIF \cup mem.SF = {} /\ Go(main, "run", "end")
    /\ UNCHANGED <<sem, asleep, mem>>

Next == Round \/ Done

Finished == pc[main] = "end"

-----------------------------------------------------------------------------
Support(s) == Cardinality({j \in 0 .. NTransactions - 1 : s \subseteq mem.allTransactions[j]})
Frequent == {s \in (SUBSET Items) \ {{}} : Support(s) >= minimumSupport}

(* All frequent itemsets are confirmed, each however late it was begun.    *)
(* When m divides the number of transactions they are the only ones;       *)
(* otherwise a set is back at its start only after several times around,   *)
(* its count is too high, and infrequent ones are confirmed as well.       *)
FrequentConfirmed ==
    Finished => /\ Frequent \subseteq mem.CF
                /\ NTransactions % m = 0 => mem.CF = Frequent
================================================================================
