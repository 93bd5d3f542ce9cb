--------------------------------- MODULE Rules ---------------------------------
(***************************************************************************)
(* "apriori with extensions"/algo.java, and AssociationRules.java behind   *)
(* newalgo.java: the rules from the frequent itemsets.  algo.java gives    *)
(* the rules of the last level only, AssociationRules.java those of all.   *)
(* A step is a level, a turn of the loop of genAllSubsets, or the printing *)
(* of an itemset's rules.  Itemsets are sets of numbers until their        *)
(* subsets are made, where the order of the list matters.                  *)
(***************************************************************************)
EXTENDS PosixIpc, FiniteSetsExt, SequencesExt

CONSTANTS Items, Baskets, NTransactions, minimum_support

main == 0
Transactions == 1 .. NTransactions

Init ==
    /\ pc = [t \in {main} |-> "level"]
    /\ sem = <<>> /\ asleep = {}
    /\ \E all \in BOOLEAN, trans \in [Transactions -> Baskets] :
         mem = [all |-> all, trans |-> trans, L |-> {{x} : x \in UNION Range(trans)},
                finalL |-> {}, todo |-> {}, a |-> <<>>, frames |-> <<>>, partial |-> <<>>, f |-> {},
                rules |-> {}]

freq2(a) == Cardinality({j \in Transactions : a \subseteq mem.trans[j]})

genNextLevel ==
    {p[1] \cup p[2] : p \in {q \in mem.L \X mem.L :
                               q[1] # q[2] /\ q[1] \ {Max(q[1])} = q[2] \ {Max(q[2])}}}
prune(C) == {a \in C : \A x \in a : a \ {x} \in mem.L}

(* newalgo.java stops for want of candidates before it prunes them,        *)
(* algo.java after that, and then it keeps the level it has.               *)
LastLevel ==
    \/ mem.L = {}
    \/ IF mem.all THEN genNextLevel = {} ELSE prune(genNextLevel) = {}
Sorted(a) == SetToSortSeq(a, <)
Level ==
    /\ pc[main] = "level"
    /\ LET kept == mem.finalL \cup mem.L
       IN  IF LastLevel
           THEN /\ Go(main, "level", "itemset")
                /\ mem' = [mem EXCEPT !.finalL = kept,
                                      !.todo = IF mem.all THEN kept ELSE mem.L]
           ELSE /\ mem' = [mem EXCEPT !.finalL = kept,
                             !.L = {a \in prune(genNextLevel) : freq2(a) >= minimum_support}]
                /\ UNCHANGED pc
    /\ UNCHANGED <<sem, asleep>>

(* genAllSubsets is called for an itemset with an empty list.  A call is a *)
(* frame with its index, its place in partial and the turn it is at.       *)
Frame(index, pindex) == [index |-> index, pindex |-> pindex, i |-> index]
Itemset ==
    /\ IF mem.todo = {} THEN Go(main, "itemset", "end") /\ UNCHANGED mem
       ELSE /\ Go(main, "itemset", "subsets")
            /\ LET freq == CHOOSE x \in mem.todo : TRUE
               IN  mem' = [mem EXCEPT !.todo = @ \ {freq}, !.a = Sorted(freq),
                                      !.frames = <<Frame(1, 1)>>, !.partial = <<>>, !.f = {}]
    /\ UNCHANGED <<sem, asleep>>

(* The first turn of a call adds to the end of partial, wherever that is,  *)
(* the others overwrite its place.                                         *)
Stacked(fr, x) == Append(mem.partial, x)                         \* faulty
Placed(fr, x) ==
    IF fr.i = fr.index THEN Append(mem.partial, x) ELSE [mem.partial EXCEPT ![fr.pindex] = x]
Turn ==
    /\ pc[main] = "subsets" /\ mem.frames # <<>>
    /\ LET a == mem.a
           fr == Head(mem.frames)
           partial == Placed(fr, a[fr.i])
       IN  mem' = IF fr.i > Len(a) THEN [mem EXCEPT !.frames = Tail(@)]
                  ELSE [mem EXCEPT
                          !.partial = partial,
                          !.f = @ \cup {SubSeq(partial, 1, fr.pindex)},
                          !.frames = <<Frame(fr.i + 1, fr.pindex + 1)>>
                                       \o [@ EXCEPT ![1].i = fr.i + 1]]
    /\ UNCHANGED <<pc, sem, asleep>>

Confidence(a, x) == (freq2(ToSet(a)) * 100) \div freq2(ToSet(x))
Rule ==
    /\ mem.frames = <<>> /\ Go(main, "subsets", "itemset")
    /\ mem' = [mem EXCEPT !.rules = @ \cup {<<mem.a, x, Confidence(mem.a, x)>> :
                                              x \in {y \in mem.f : Len(y) # Len(mem.a)}}]
    /\ UNCHANGED <<sem, asleep>>

Next == Level \/ Itemset \/ Turn \/ Rule
Finished == pc[main] = "end"

-----------------------------------------------------------------------------
(* A rule's list is made of items of its itemset, and its confidence is    *)
(* the share of the transactions that have the list and also have the      *)
(* rest.  Of itemsets of up to three items there are the rules of all      *)
(* proper subsets; the itemsets are the frequent ones, and the single      *)
(* items, of every level, or of the highest one, unless there were         *)
(* candidates for a higher one still.  From four items on the lists are    *)
(* not all subsets: Append puts an element behind what is left of earlier  *)
(* turns, and not at its place.                                            *)
RulesExact ==
    Finished =>
      LET whole == {a \in (SUBSET Items) \ {{}} : freq2(a) >= minimum_support}
                     \cup {{x} : x \in UNION Range(mem.trans)}
          Share(a, x) == (freq2(a) * 100) \div freq2(x)
          RulesOf(S) == {<<Sorted(p[1]), Sorted(p[2]), Share(p[1], p[2])>> :
                           p \in {q \in S \X SUBSET Items : q[2] # {} /\ q[2] \subseteq q[1] /\ q[2] # q[1]}}
          OfSize(n) == {a \in whole : Cardinality(a) = n}
          top == Max({Cardinality(a) : a \in whole})
          tried == \E a \in kSubset(top + 1, Items) : \A x \in a : a \ {x} \in whole
          due == IF mem.all THEN whole ELSE IF tried THEN {} ELSE OfSize(top)
          Small(S) == {r \in S : Len(r[1]) <= 3}
      IN  /\ \A r \in mem.rules : /\ ToSet(r[1]) \in due /\ ToSet(r[2]) \subseteq ToSet(r[1])
                                  /\ r[3] = Share(ToSet(r[1]), ToSet(r[2]))
          /\ Small(mem.rules) = Small(RulesOf(due))
===============================================================================
