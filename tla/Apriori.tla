-------------------------------- MODULE Apriori --------------------------------
(***************************************************************************)
(* newalgo.java with its three methods: the second level from all pairs,   *)
(* from hash buckets (hashing.java), or on one partition of the            *)
(* transactions after the other (partitioning.java).  Each level is a      *)
(* step.  Transactions and itemsets are lists of numbers as in the code,   *)
(* which compares itemsets with the order of their items.                  *)
(***************************************************************************)
EXTENDS PosixIpc, SequencesExt

CONSTANTS
    Baskets,             \* what a line of the file can be: a list that names nothing twice
    NTransactions, minimum_support,
    PartitionSizes       \* of which one is chosen

main == 0
Transactions == 0 .. NTransactions - 1

Init ==
    /\ pc = [t \in {main} |-> "level"]
    /\ sem = <<>> /\ asleep = {}
    /\ \E method \in {"normal", "hashing", "partition"}, size \in PartitionSizes,
          trans \in [Transactions -> Baskets] :
         LET items  == UNION {ToSet(trans[j]) : j \in Transactions}
             firstL == SetToSortSeq({<<x>> : x \in items}, LAMBDA a, b : a[1] < b[1])
         IN  mem = [method |-> method, partitionSize |-> size, trans |-> trans, from |-> 0,
                    firstL |-> firstL, k |-> 0, L |-> firstL, finalL |-> {}, C |-> {}]

Support(a, T) == Cardinality({j \in T : ToSet(a) \subseteq ToSet(mem.trans[j])})

(* The transactions counted, and how often an itemset must be in them:     *)
(* with partitions the minimum is divided, and rounded up.                 *)
noOfPartitions == NTransactions \div mem.partitionSize
localSupport == (minimum_support + noOfPartitions - 1) \div noOfPartitions
allTransactions ==
    IF mem.method = "partition"
    THEN mem.from .. Min({mem.from + mem.partitionSize, NTransactions}) - 1
    ELSE Transactions
minimumHere == IF mem.method = "partition" THEN localSupport ELSE minimum_support

(* Of two lists that differ in the last item only the first gets the last  *)
(* item of the second, whichever of the items is the greater.              *)
Joined(a, b) == Front(a) = Front(b) /\ Last(a) # Last(b)
genNextLevel ==
    FlattenSeq([i \in DOMAIN mem.L |->
      LET a == mem.L[i]
          partners == SelectSeq(SubSeq(mem.L, i + 1, Len(mem.L)), LAMBDA b : Joined(a, b))
      IN  [j \in DOMAIN partners |-> Append(a, Last(partners[j]))]])

(* All pairs of all lines, in the order of the file; and each pair once,   *)
(* where it is first met (no line has a pair twice).                       *)
PairsOf(j) ==
    LET t == mem.trans[j - 1]
    IN  FlattenSeq([x \in 1 .. Len(t) - 1 |-> [y \in 1 .. Len(t) - x |-> <<t[x], t[x + y]>>]])
pairs == FlattenSeq([j \in 1 .. NTransactions |-> PairsOf(j)])
initialC ==
    FlattenSeq([j \in 1 .. NTransactions |->
      SelectSeq(PairsOf(j), LAMBDA pair : \A i \in 1 .. j - 1 : pair \notin ToSet(PairsOf(i)))])

hash(pair) == (pair[1] * 10 + pair[2]) % 7
BucketCount(h) == Len(SelectSeq(pairs, LAMBDA pair : hash(pair) = h))
genFromHashing == SelectSeq(initialC, LAMBDA pair : BucketCount(hash(pair)) >= minimum_support)

(* A candidate stays if it is in the last level without any of its items,  *)
(* the others in their order.                                              *)
prune(C) == SelectSeq(C, LAMBDA a : \A i \in DOMAIN a : RemoveAt(a, i) \in ToSet(mem.L))

(* A level that is empty, or that gives no candidates, is the last.        *)
Level ==
    LET C == IF mem.k = 0 /\ mem.method = "hashing" THEN genFromHashing ELSE genNextLevel
        Often(a) == Support(a, allTransactions) >= minimumHere
    IN  /\ Go(main, "level", IF mem.L = <<>> \/ C = <<>> THEN "found" ELSE "level")
        /\ mem' = [mem EXCEPT !.finalL = @ \cup ToSet(mem.L),
                              !.L = SelectSeq(prune(C), Often),
                              !.k = @ + 1]
        /\ UNCHANGED <<sem, asleep>>

(* partitioning: what is frequent somewhere is a candidate.                *)
NextPartition ==
    /\ pc[main] = "found"
    /\ LET from == mem.from + mem.partitionSize
           C == mem.C \cup mem.finalL
       IN  IF mem.method = "partition" /\ from < NTransactions
           THEN /\ Go(main, "found", "level")
                /\ mem' = [mem EXCEPT !.from = from, !.C = C, !.finalL = {},
                                      !.k = 0, !.L = mem.firstL]
           ELSE /\ Go(main, "found", "end")
                /\ mem' = IF mem.method = "partition"
                          THEN [mem EXCEPT !.C = C,
                                  !.finalL = {a \in C : Support(a, Transactions) >= minimum_support}]
                          ELSE mem
    /\ UNCHANGED <<sem, asleep>>

Next == Level \/ NextPartition

Finished == pc[main] = "end"

-----------------------------------------------------------------------------
Items == UNION {ToSet(mem.trans[j]) : j \in Transactions}
Frequent ==
    {a \in (SUBSET Items) \ {{}} :
       Cardinality({j \in Transactions : a \subseteq ToSet(mem.trans[j])}) >= minimum_support}

(* Lines that name their items in order, and pairs that are met in order.  *)
InOrder(s) == \A i, j \in DOMAIN s : i < j => s[i] < s[j]
LinesInOrder == \A j \in Transactions : InOrder(mem.trans[j])
PairsInOrder == InOrder([i \in DOMAIN initialC |-> initialC[i][1] * 10 + initialC[i][2]])

(* What is reported is frequent, but for the single items, which newalgo   *)
(* never counts.  The normal method reports all that is frequent; so do    *)
(* partitions of equal size.  Hashing reports the frequent pairs of lines  *)
(* that are in order; the larger sets are lost when the pairs are not met  *)
(* in order, for then a list gets out of order and is not found among      *)
(* those it is compared with.                                              *)
FrequentFound ==
    Finished =>
      LET reported == {ToSet(a) : a \in mem.finalL}
          single   == {{x} : x \in Items}
      IN  /\ reported \subseteq Frequent \cup (IF mem.method = "partition" THEN {} ELSE single)
          /\ mem.method = "normal" => Frequent \subseteq reported
          /\ mem.method = "partition" /\ NTransactions % mem.partitionSize = 0 =>
               Frequent \subseteq reported
          /\ mem.method = "hashing" /\ LinesInOrder =>
               {a \in Frequent : Cardinality(a) <= 2 \/ PairsInOrder} \subseteq reported
================================================================================
