--------------------------------- MODULE FpTree ---------------------------------
(***************************************************************************)
(* fp: tree.java and FP.java.  A step builds one tree, the first from the  *)
(* transactions, each later one from the paths that end in an item.  The   *)
(* recursion is todo, the trees still to build.  A list of transactions is *)
(* a bag, the results are a set: their order only orders the output.  A    *)
(* node of the tree is the path of items that leads to it.                 *)
(***************************************************************************)
EXTENDS PosixIpc, SequencesExt, Functions

CONSTANTS Items, Baskets, NTransactions

main == 0
minimumSupport == 2

(* Transactions are read from a file; their items are taken to be sorted.  *)
Init ==
    /\ pc = [t \in {main} |-> "tree"]
    /\ sem = <<>> /\ asleep = {}
    /\ \E trans \in [1 .. NTransactions -> Baskets] :
         LET readFromFile == [t \in {SetToSortSeq(b, <) : b \in Range(trans)} |->
                                Cardinality({j \in DOMAIN trans : ToSet(t) = trans[j]})]
         IN  mem = [trans |-> trans, freqItemSets |-> {},
                    todo |-> {[all |-> readFromFile, prefix |-> {}]}]

(* How often each frequent item is in the transactions of all.             *)
supportCounts(all) ==
    LET times == [x \in Items |-> SumFunctionOnSet(all, {t \in DOMAIN all : Contains(t, x)})]
    IN  Restrict(times, {x \in Items : times[x] >= minimumSupport})

(* The frequent items of a transaction, the most frequent first; those     *)
(* with equal counts stay in their order, as Collections.sort is stable.   *)
sortBySupportCount(t, times) ==
    LET Place(x) == CHOOSE i \in DOMAIN t : t[i] = x
        Before(x, y) == \/ times[x] > times[y]
                        \/ times[x] = times[y] /\ Place(x) < Place(y)
    IN  SortSeq(SelectSeq(t, LAMBDA x : x \in DOMAIN times), Before)

(* The tree: its nodes, each with the number of transactions through it.   *)
tree(all) ==
    LET times  == supportCounts(all)
        sorted == [t \in DOMAIN all |-> sortBySupportCount(t, times)]
        nodes  == UNION {{SubSeq(sorted[t], 1, i) : i \in 1 .. Len(sorted[t])} : t \in DOMAIN all}
    IN  [node \in nodes |->
           SumFunctionOnSet(all, {t \in DOMAIN all : IsPrefix(node, sorted[t])})]

allPaths(supportCount) ==
    {path \in DOMAIN supportCount :
       \A other \in DOMAIN supportCount : ~IsStrictPrefix(path, other)}

(* What is above an item, as often as its node counts, and that for each   *)
(* path through the node: with two leaves below it, it counts twice.       *)
allPathsEndingIn(supportCount, item) ==
    LET ends == {node \in DOMAIN supportCount : Last(node) = item /\ Len(node) > 1}
        Through(node) == {path \in allPaths(supportCount) : IsPrefix(node, path)}
    IN  [above \in {Front(node) : node \in ends} |->
           LET node == Append(above, item)
           IN  supportCount[node] * Cardinality(Through(node))]

Tree ==
    /\ mem.todo # {} /\ UNCHANGED <<pc, sem, asleep>>
    /\ LET fp == CHOOSE fp \in mem.todo : TRUE
       IN  \E t \in {tree(fp.all)} :
             LET endingIn == {[all |-> allPathsEndingIn(t, x), prefix |-> {x} \cup fp.prefix] :
                                x \in DOMAIN supportCounts(fp.all)}
             IN  mem' = [mem EXCEPT !.freqItemSets = @ \cup {e.prefix : e \in endingIn},
                                    !.todo = (@ \ {fp}) \cup endingIn]

Done ==
    /\ mem.todo = {} /\ Go(main, "tree", "end")
    /\ UNCHANGED <<sem, asleep, mem>>

Next == Tree \/ Done

Finished == pc[main] = "end"

-----------------------------------------------------------------------------
Frequent ==
    {s \in (SUBSET Items) \ {{}} :
       Cardinality({j \in 1 .. NTransactions : s \subseteq mem.trans[j]}) >= minimumSupport}

(* All frequent itemsets are found and no others.  That a node counts once *)
(* for each leaf below it does not show with FP.java's minimum of two:     *)
(* such a node has two transactions anyway.  With three it would.          *)
FrequentFound == Finished => mem.freqItemSets = Frequent
=================================================================================
