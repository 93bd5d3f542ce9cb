--------------------------------- MODULE KMeans ---------------------------------
(***************************************************************************)
(* k_means.java: clustering of numbers.  A step is one turn of main's loop,*)
(* which ends when no cluster has changed.  A mean, a double in the code,  *)
(* is the fraction sum/cnt; with cnt = 0 it is NaN, which is in no         *)
(* comparison less than anything.                                          *)
(***************************************************************************)
EXTENDS PosixIpc, SequencesExt

CONSTANTS n, p, Values      \* elements, clusters (three at the most), what elements can be

main == 0
Clusters == 0 .. p - 1
NaN(mean) == mean.cnt = 0

(* The first p elements are the first means; tempk has no cluster yet.     *)
Init ==
    /\ pc = [t \in {main} |-> "run"]
    /\ sem = <<>> /\ asleep = {}
    /\ \E d \in [1 .. n -> Values] :
         mem = [d |-> d, k |-> [i \in Clusters |-> <<>>], tempk |-> [i \in Clusters |-> <<>>],
                m |-> [i \in Clusters |-> [sum |-> d[i + 1], cnt |-> 1]]]

Abs(x) == IF x < 0 THEN -x ELSE x
Nearer(a, x, y) == Abs(a * x.cnt - x.sum) * y.cnt < Abs(a * y.cnt - y.sum) * x.cnt

(* The first of the nearest means.  If the first mean is NaN nothing is    *)
(* nearer than that.                                                       *)
cal_diff(a) ==
    IF NaN(mem.m[0]) THEN 0
    ELSE CHOOSE i \in Clusters :
           /\ ~NaN(mem.m[i])
           /\ \A j \in Clusters : ~NaN(mem.m[j]) =>
                /\ ~Nearer(a, mem.m[j], mem.m[i])
                /\ j < i => Nearer(a, mem.m[i], mem.m[j])

Total(s) == FoldSeq(LAMBDA a, b : a + b, 0, s)

(* The last place of a cluster, which only a cluster of all elements       *)
(* fills, is left out of the mean.                                         *)
cal_mean(k) ==
    [i \in Clusters |-> LET s == SubSeq(k[i], 1, IF Len(k[i]) = n THEN n - 1 ELSE Len(k[i]))
                        IN  [sum |-> Total(s), cnt |-> Len(s)]]

check1(k) == mem.tempk = k

Round ==
    /\ LET k == [i \in Clusters |-> SelectSeq(mem.d, LAMBDA a : cal_diff(a) = i)]
       IN  /\ Go(main, "run", IF check1(k) THEN "end" ELSE "run")
           /\ mem' = [mem EXCEPT !.k = k, !.tempk = k, !.m = cal_mean(k)]
    /\ UNCHANGED <<sem, asleep>>

Next == Round

Finished == pc[main] = "end"

-----------------------------------------------------------------------------
(* When the loop ends with every cluster in use, each element is in a      *)
(* cluster whose mean no other mean is nearer to: the last change of any   *)
(* cluster has been followed by another look at all elements.              *)
Settled ==
    Finished /\ (\A i \in Clusters : mem.k[i] # <<>>) =>
      LET mean == [i \in Clusters |-> [sum |-> Total(mem.k[i]), cnt |-> Len(mem.k[i])]]
      IN  /\ Cardinality({ij \in Clusters \X (1 .. n) : ij[2] <= Len(mem.k[ij[1]])}) = n
          /\ \A i, j \in Clusters : \A a \in ToSet(mem.k[i]) : ~Nearer(a, mean[j], mean[i])
=================================================================================
