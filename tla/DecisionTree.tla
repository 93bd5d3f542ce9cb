------------------------------ MODULE DecisionTree ------------------------------
(***************************************************************************)
(* dwdm-master/sudh/decisiontree/main.cpp.  A node of a tree is found      *)
(* under the choices that lead to it.  A step is a call of DTL, which      *)
(* either ends in a leaf or leaves two calls to be made, or the report at  *)
(* the end.  Attributes and classes are "1" and "2" in the code's data;    *)
(* the empty line that a file ends with is an object of nothing but 0.     *)
(* There are fewer than 256 objects: the loops count them in eight bits.   *)
(***************************************************************************)
EXTENDS PosixIpc, FiniteSetsExt, SequencesExt

CONSTANTS NAttributes, NExamples       \* 7 and 100 in the code and its data

main == 0
choices == 1 .. 2
Objects == [attribute : [1 .. NAttributes -> choices], classification : choices]
Empty == [attribute |-> [a \in 1 .. NAttributes |-> 0], classification |-> 0]

(* The first class, in the order of the examples, that is most popular.    *)
majorityValue(examples) ==
    LET popularity(c) == Cardinality({i \in DOMAIN examples : examples[i].classification = c})
        most == {i \in DOMAIN examples : \A j \in DOMAIN examples :
                   popularity(examples[j].classification) <= popularity(examples[i].classification)}
    IN  examples[Min(most)].classification

(* Each attribute gains the same, the sum of all shares of the examples,   *)
(* so that the first one is the best.                                      *)
LastBest(attributes) == {attributes[Len(attributes)]}            \* faulty
chooseAttributeInfoGain(attributes) == {attributes[1]}
chooseAttributeRandom(attributes) == ToSet(attributes)

Root(examples) ==
    [path |-> <<>>, examples |-> examples, attributes |-> [a \in 1 .. NAttributes |-> a], def |-> 0]
Init ==
    /\ pc = [t \in {main} |-> "gain"]
    /\ sem = <<>> /\ asleep = {}
    /\ \E examples \in [1 .. NExamples -> Objects] :
         mem = [examples |-> examples, calls |-> <<Root(examples)>>,
                gain |-> <<>>, random |-> <<>>, hits |-> <<>>]

Leaf(value) == [leaf |-> TRUE, value |-> value]
Inner(attribute) == [leaf |-> FALSE, value |-> attribute]
Classes(examples) == {examples[i].classification : i \in DOMAIN examples}

(* The node of a call, and the calls it makes.                             *)
Ends(call) ==
    call.examples = <<>> \/ Cardinality(Classes(call.examples)) = 1 \/ call.attributes = <<>>
EndNode(call) ==
    IF call.examples = <<>> THEN Leaf(call.def) ELSE Leaf(majorityValue(call.examples))
Subcall(call, best, choice) ==
    [path |-> Append(call.path, choice),
     examples |-> SelectSeq(call.examples, LAMBDA e : e.attribute[best] = choice),
     attributes |-> Remove(call.attributes, best),
     def |-> majorityValue(call.examples)]

DTL(which, chosen) ==
    LET call == Head(mem.calls)
        Grown(node) == [path \in DOMAIN mem[which] \cup {call.path} |->
                          IF path = call.path THEN node ELSE mem[which][path]]
    IN  /\ pc[main] = which /\ mem.calls # <<>>
        /\ IF Ends(call)
           THEN mem' = [mem EXCEPT ![which] = Grown(EndNode(call)), !.calls = Tail(@)]
           ELSE \E best \in chosen :
                  mem' = [mem EXCEPT
                    ![which] = Grown(Inner(best)),
                    !.calls = <<Subcall(call, best, 1), Subcall(call, best, 2)>> \o Tail(@)]
        /\ UNCHANGED <<pc, sem, asleep>>
GainTree == DTL("gain", chooseAttributeInfoGain(Head(mem.calls).attributes))
RandomTree == DTL("random", chooseAttributeRandom(Head(mem.calls).attributes))

Second ==
    /\ mem.calls = <<>> /\ Go(main, "gain", "random")
    /\ mem' = [mem EXCEPT !.calls = <<Root(mem.examples)>>]
    /\ UNCHANGED <<sem, asleep>>

(* The attribute that is asked for is the one whose number is the depth of *)
(* the node, whichever the node was split by.  A choice the node has not   *)
(* got is added to it with no subtree, 0 here.                             *)
classify(tree, object) ==
    LET walk[d \in 0 .. NAttributes] ==
          LET path == SubSeq(object.attribute, 1, d)
          IN  IF path \notin DOMAIN tree THEN 0
              ELSE IF tree[path].leaf THEN tree[path].value
              ELSE walk[d + 1]
    IN  walk[0]
Crashes(tree, test) ==
    ~tree[<<>>].leaf /\ \E i \in DOMAIN test : test[i] = Empty
testAccuracy(tree, test) ==
    Cardinality({i \in DOMAIN test : classify(tree, test[i]) = test[i].classification})

(* The test data are the training data here, with or without a newline at  *)
(* the end.                                                                *)
Report ==
    \E test \in {mem.examples, Append(mem.examples, Empty)} :
        /\ pc[main] = "random" /\ mem.calls = <<>>
        /\ IF Crashes(mem.gain, test) THEN Go(main, "random", "crashed") /\ UNCHANGED mem
           ELSE /\ Go(main, "random", "end")
                /\ mem' = [mem EXCEPT !.hits = <<testAccuracy(mem.gain, test),
                                                 testAccuracy(mem.random, test)>>]
        /\ UNCHANGED <<sem, asleep>>

Next == GainTree \/ RandomTree \/ Second \/ Report
Finished == pc[main] = "end"
Crashed == pc[main] = "crashed"

-----------------------------------------------------------------------------
(* Where a tree leads when every node asks for its own attribute.          *)
Leads(tree, object) ==
    LET from[d \in 0 .. NAttributes] ==
          [path \in {p \in DOMAIN tree : Len(p) = d} |->
             IF tree[path].leaf THEN tree[path].value
             ELSE from[d + 1][Append(path, object.attribute[tree[path].value])]]
    IN  from[0][<<>>]
Alike(o) == SelectSeq(mem.examples, LAMBDA e : e.attribute = o.attribute)

(* Both trees have learnt the examples: an object of the training data     *)
(* gets the class of the examples that are like it, the most popular one   *)
(* if they disagree.  classify, which asks by depth, finds it in the tree  *)
(* of the information gain, so that nobody can be more accurate there.     *)
TrainedExactly ==
    Finished \/ Crashed =>
      LET right(i) == majorityValue(Alike(mem.examples[i]))
      IN  /\ \A i \in 1 .. NExamples :
               /\ Leads(mem.gain, mem.examples[i]) = right(i)
               /\ Leads(mem.random, mem.examples[i]) = right(i)
               /\ classify(mem.gain, mem.examples[i]) = right(i)
          /\ Finished =>
               mem.hits[1] = Cardinality({i \in 1 .. NExamples :
                                            mem.examples[i].classification = right(i)})
===============================================================================
