------------------------------ MODULE MessageQueue ------------------------------
(***************************************************************************)
(* OS-master/proca.c: a son sends numbers to his father through a message  *)
(* queue of the kernel, which the father removes when he has got as many   *)
(* as the son sends.  The queue is found by a key and made if need be: one *)
(* that a killed run has left behind still has that run's messages.        *)
(***************************************************************************)
EXTENDS PosixIpc

CONSTANTS
    Messages,      \* 10
    Left           \* bound: messages of a run that was killed

son == "son"
father == "father"
Round(n) == IF n = Messages THEN "end" ELSE "round"

(* The son's messages are numbered from 1, older ones down from 0.         *)
Older(n) == [k \in 1 .. n |-> k - n]
Init ==
    /\ pc = [t \in {son, father} |-> "round"]
    /\ sem = <<>> /\ asleep = {}
    /\ \E n \in 0 .. Left :
         mem = [queue |-> Older(n), old |-> Older(n), there |-> TRUE, sent |-> 0, got |-> <<>>]

(* msgsnd on a queue that is not there any more fails, and nobody looks.   *)
msgsnd ==
    /\ Go(son, "round", Round(mem.sent + 1))
    /\ mem' = [mem EXCEPT !.sent = @ + 1,
                          !.queue = IF mem.there THEN Append(@, mem.sent + 1) ELSE @]
    /\ UNCHANGED <<sem, asleep>>

msgrcv ==
    /\ mem.queue # <<>>
    /\ Go(father, "round", IF Round(Len(mem.got) + 1) = "end" THEN "remove" ELSE "round")
    /\ mem' = [mem EXCEPT !.got = Append(@, Head(mem.queue)), !.queue = Tail(@)]
    /\ UNCHANGED <<sem, asleep>>

msgctl ==
    /\ Go(father, "remove", "end")
    /\ mem' = [mem EXCEPT !.queue = <<>>, !.there = FALSE]
    /\ UNCHANGED <<sem, asleep>>

Next == msgsnd \/ msgrcv \/ msgctl
Finished == At({son, father}, {"end"}) = {son, father}

-----------------------------------------------------------------------------
(* As long as there is a queue, each message is in it or was received, in  *)
(* the order they were sent; afterwards none is missing, unless an older   *)
(* run has left some that were received instead (main).                    *)
NothingLost ==
    LET all == mem.old \o [k \in 1 .. mem.sent |-> k]
    IN  /\ mem.got = SubSeq(all, 1, Len(mem.got))
        /\ mem.there => mem.got \o mem.queue = all
        /\ ~mem.there /\ mem.old = <<>> => mem.got = all
=================================================================================
