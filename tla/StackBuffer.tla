------------------------------ MODULE StackBuffer ------------------------------
(***************************************************************************)
(* OS-ane/pthread_ipc/producerConsumer.c, and with processes               *)
(* OS-ane/producerConsumerV.c: an array used as a stack under a mutex and  *)
(* two counting semaphores.  The products are numbered.                    *)
(***************************************************************************)
EXTENDS PosixIpc

CONSTANTS BUF_SIZE, MAX_ITEMS

Producer == 1
Consumer == 2

Init ==
    /\ pc = [t \in {Producer, Consumer} |-> "down"]
    /\ sem = [empty_count |-> BUF_SIZE, full_count |-> 0]
    /\ asleep = {}
    /\ mem = [items |-> <<>>, made |-> 0, got |-> <<>>]

(* A full stack drops the product, an empty one gives -1.                  *)
addProduct(val) ==
    [mem EXCEPT !.items = IF Len(@) = BUF_SIZE THEN @ ELSE Append(@, val),
                !.made = @ + 1]
consumeProduct ==
    IF mem.items = <<>>
    THEN [mem EXCEPT !.got = Append(@, -1)]
    ELSE [mem EXCEPT !.got = Append(@, mem.items[Len(mem.items)]),
                     !.items = SubSeq(@, 1, Len(@) - 1)]

Unasked == Go(Producer, "down", "add") /\ UNCHANGED <<sem, asleep, mem>>  \* faulty
DownEmpty ==
    Go(Producer, "down", "add") /\ Down("empty_count") /\ UNCHANGED <<asleep, mem>>
Add ==
    Go(Producer, "add", "up") /\ mem' = addProduct(mem.made) /\ UNCHANGED <<sem, asleep>>
UpFull ==
    /\ Go(Producer, "up", IF mem.made = MAX_ITEMS THEN "end" ELSE "down")
    /\ Up("full_count") /\ UNCHANGED <<asleep, mem>>

DownFull ==
    Go(Consumer, "down", "take") /\ Down("full_count") /\ UNCHANGED <<asleep, mem>>
Take ==
    Go(Consumer, "take", "up") /\ mem' = consumeProduct /\ UNCHANGED <<sem, asleep>>
UpEmpty ==
    /\ Go(Consumer, "up", IF Len(mem.got) = MAX_ITEMS THEN "end" ELSE "down")
    /\ Up("empty_count") /\ UNCHANGED <<asleep, mem>>

Next == DownEmpty \/ Add \/ UpFull \/ DownFull \/ Take \/ UpEmpty

Finished == At({Producer, Consumer}, {"end"}) = {Producer, Consumer}

(* Every product made is on the stack or consumed, and only once.          *)
NothingLost ==
    LET Values(s) == {s[k] : k \in DOMAIN s}
    IN  /\ Values(mem.got) \cup Values(mem.items) = 0 .. mem.made - 1
        /\ Len(mem.got) + Len(mem.items) = mem.made
===============================================================================
