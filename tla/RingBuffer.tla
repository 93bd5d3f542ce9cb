------------------------------ MODULE RingBuffer ------------------------------
(***************************************************************************)
(* OS-master/consumer_producer.c: a ring under a mutex and two condition   *)
(* variables, which are signalled after the mutex has been released.  The  *)
(* ring has as many places as products are sent.  The random products are  *)
(* numbered, so that all of them differ.                                   *)
(***************************************************************************)
EXTENDS PosixIpc

CONSTANT MAX

producer == 1
consumer == 2
Round(n) == IF n = MAX THEN "end" ELSE "lock"

Init ==
    /\ pc = [t \in {producer, consumer} |-> "lock"]
    /\ sem = <<>>
    /\ asleep = {}
    /\ mem = [queue |-> [i \in 0 .. MAX - 1 |-> -1], head |-> 0, tail |-> 0,
              count |-> 0, made |-> 0, got |-> <<>>]

SleepOn(t) ==
    Go(t, "lock", "lock") /\ asleep' = asleep \cup {t} /\ UNCHANGED mem

(* A thread that was woken tests the count again.                          *)
Produce ==
    /\ Woken(producer)
    /\ IF mem.count = MAX
       THEN SleepOn(producer)
       ELSE /\ Go(producer, "lock", "signal")
            /\ mem' = [mem EXCEPT !.queue[mem.tail] = mem.made, !.count = @ + 1,
                                  !.tail = (@ + 1) % MAX, !.made = @ + 1]
            /\ UNCHANGED asleep
    /\ UNCHANGED sem
SignalConsumer ==
    /\ Go(producer, "signal", Round(mem.made))
    /\ Signal({consumer})
    /\ UNCHANGED <<sem, mem>>

Consume ==
    /\ Woken(consumer)
    /\ IF mem.count = 0
       THEN SleepOn(consumer)
       ELSE /\ Go(consumer, "lock", "signal")
            /\ mem' = [mem EXCEPT !.got = Append(@, mem.queue[mem.head]),
                                  !.head = (@ + 1) % MAX, !.count = @ - 1]
            /\ UNCHANGED asleep
    /\ UNCHANGED sem
SignalProducer ==
    /\ Go(consumer, "signal", Round(Len(mem.got)))
    /\ Signal({producer})
    /\ UNCHANGED <<sem, mem>>

Next == Produce \/ SignalConsumer \/ Consume \/ SignalProducer

Finished == At({producer, consumer}, {"end"}) = {producer, consumer}

(* The ring delivers every product, in order.                              *)
InOrder ==
    /\ mem.got = [k \in 1 .. mem.made - mem.count |-> k - 1]
    /\ \A k \in 0 .. mem.count - 1 :
         mem.queue[(mem.head + k) % MAX] = mem.made - mem.count + k

(* Nobody sleeps while what he waits for is there and nobody is about to   *)
(* signal it.                                                              *)
NobodyOversleeps ==
    /\ consumer \in asleep => mem.count = 0 \/ pc[producer] = "signal"
    /\ producer \in asleep => mem.count = MAX \/ pc[consumer] = "signal"
===============================================================================
