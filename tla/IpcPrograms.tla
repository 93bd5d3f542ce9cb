------------------------------ MODULE IpcPrograms ------------------------------
(***************************************************************************)
(* The programs of several threads or processes, each an instance of its   *)
(* module, for any number of threads, rounds and places.                   *)
(***************************************************************************)
EXTENDS PosixIpc

CONSTANTS
    Forks, Meals,               \* philosopher.c, diningPhilosophers.c
    NTHREADS, maxsteps,         \* chopsticks.c
    Readers, Writers,           \* reader-writer.c, readerWriter.c
    OneWriter, MAXCOUNT,        \* reader-writer.c, which has one writer
    numCustomers, numChairs,    \* sleeping_barber.c
    Rounds, MAX,                \* smoker.c, consumer_producer.c
    BUF_SIZE, MAX_ITEMS,        \* producerConsumer.c
    Messages, Unread,           \* proca.c
    Guests, Places, Visits,     \* simple-barber.c: customers and free seats
    Clients, Seats,             \* sleepingBarber.c: the same
    SECONDS, Horizon, Children, \* cron.c
    NThreads, MAX_THREADS,      \* mythread_rr.c and mythread.c
    Bursts

ASSUME IpcAssumption ==
    /\ Forks \in Nat \ {0, 1} /\ Meals \in Nat \ {0}
    /\ NTHREADS \in Nat \ {0, 1} /\ maxsteps \in Nat
    /\ IsFiniteSet(Readers) /\ IsFiniteSet(Writers) /\ Readers # {}
    /\ Readers \cap Writers = {} /\ OneWriter \notin Readers
    /\ MAXCOUNT \in Nat
    /\ numCustomers \in Nat \ {0} /\ numChairs \in Nat \ {0}
    /\ Rounds \in Nat \ {0} /\ MAX \in Nat \ {0}
    /\ BUF_SIZE \in Nat \ {0} /\ MAX_ITEMS \in Nat \ {0}
    /\ Messages \in Nat \ {0} /\ Unread \in Nat
    /\ Guests \in Nat \ {0} /\ Places \in Nat /\ Visits \in Nat \ {0}
    /\ Clients \in Nat /\ Seats \in Nat
    /\ SECONDS \in Nat \ {0} /\ Horizon \in Nat /\ Children \in Nat

ASSUME LibraryAssumption ==
    /\ NThreads \in Nat \ {0} /\ MAX_THREADS \in Nat /\ NThreads <= MAX_THREADS
    /\ Bursts \subseteq Nat

Table   == INSTANCE ForkTable WITH P <- Forks, N <- Meals
Monitor == INSTANCE Chopsticks
Rwl     == INSTANCE ReadWriteLock WITH Writers <- {OneWriter}
Counted == INSTANCE ReadersCount WITH Shared <- TRUE
Smoking == INSTANCE Smokers
Pillow  == INSTANCE SleepingBarbers
Ring    == INSTANCE RingBuffer
Stack   == INSTANCE StackBuffer
Mailed  == INSTANCE MessageQueue WITH Left <- Unread
Pipes   == INSTANCE PipeBarber WITH NCustomers <- Guests, Seats <- Places
Ready   == INSTANCE MutexBarber WITH NCustomers <- Clients
Daemon  == INSTANCE CronSleep
Timed   == INSTANCE MyThread WITH RoundRobin <- TRUE
Fcfs    == INSTANCE MyThread WITH RoundRobin <- FALSE
================================================================================
