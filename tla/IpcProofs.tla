---------------------------- MODULE IpcProofs ----------------------------
(***************************************************************************)
(* The programs of IpcPrograms, for any number of threads and places:      *)
(* neighbours and writers are kept apart, no wakeup is lost, every product *)
(* is delivered once and in order, free seats are counted right, cron does *)
(* not oversleep, and the run queue of the thread libraries drops nobody.  *)
(* Each program has an invariant of its own: first the invariants, then a  *)
(* section with the lemmas of each program, and last the two libraries     *)
(* with both.                                                              *)
(***************************************************************************)
EXTENDS IpcPrograms, FiniteSetTheorems, SequenceTheorems, TLAPS

-----------------------------------------------------------------------------
(* philosopher.c and diningPhilosophers.c: a fork is on the table exactly  *)
(* when nobody holds it, and nobody shares his fork.                       *)
Sat == Table!Philosophers
Holds(k, f) ==
    \/ pc[k] \in {"second", "eat"} /\ f = Table!First(k)
    \/ pc[k] = "eat" /\ f = Table!Second(k)
    \/ pc[k] = "put" /\ f = IF mem.table = "hierarchy" THEN Table!First(k)
                            ELSE Table!Second(k)

TableType ==
    /\ pc \in [Sat -> {"think", "first", "second", "eat", "put", "leave", "end"}]
    /\ sem \in [0 .. Forks -> Nat]
    /\ mem = [table |-> mem.table, meals |-> mem.meals]
    /\ mem.table \in {"room", "open", "hierarchy"}
ForkInv ==
    \A f \in Sat :
      /\ sem[f] <= 1
      /\ \A k \in Sat : Holds(k, f) => sem[f] = 0
      /\ \A k, l \in Sat : Holds(k, f) /\ Holds(l, f) => k = l
TableInv == TableType /\ ForkInv

-----------------------------------------------------------------------------
(* chopsticks.c: state follows where the threads are, no two neighbours    *)
(* eat, and who is hungry has a neighbour who eats.                        *)
Diners == Monitor!Philosophers
Moods == {"THINKING", "HUNGRY", "EATING"}
Fits(at, mood) ==
    \/ at \in {"thinking", "take", "end"} /\ mood = "THINKING"
    \/ at = "wait" /\ mood \in {"HUNGRY", "EATING"}
    \/ at \in {"eating", "put"} /\ mood = "EATING"
Beside(i) == {Monitor!LEFT(i), Monitor!RIGHT(i)}
Peaceful(state) ==
    \A i \in Diners : state[i] = "EATING" => \A j \in Beside(i) : state[j] # "EATING"
Attended(state, i) ==
    state[i] = "HUNGRY" => \E j \in Beside(i) : state[j] = "EATING"

MonitorType ==
    /\ pc \in [Diners -> {"thinking", "take", "wait", "eating", "put", "end"}]
    /\ mem = [state |-> mem.state, nsteps |-> mem.nsteps]
    /\ mem.state \in [Diners -> Moods]
    /\ \A i \in Diners : Fits(pc[i], mem.state[i])
    /\ asleep \subseteq Diners
MonitorInv ==
    /\ MonitorType
    /\ Peaceful(mem.state)
    /\ \A i \in Diners : Attended(mem.state, i)
    /\ \A i \in asleep : mem.state[i] = "HUNGRY"

-----------------------------------------------------------------------------
(* reader-writer.c: the counts of the lock are the threads that have it or *)
(* wait for it.                                                            *)
Scribe == {OneWriter}
ReadIn == {"read", "readunlock"}
WriteIn == {"write", "writeunlock"}
ReadersIn == At(Readers, ReadIn)
RwlType ==
    /\ pc \in [Readers \cup Scribe ->
                 {"readlock", "readOK", "read", "readunlock",
                  "writelock", "writeOK", "write", "writeunlock", "end"}]
    /\ mem = [readers |-> mem.readers, writers |-> mem.writers,
              waiting |-> mem.waiting, data |-> mem.data, d |-> mem.d, i |-> mem.i]
    /\ DOMAIN mem.d = Readers
LockInv ==
    /\ mem.readers = Cardinality(ReadersIn)
    /\ mem.writers = IF pc[OneWriter] \in WriteIn THEN 1 ELSE 0
    /\ mem.waiting = IF pc[OneWriter] = "writeOK" THEN 1 ELSE 0
    /\ pc[OneWriter] \in WriteIn => ReadersIn = {}
DataInv == \A r \in Readers : pc[r] = "readunlock" => mem.d[r] = mem.data
SleepInv ==
    /\ \A t \in asleep : pc[t] = IF t \in Readers THEN "readOK" ELSE "writeOK"
    /\ asleep \subseteq Readers \cup Scribe
    /\ Rwl!NobodyOversleeps
RwlInv == RwlType /\ LockInv /\ DataInv /\ SleepInv

-----------------------------------------------------------------------------
(* readerWriter.c: readers_mutex excludes readers from each other's        *)
(* counting; writers_mutex is with one writer or with the readers inside,  *)
(* the first of whom took it for them all.                                 *)
Counting == {"count", "first", "entered", "uncount", "last", "left"}
Inside == {"entered", "read", "uncount", "last"}
Section == {"load", "store", "unlock"}
ReaderLabels == {"entry", "read", "end"} \cup Counting
WriterLabels == {"lock", "end"} \cup Section
Present == At(Readers, {"first", "entered", "read", "uncount"})
Done == At(Writers, {"unlock", "end"})
One == CHOOSE x \in Readers : TRUE
Mutexes == {"readers_mutex", "writers_mutex"}

CountedType ==
    /\ pc \in [Readers \cup Writers -> ReaderLabels \cup WriterLabels]
    /\ \A r \in Readers : pc[r] \in ReaderLabels
    /\ \A w \in Writers : pc[w] \in WriterLabels
    /\ sem \in [Mutexes -> {0, 1}]
    /\ mem = [resource |-> mem.resource, reader_count |-> mem.reader_count, reg |-> mem.reg]
    /\ DOMAIN mem.reader_count = Readers
    /\ DOMAIN mem.reg = Writers
MutexInv ==
    \A r \in Readers : pc[r] \in Counting =>
        sem["readers_mutex"] = 0 /\ \A q \in Readers : pc[q] \in Counting => q = r
CountInv ==
    /\ mem.reader_count[One] = Cardinality(Present)
    /\ \A r \in Readers : /\ pc[r] = "first" => Present = {r}
                          /\ pc[r] = "last" => Present = {}
SectionInv ==
    /\ \A r \in Readers : pc[r] \in Inside =>
          sem["writers_mutex"] = 0 /\ \A w \in Writers : pc[w] \notin Section
    /\ \A w \in Writers : pc[w] \in Section =>
          sem["writers_mutex"] = 0 /\ \A v \in Writers : pc[v] \in Section => v = w
ResourceInv ==
    /\ mem.resource = Cardinality(Done)
    /\ \A w \in Writers : pc[w] = "store" => mem.reg[w] = mem.resource
CountedInv == CountedType /\ MutexInv /\ CountInv /\ SectionInv /\ ResourceInv

-----------------------------------------------------------------------------
(* sleeping_barber.c: one customer in the chair, and one post at most on   *)
(* its way between him and the barber.                                     *)
InChair == {"chair", "wake", "belt", "rise"}
Heads == Pillow!Customers
PillowType ==
    /\ pc \in [-1 .. numCustomers ->
                 {"arrive", "place", "chair", "wake", "belt", "rise", "end",
                  "test", "sleep", "look", "cut", "join", "post"}]
    /\ sem \in [{"waitingRoom", "barberChair", "barberPillow", "seatBelt"} -> Nat]
    /\ mem \in [allDone : {0, 1}]
    /\ \A c \in Heads : pc[c] \in {"arrive", "place", "end"} \cup InChair
    /\ pc[0] \in {"test", "sleep", "look", "cut", "end"}
    /\ pc[-1] \in {"join", "post", "end"}
ChairInv ==
    /\ sem["barberChair"] <= 1
    /\ \A c \in Heads : pc[c] \in InChair => sem["barberChair"] = 0
    /\ \A c, d \in Heads : pc[c] \in InChair /\ pc[d] \in InChair => c = d
(* Whose turn it is: the barber's as soon as he is woken.                  *)
TurnInv ==
    /\ sem["barberPillow"] = 1 /\ mem.allDone = 0 =>
         /\ pc[0] \in {"test", "sleep"} /\ sem["seatBelt"] = 0
         /\ \E c \in Heads : pc[c] = "belt"
    /\ pc[0] \in {"look", "cut"} /\ mem.allDone = 0 =>
         /\ sem["barberPillow"] = 0 /\ sem["seatBelt"] = 0
         /\ \E c \in Heads : pc[c] = "belt"
    /\ sem["seatBelt"] = 1 =>
         /\ pc[0] \in {"test", "sleep"} /\ sem["barberPillow"] = 0
         /\ \E c \in Heads : pc[c] = "belt"
    /\ sem["barberPillow"] <= 1 /\ sem["seatBelt"] <= 1
(* When main has joined the customers they are gone.                       *)
HomeInv ==
    /\ mem.allDone = 1 =>
         /\ \A c \in Heads : pc[c] = "end"
         /\ pc[0] # "cut" /\ sem["seatBelt"] = 0
         /\ pc[-1] = "post" => sem["barberPillow"] = 0
    /\ mem.allDone = 0 <=> pc[-1] = "join"
    /\ pc[0] = "end" => mem.allDone = 1
PillowInv == PillowType /\ ChairInv /\ TurnInv /\ HomeInv

-----------------------------------------------------------------------------
(* smoker.c and consumer_producer.c.                                       *)
SmokingInv ==
    /\ mem = [table |-> mem.table, agnt |-> mem.agnt, x |-> mem.x]
    /\ DOMAIN mem.table = Smoking!Types
    /\ \A s \in asleep \cap Smoking!Types : mem.table[s] # 1
    /\ \A s \in Smoking!Types : mem.table[s] \in {0, 1}

RingInv ==
    /\ pc \in [{1, 2} -> {"lock", "signal", "end"}]
    /\ mem = [queue |-> mem.queue, head |-> mem.head, tail |-> mem.tail,
              count |-> mem.count, made |-> mem.made, got |-> mem.got]
    /\ Ring!NobodyOversleeps
    /\ \A t \in asleep : pc[t] = "lock"

(* consumer_producer.c: places 0 to MAX - 1 are filled and emptied once.   *)
RingOrder ==
    /\ mem.made \in 0 .. MAX /\ mem.count \in 0 .. mem.made
    /\ mem.queue \in [0 .. MAX - 1 -> Int] /\ mem.got \in Seq(Int)
    /\ Len(mem.got) = mem.made - mem.count
    /\ mem.tail = IF mem.made = MAX THEN 0 ELSE mem.made
    /\ mem.head = IF mem.made - mem.count = MAX THEN 0 ELSE mem.made - mem.count
    /\ \A k \in mem.made - mem.count .. mem.made - 1 : mem.queue[k] = k
    /\ \A k \in 1 .. mem.made - mem.count : mem.got[k] = k - 1
    /\ pc[1] = "lock" => mem.made < MAX

-----------------------------------------------------------------------------
(* cron.c: what cron_sleep waits for is never later than the first second  *)
(* of the next minute; flags and jobs are seen to before they are cleared. *)
PlanInv ==
    pc["main"] \in {"select", "signals", "adjust"}
      \/ (pc["main"] = "loop" /\ mem.tv > 0) \/ (pc["main"] = "reap" /\ mem.back = "adjust") =>
        mem.t1 + mem.tv <= (mem.timeRunning + 1) * SECONDS + 1
DaemonType ==
    /\ pc = [t \in {"main", "at"} |-> pc[t]]
    /\ mem = [now |-> mem.now, timeRunning |-> mem.timeRunning, t1 |-> mem.t1, tv |-> mem.tv,
              since |-> mem.since, got_sigchld |-> mem.got_sigchld, unborn |-> mem.unborn, alive |-> mem.alive,
              zombies |-> mem.zombies, back |-> mem.back, pokes |-> mem.pokes,
              spooled |-> mem.spooled, known |-> mem.known]
    /\ mem.now \in Nat /\ mem.timeRunning \in Nat /\ mem.t1 \in Nat /\ mem.tv \in Int
    /\ mem.since \in Nat
    /\ mem.pokes \in Nat /\ mem.back \in {"adjust", "load"} /\ mem.got_sigchld \in BOOLEAN
    /\ mem.spooled \in BOOLEAN /\ mem.known \in BOOLEAN
DaemonInv ==
    /\ DaemonType
    /\ mem.t1 <= mem.now /\ mem.since <= mem.now
    /\ pc["main"] = "select" => mem.tv > 0
    /\ mem.zombies # {} => mem.got_sigchld \/ pc["main"] = "reap"
    /\ pc["at"] = "idle" => ~mem.spooled
    /\ pc["at"] = "poked" /\ mem.spooled => mem.pokes > 0
    /\ PlanInv

-----------------------------------------------------------------------------
(* sleepingBarber.c: the barber has declared himself ready as often as the *)
(* mutex is free and customers are through, but for the first of them.     *)
Awaiting == At(Ready!Customers, {"await"})
Through == At(Ready!Customers, {"through"})
ReadyPlaces ==
    /\ pc \in [0 .. Clients -> {"sleep", "seats", "enter", "await", "through", "left"}]
    /\ pc[0] \in {"sleep", "seats"}
    /\ \A c \in Ready!Customers : pc[c] \notin {"sleep", "seats"}
ReadyInv ==
    /\ ReadyPlaces
    /\ sem \in [{"barberReady", "custReady"} -> Nat]
    /\ mem \in [freeSeats : Nat]
    /\ mem.freeSeats + sem["custReady"] + (IF pc[0] = "seats" THEN 1 ELSE 0) = Seats
    /\ sem["barberReady"] <= mem.freeSeats - Seats + Cardinality(Awaiting) + 1

-----------------------------------------------------------------------------
(* producerConsumer.c: the semaphores count the places on the stack, but   *)
(* for those that a thread has asked for or is about to post.              *)
Busy(t, l) == IF pc[t] = l THEN 1 ELSE 0
Kept(s) == {s[k] : k \in DOMAIN s}
StackType ==
    /\ pc \in [{1, 2} -> {"down", "add", "take", "up", "end"}]
    /\ pc[1] # "take" /\ pc[2] # "add"
    /\ sem \in [{"empty_count", "full_count"} -> Nat]
    /\ mem \in [items : Seq(Nat), made : Nat, got : Seq(Nat)]
StackCounts ==
    /\ sem["full_count"] + Busy(1, "up") + Busy(2, "take") = Len(mem.items)
    /\ sem["empty_count"] + Busy(1, "add") + Busy(2, "up") + Len(mem.items) = BUF_SIZE
StackHolds ==
    /\ Kept(mem.got) \cup Kept(mem.items) = 0 .. mem.made - 1
    /\ Len(mem.got) + Len(mem.items) = mem.made
StackInv == StackType /\ StackCounts /\ StackHolds

-----------------------------------------------------------------------------
(* proca.c: what was received and what is in the queue is what was sent,   *)
(* after what had been left behind.                                        *)
Due(old, k) == IF k <= Len(old) THEN old[k] ELSE k - Len(old)
Flow(old, got, queue) ==
    /\ \A k \in 1 .. Len(got) : got[k] = Due(old, k)
    /\ \A k \in 1 .. Len(queue) : queue[k] = Due(old, Len(got) + k)
MailedType ==
    /\ pc \in [{"son", "father"} -> {"round", "remove", "end"}]
    /\ mem \in [queue : Seq(Int), old : Seq(Int), there : BOOLEAN, sent : Nat, got : Seq(Int)]
    /\ pc["son"] = IF mem.sent = Messages THEN "end" ELSE "round"
    /\ pc["father"] = IF ~mem.there THEN "end"
                      ELSE IF Len(mem.got) = Messages THEN "remove" ELSE "round"
MailedCounts ==
    /\ mem.sent <= Messages /\ Len(mem.got) <= Messages
    /\ mem.there => Len(mem.got) + Len(mem.queue) = Len(mem.old) + mem.sent
    /\ ~mem.there => /\ Len(mem.got) = Messages /\ mem.queue = <<>>
                     /\ Messages <= Len(mem.old) + mem.sent
MailedInv == MailedType /\ MailedCounts /\ Flow(mem.old, mem.got, mem.queue)

-----------------------------------------------------------------------------
(* simple-barber.c: one process has the lock on the seats and, between its *)
(* read and its write, the number; the number is of the seats but those of *)
(* the customers the barber has not counted off yet, and those who wait    *)
(* are as many as he has not called.                                       *)
Locked == {"read", "write", "notify", "unlock", "giveup", "ready"}
Company == 0 .. Guests
BarberAt(L) == IF pc[0] \in L THEN 1 ELSE 0
GuestsAt(L) == Cardinality(At(Pipes!Customers, L))
Pending == sem["customers"] + BarberAt({"lock", "read", "write"}) + GuestsAt({"notify"})
Allowed(t) ==
    IF t = 0 THEN {"get", "lock", "read", "write", "ready", "unlock", "end"}
    ELSE {"lock", "read", "write", "notify", "unlock", "giveup", "await", "end"}
PipesPlaces ==
    /\ pc = [t \in Company |-> pc[t]]
    /\ \A t \in Company : pc[t] \in Allowed(t)
PipesData ==
    /\ sem \in [{"seats", "customers", "barber"} -> Nat]
    /\ mem \in [freeseats : Seq(Int), num : [Company -> Int], i : [Company -> Int]]
SeatLock ==
    /\ sem["seats"] = IF \E t \in Company : pc[t] \in Locked THEN 0 ELSE 1
    /\ \A t, u \in Company : pc[t] \in Locked /\ pc[u] \in Locked => u = t
NumberInv ==
    /\ Pending \in 0 .. Places
    /\ \A t \in Company : pc[t] = "write" => mem.freeseats = <<>> /\ mem.num[t] = Places - Pending
    /\ (\A t \in Company : pc[t] # "write") => mem.freeseats = <<Places - Pending>>
CalledInv ==
    GuestsAt({"await", "unlock"})
      = sem["customers"] + BarberAt({"lock", "read", "write", "ready"}) + sem["barber"]
PipesInv == PipesPlaces /\ PipesData /\ SeatLock /\ NumberInv /\ CalledInv

-----------------------------------------------------------------------------
(* The philosophers with one semaphore per fork.                           *)
LEMMA ForkPairs ==
    ASSUME NEW k \in Sat, mem.table \in {"room", "open", "hierarchy"}
    PROVE  /\ Table!First(k) \in Sat /\ Table!Second(k) \in Sat
           /\ Table!First(k) # Table!Second(k)
           /\ (k + 1) % Forks \in Sat /\ (k + 1) % Forks # k
           /\ \E f \in Sat : /\ f \in {Table!First(k), Table!Second(k)}
                             /\ f \in {Table!First((k + 1) % Forks), Table!Second((k + 1) % Forks)}
<1>1. Forks \in Nat /\ Forks > 1 /\ k \in 0 .. Forks - 1 /\ Sat = 0 .. Forks - 1
  BY IpcAssumption DEF Sat, Table!Philosophers
<1>2. (k + 1) % Forks = IF k = Forks - 1 THEN 0 ELSE k + 1
  BY <1>1
<1>3. (k + 1) % Forks \in Sat /\ (k + 1) % Forks # k
  BY <1>1, <1>2
<1>4. CASE mem.table # "hierarchy"
  BY <1>1, <1>2, <1>3, <1>4 DEF Table!First, Table!Second
<1>5. CASE mem.table = "hierarchy"
  <2>1. /\ {Table!First(k), Table!Second(k)} = {k, Table!rightfork(k)}
        /\ Table!First(k) # Table!Second(k)
        /\ Table!First(k) \in Sat /\ Table!Second(k) \in Sat
    BY <1>1, <1>5 DEF Table!First, Table!Second, Table!Smaller, Table!rightfork
  <2>2. k \in {Table!First((k + 1) % Forks), Table!Second((k + 1) % Forks)}
    BY <1>1, <1>2, <1>5 DEF Table!First, Table!Second, Table!Smaller, Table!rightfork
  <2> QED
    BY <1>3, <2>1, <2>2
<1> QED
  BY <1>4, <1>5

LEMMA TableApart == TableInv => Table!NeighboursApart
<1> SUFFICES ASSUME TableInv, NEW k \in Sat, pc[k] = "eat", pc[(k + 1) % Forks] = "eat"
             PROVE  FALSE
  BY DEF Table!NeighboursApart, Sat
<1>1. mem.table \in {"room", "open", "hierarchy"}
  BY DEF TableInv, TableType
<1>2. PICK f \in Sat : /\ f \in {Table!First(k), Table!Second(k)}
                       /\ f \in {Table!First((k + 1) % Forks), Table!Second((k + 1) % Forks)}
  BY <1>1, ForkPairs
<1>3. Holds(k, f) /\ Holds((k + 1) % Forks, f)
  BY <1>2 DEF Holds
<1>4. (k + 1) % Forks \in Sat /\ (k + 1) % Forks # k
  BY <1>1, ForkPairs
<1> QED
  BY <1>3, <1>4 DEF TableInv, ForkInv

LEMMA TableStart == Table!Init => TableInv
<1> SUFFICES ASSUME Table!Init PROVE TableInv
  OBVIOUS
<1>1. Forks \in Nat /\ Sat = 0 .. Forks - 1 /\ Forks \notin Sat
  BY IpcAssumption DEF Sat, Table!Philosophers
<1>2. TableType
  BY <1>1, IpcAssumption DEF Table!Init, TableType, Table!Room, Sat
<1>3. \A k \in Sat : pc[k] = "think"
  BY DEF Table!Init, Sat
<1>4. \A f \in Sat : sem[f] = 1
  BY <1>1 DEF Table!Init, Sat, Table!Room
<1> QED
  BY <1>2, <1>3, <1>4 DEF TableInv, ForkInv, Holds

LEMMA TableStep == TableInv /\ Table!Next => TableInv'
<1> SUFFICES ASSUME TableInv, NEW k \in Sat,
                    \/ Table!EnterRoom(k) \/ Table!TakeFirst(k) \/ Table!TakeSecond(k)
                    \/ Table!PutOne(k) \/ Table!PutOther(k) \/ Table!LeaveRoom(k)
             PROVE  TableInv'
  BY DEF Table!Next, Sat
<1>1. Forks \in Nat /\ Forks > 1 /\ k \in 0 .. Forks - 1 /\ Sat = 0 .. Forks - 1 /\ Forks \notin Sat
  BY IpcAssumption DEF Sat, Table!Philosophers
<1>2. TableType /\ ForkInv
  BY DEF TableInv
<1>3. mem'.table = mem.table /\ mem' = [table |-> mem'.table, meals |-> mem'.meals]
  BY <1>2 DEF TableType, Table!EnterRoom, Table!TakeFirst, Table!TakeSecond,
              Table!PutOne, Table!PutOther, Table!LeaveRoom
<1>4. /\ Table!First(k) \in Sat /\ Table!Second(k) \in Sat
      /\ Table!First(k) # Table!Second(k)
  BY <1>2, ForkPairs DEF TableType
<1>5. TableType'
  <2>1. pc' \in [Sat -> {"think", "first", "second", "eat", "put", "leave", "end"}]
    BY <1>1, <1>2 DEF TableType, Table!EnterRoom, Table!TakeFirst, Table!TakeSecond,
              Table!PutOne, Table!PutOther, Table!LeaveRoom, Table!Go
  <2>2. \/ UNCHANGED sem
        \/ \E f \in 0 .. Forks : \/ sem[f] > 0 /\ sem' = [sem EXCEPT ![f] = @ - 1]
                                \/ sem' = [sem EXCEPT ![f] = @ + 1]
    BY <1>1, <1>4 DEF Table!EnterRoom, Table!TakeFirst, Table!TakeSecond,
              Table!PutOne, Table!PutOther, Table!LeaveRoom, Table!Down, Table!Up, Table!Room
  <2>3. sem' \in [0 .. Forks -> Nat]
    BY <1>2, <2>2 DEF TableType
  <2> QED
    BY <1>2, <1>3, <2>1, <2>3 DEF TableType
(* The others keep what they hold; k takes a free fork, or gives one back. *)
<1>6. ASSUME NEW l \in Sat, NEW f \in Sat, l # k PROVE Holds(l, f)' <=> Holds(l, f)
  BY <1>2, <1>3, <1>6 DEF Holds, TableType, Table!First, Table!Second,
              Table!EnterRoom, Table!TakeFirst, Table!TakeSecond,
              Table!PutOne, Table!PutOther, Table!LeaveRoom, Table!Go
<1>7. CASE Table!EnterRoom(k) \/ Table!LeaveRoom(k)
  <2>1. \A f \in Sat : ~Holds(k, f) /\ ~Holds(k, f)'
    BY <1>2, <1>7 DEF Holds, TableType, Table!EnterRoom, Table!LeaveRoom, Table!Go
  <2>2. \A f \in Sat : sem'[f] = sem[f]
    BY <1>1, <1>2, <1>7 DEF TableType, Table!EnterRoom, Table!LeaveRoom, Table!Down, Table!Up, Table!Room
  <2> QED
    BY <1>2, <1>5, <1>6, <2>1, <2>2 DEF TableInv, ForkInv
<1>8. CASE Table!TakeFirst(k) \/ Table!TakeSecond(k)
  <2>1. PICK g \in Sat : /\ sem[g] > 0 /\ sem' = [sem EXCEPT ![g] = @ - 1]
                         /\ \A f \in Sat : Holds(k, f)' <=> Holds(k, f) \/ f = g
    BY <1>2, <1>3, <1>4, <1>8 DEF Holds, TableType, Table!TakeFirst, Table!TakeSecond,
              Table!Go, Table!Down, Table!First, Table!Second
  <2>2. \A l \in Sat : ~Holds(l, g)
    BY <1>2, <2>1 DEF ForkInv
  <2>3. \A f \in Sat : sem'[f] = IF f = g THEN sem[g] - 1 ELSE sem[f]
    BY <1>1, <1>2, <2>1 DEF TableType
  <2>4. sem'[g] = 0
    BY <1>1, <1>2, <2>1, <2>3 DEF TableType, ForkInv
  <2>5. ForkInv'
    BY <1>2, <1>6, <2>1, <2>2, <2>3, <2>4 DEF ForkInv
  <2> QED
    BY <1>5, <2>5 DEF TableInv
<1>9. CASE Table!PutOne(k) \/ Table!PutOther(k)
  <2>1. PICK g \in Sat : /\ Holds(k, g) /\ sem' = [sem EXCEPT ![g] = @ + 1]
                         /\ \A f \in Sat : Holds(k, f)' <=> Holds(k, f) /\ f # g
    BY <1>2, <1>3, <1>4, <1>9 DEF Holds, TableType, Table!PutOne, Table!PutOther,
              Table!Go, Table!Up, Table!First, Table!Second
  <2>2. \A l \in Sat : Holds(l, g) => l = k
    BY <1>2, <2>1 DEF ForkInv
  <2>3. \A f \in Sat : sem'[f] = IF f = g THEN sem[g] + 1 ELSE sem[f]
    BY <1>1, <1>2, <2>1 DEF TableType
  <2>4. sem[g] = 0 /\ sem'[g] = 1
    BY <1>2, <2>1, <2>3 DEF ForkInv
  <2>5. ForkInv'
    BY <1>2, <1>6, <2>1, <2>2, <2>3, <2>4 DEF ForkInv
  <2> QED
    BY <1>5, <2>5 DEF TableInv
<1> QED
  BY <1>7, <1>8, <1>9

-----------------------------------------------------------------------------
(* The monitor with the chopsticks.                                        *)
LEMMA Neighbours ==
    ASSUME NEW i \in Diners
    PROVE  /\ Monitor!LEFT(i) \in Diners /\ Monitor!RIGHT(i) \in Diners
           /\ Beside(i) \subseteq Diners /\ i \notin Beside(i)
           /\ \A j \in Diners : j \in Beside(i) <=> i \in Beside(j)
<1>1. NTHREADS \in Nat /\ NTHREADS > 1 /\ Diners = 0 .. NTHREADS - 1
  BY IpcAssumption DEF Diners, Monitor!Philosophers
<1>2. \A j \in Diners :
        /\ Monitor!RIGHT(j) = IF j = NTHREADS - 1 THEN 0 ELSE j + 1
        /\ Monitor!LEFT(j) = IF j = 0 THEN NTHREADS - 1 ELSE j - 1
  <2> TAKE j \in Diners
  <2>1. (j + 1) % NTHREADS = IF j + 1 < NTHREADS THEN j + 1 ELSE j + 1 - NTHREADS
    BY <1>1
  <2>2. (j + NTHREADS - 1) % NTHREADS
          = IF j + NTHREADS - 1 < NTHREADS THEN j + NTHREADS - 1 ELSE j - 1
    BY <1>1
  <2> QED
    BY <1>1, <2>1, <2>2 DEF Monitor!RIGHT, Monitor!LEFT
<1> QED
  BY <1>1, <1>2 DEF Beside

(* update_state lets i eat when neither neighbour does; it disturbs nobody *)
(* else, and afterwards i is not left hungry beside two who do not eat.    *)
LEMMA Update ==
    ASSUME NEW s \in [Diners -> Moods], NEW i \in Diners, Peaceful(s),
           NEW t, t = Monitor!update_state(s, i)
    PROVE  /\ t \in [Diners -> Moods] /\ Peaceful(t)
           /\ \A j \in Diners :
                t[j] = s[j] \/ (j = i /\ s[j] = "HUNGRY" /\ t[j] = "EATING")
           /\ Attended(t, i)
           /\ \A j \in Diners : Attended(s, j) => Attended(t, j)
<1>1. \A j \in Diners : /\ Beside(j) \subseteq Diners /\ j \notin Beside(j)
                        /\ \A l \in Diners : l \in Beside(j) <=> j \in Beside(l)
  BY Neighbours
<1>2. CASE s[i] = "HUNGRY" /\ \A j \in Beside(i) : s[j] # "EATING"
  <2>1. t = [s EXCEPT ![i] = "EATING"]
    BY <1>2 DEF Monitor!update_state, Beside
  <2>2. \A j \in Diners : t[j] = IF j = i THEN "EATING" ELSE s[j]
    BY <2>1
  <2>3. t \in [Diners -> Moods]
    BY <2>1 DEF Moods
  <2>4. Peaceful(t)
    BY <1>1, <1>2, <2>2 DEF Peaceful
  <2>5. \A j \in Diners : Attended(s, j) => Attended(t, j)
    BY <1>1, <1>2, <2>2 DEF Attended
  <2> QED
    BY <1>2, <2>2, <2>3, <2>4, <2>5 DEF Attended
<1>3. CASE ~(s[i] = "HUNGRY" /\ \A j \in Beside(i) : s[j] # "EATING")
  <2>1. t = s
    BY <1>3 DEF Monitor!update_state, Beside
  <2> QED
    BY <1>3, <2>1 DEF Attended
<1> QED
  BY <1>2, <1>3

LEMMA MonitorApart == MonitorInv => Monitor!NeighboursApart /\ Monitor!NobodyForgotten
<1> SUFFICES ASSUME MonitorInv PROVE Monitor!NeighboursApart /\ Monitor!NobodyForgotten
  OBVIOUS
<1>1. ASSUME NEW i \in Diners, pc[i] \in {"eating", "put"},
             pc[Monitor!RIGHT(i)] \in {"eating", "put"}
      PROVE  FALSE
  <2>1. Monitor!RIGHT(i) \in Diners /\ Monitor!RIGHT(i) \in Beside(i)
    BY Neighbours DEF Beside
  <2>2. mem.state[i] = "EATING" /\ mem.state[Monitor!RIGHT(i)] = "EATING"
    BY <1>1, <2>1 DEF MonitorInv, MonitorType, Fits
  <2> QED
    BY <2>1, <2>2 DEF MonitorInv, Peaceful
<1>2. ASSUME NEW i \in asleep
      PROVE  mem.state[i] = "HUNGRY" /\ \E j \in Beside(i) : mem.state[j] = "EATING"
  BY <1>2 DEF MonitorInv, MonitorType, Attended
<1> QED
  BY <1>1, <1>2 DEF Monitor!NeighboursApart, Monitor!NobodyForgotten, Diners, Beside

LEMMA MonitorStart == Monitor!Init => MonitorInv
BY DEF Monitor!Init, MonitorInv, MonitorType, Diners, Moods, Fits, Peaceful, Attended

LEMMA MonitorStep == MonitorInv /\ Monitor!Next => MonitorInv'
<1> SUFFICES ASSUME MonitorInv, NEW i \in Diners,
                    \/ Monitor!Trace(i, "thinking", "take") \/ Monitor!Trace(i, "eating", "put")
                    \/ Monitor!chopsticks_take(i) \/ Monitor!Wake(i) \/ Monitor!chopsticks_put(i)
             PROVE  MonitorInv'
  BY DEF Monitor!Next, Diners
<1>1. MonitorType /\ mem.state \in [Diners -> Moods] /\ Peaceful(mem.state)
  BY DEF MonitorInv, MonitorType
<1>2. \A j \in Diners : Attended(mem.state, j)
  BY DEF MonitorInv
<1>3. \A j \in asleep : j \in Diners /\ mem.state[j] = "HUNGRY" /\ pc[j] = "wait"
  BY DEF MonitorInv, MonitorType, Fits
<1>4. \A j \in Diners : /\ Beside(j) \subseteq Diners /\ j \notin Beside(j)
                        /\ \A l \in Diners : l \in Beside(j) <=> j \in Beside(l)
  BY Neighbours
(* It is enough to look at the new state of the philosophers.              *)
<1>5. ASSUME NEW s, s \in [Diners -> Moods], mem' = [state |-> s, nsteps |-> mem'.nsteps],
             Peaceful(s), \A j \in Diners : Attended(s, j), NEW to,
             to \in {"thinking", "take", "wait", "eating", "put", "end"},
             pc' = [pc EXCEPT ![i] = to], Fits(to, s[i]),
             \A j \in Diners \ {i} : Fits(pc[j], s[j]),
             asleep' \subseteq Diners, \A j \in asleep' : s[j] = "HUNGRY"
      PROVE  MonitorInv'
  <2>1. mem'.state = s
    BY <1>5
  <2>2. MonitorType'
    BY <1>1, <1>5, <2>1 DEF MonitorType
  <2> QED
    BY <1>5, <2>1, <2>2 DEF MonitorInv
<1>6. CASE Monitor!Trace(i, "thinking", "take") \/ Monitor!Trace(i, "eating", "put")
  <2>1. /\ mem' = [state |-> mem.state, nsteps |-> mem'.nsteps] /\ asleep' = asleep
        /\ \E to \in {"take", "put", "end"} :
              pc' = [pc EXCEPT ![i] = to] /\ Fits(to, mem.state[i])
    BY <1>1, <1>6 DEF MonitorType, Monitor!Trace, Monitor!Go, Fits
  <2>2. \A j \in Diners : Fits(pc[j], mem.state[j])
    BY <1>1 DEF MonitorType
  <2> QED
    BY <1>1, <1>2, <1>3, <1>5, <2>1, <2>2
<1>7. CASE Monitor!chopsticks_take(i)
  <2> DEFINE hungry == [mem.state EXCEPT ![i] = "HUNGRY"]
             state == Monitor!update_state(hungry, i)
  <2>1. pc[i] = "take" /\ mem.state[i] = "THINKING"
    BY <1>1, <1>7 DEF Monitor!chopsticks_take, Monitor!Go, MonitorType, Fits
  <2>2. /\ hungry \in [Diners -> Moods]
        /\ \A j \in Diners : hungry[j] = IF j = i THEN "HUNGRY" ELSE mem.state[j]
    BY <1>1 DEF Moods
  <2>3. Peaceful(hungry)
    BY <1>1, <1>4, <2>1, <2>2 DEF Peaceful
  <2>4. \A j \in Diners \ {i} : Attended(hungry, j)
    BY <1>2, <1>4, <2>1, <2>2 DEF Attended
  <2>5. /\ state \in [Diners -> Moods] /\ Peaceful(state)
        /\ \A j \in Diners :
             state[j] = hungry[j] \/ (j = i /\ hungry[j] = "HUNGRY" /\ state[j] = "EATING")
        /\ Attended(state, i)
        /\ \A j \in Diners : Attended(hungry, j) => Attended(state, j)
    <3> HIDE DEF hungry
    <3> QED
      BY <2>2, <2>3, Update
  <2>6. /\ mem' = [mem EXCEPT !.state = state]
        /\ pc' = [pc EXCEPT ![i] = IF state[i] = "HUNGRY" THEN "wait" ELSE "eating"]
        /\ asleep' = IF state[i] = "HUNGRY" THEN asleep \cup {i} ELSE asleep
    BY <1>7 DEF Monitor!chopsticks_take, Monitor!Go
  <2> HIDE DEF hungry, state
  <2>7. mem' = [state |-> state, nsteps |-> mem'.nsteps]
    BY <1>1, <2>6 DEF MonitorType
  <2>8. \A j \in Diners \ {i} : state[j] = mem.state[j]
    BY <2>2, <2>5
  <2>9. state[i] \in {"HUNGRY", "EATING"}
    BY <2>2, <2>5
  <2>10. \A j \in Diners : Fits(pc[j], mem.state[j])
    BY <1>1 DEF MonitorType
  <2>11. \A j \in asleep' : j \in Diners /\ state[j] = "HUNGRY"
    BY <1>3, <2>1, <2>6, <2>8
  <2>12. Fits(IF state[i] = "HUNGRY" THEN "wait" ELSE "eating", state[i])
    BY <2>9 DEF Fits
  <2>13. \A j \in Diners : Attended(state, j)
    BY <2>4, <2>5
  <2>14. \A j \in Diners \ {i} : Fits(pc[j], state[j])
    BY <2>8, <2>10
  <2> DEFINE to == IF state[i] = "HUNGRY" THEN "wait" ELSE "eating"
  <2>15. /\ to \in {"thinking", "take", "wait", "eating", "put", "end"}
         /\ pc' = [pc EXCEPT ![i] = to] /\ Fits(to, state[i])
    BY <2>6, <2>12
  <2> HIDE DEF to
  <2> QED
    BY <1>5, <2>5, <2>7, <2>11, <2>13, <2>14, <2>15
<1>8. CASE Monitor!Wake(i)
  <2>1. /\ mem' = [state |-> mem.state, nsteps |-> mem'.nsteps]
        /\ \E to \in {"wait", "eating"} :
              pc' = [pc EXCEPT ![i] = to] /\ Fits(to, mem.state[i])
    BY <1>1, <1>8 DEF MonitorType, Monitor!Wake, Monitor!Go, Fits
  <2>2. \A j \in asleep' : j \in Diners /\ mem.state[j] = "HUNGRY"
    BY <1>3, <1>8 DEF Monitor!Wake
  <2>3. \A j \in Diners : Fits(pc[j], mem.state[j])
    BY <1>1 DEF MonitorType
  <2> QED
    BY <1>1, <1>2, <1>5, <2>1, <2>2, <2>3
<1>9. CASE Monitor!chopsticks_put(i)
  <2> DEFINE down == [mem.state EXCEPT ![i] = "THINKING"]
             left == Monitor!update_state(down, Monitor!LEFT(i))
             state == Monitor!update_state(left, Monitor!RIGHT(i))
  <2>1. pc[i] = "put" /\ mem.state[i] = "EATING"
    BY <1>1, <1>9 DEF Monitor!chopsticks_put, Monitor!Go, MonitorType, Fits
  <2>2. /\ down \in [Diners -> Moods]
        /\ \A j \in Diners : down[j] = IF j = i THEN "THINKING" ELSE mem.state[j]
    BY <1>1 DEF Moods
  <2>3. Peaceful(down)
    BY <1>1, <1>4, <2>1, <2>2 DEF Peaceful
  <2>4. \A j \in Diners \ Beside(i) : Attended(down, j)
    BY <1>2, <1>4, <2>1, <2>2 DEF Attended
  <2>5. Monitor!LEFT(i) \in Diners /\ Monitor!RIGHT(i) \in Diners
    BY Neighbours
  <2>6. /\ left \in [Diners -> Moods] /\ Peaceful(left)
        /\ \A j \in Diners :
             left[j] = down[j] \/ (j = Monitor!LEFT(i) /\ down[j] = "HUNGRY" /\ left[j] = "EATING")
        /\ Attended(left, Monitor!LEFT(i))
        /\ \A j \in Diners : Attended(down, j) => Attended(left, j)
    <3> HIDE DEF down
    <3> QED
      BY <2>2, <2>3, <2>5, Update
  <2>7. /\ state \in [Diners -> Moods] /\ Peaceful(state)
        /\ \A j \in Diners :
             state[j] = left[j] \/ (j = Monitor!RIGHT(i) /\ left[j] = "HUNGRY" /\ state[j] = "EATING")
        /\ Attended(state, Monitor!RIGHT(i))
        /\ \A j \in Diners : Attended(left, j) => Attended(state, j)
    <3> HIDE DEF left
    <3> QED
      BY <2>5, <2>6, Update
  <2>8. /\ mem' = [mem EXCEPT !.state = state]
        /\ pc' = [pc EXCEPT ![i] = "thinking"]
        /\ asleep' = asleep \ {j \in Beside(i) : state[j] # down[j]}
    BY <1>9 DEF Monitor!chopsticks_put, Monitor!Go, Beside
  <2> HIDE DEF down, left, state
  <2>9. mem' = [state |-> state, nsteps |-> mem'.nsteps]
    BY <1>1, <2>8 DEF MonitorType
  <2>10. \A j \in Diners :
           \/ state[j] = down[j]
           \/ j \in Beside(i) /\ down[j] = "HUNGRY" /\ state[j] = "EATING"
    BY <2>6, <2>7 DEF Beside
  <2>11. \A j \in Diners : Attended(state, j)
    BY <2>4, <2>6, <2>7 DEF Beside
  <2>12. \A j \in Diners \ {i} : Fits(pc[j], state[j])
    <3>1. \A j \in Diners : Fits(pc[j], mem.state[j])
      BY <1>1 DEF MonitorType
    <3> QED
      BY <2>2, <2>10, <3>1 DEF Fits
  <2>13. Fits("thinking", state[i])
    BY <1>4, <2>2, <2>10 DEF Fits
  <2>14. \A j \in asleep' : j \in Diners /\ state[j] = "HUNGRY"
    BY <1>3, <2>1, <2>2, <2>8, <2>10
  <2> QED
    BY <1>5, <2>7, <2>8, <2>9, <2>11, <2>12, <2>13, <2>14
<1> QED
  BY <1>6, <1>7, <1>8, <1>9

-----------------------------------------------------------------------------
(* The smokers and the ring buffer.                                        *)
LEMMA SmokingAwake == SmokingInv => Smoking!NobodyOversleeps
BY DEF SmokingInv, Smoking!NobodyOversleeps

LEMMA SmokingStart == Smoking!Init => SmokingInv
BY DEF Smoking!Init, SmokingInv, Smoking!Types

LEMMA SmokingStep == SmokingInv /\ Smoking!Next => SmokingInv'
<1> SUFFICES ASSUME SmokingInv, Smoking!Next PROVE SmokingInv'
  OBVIOUS
<1>1. CASE Smoking!putdown
  <2>1. CASE mem.agnt # 1
    BY <1>1, <2>1 DEF Smoking!putdown, SmokingInv, Smoking!Types, Smoking!Agent
  <2>2. CASE mem.agnt = 1
    <3>1. PICK type \in Smoking!Types : mem' = [mem EXCEPT !.table[type] = 1, !.x = @ + 1]
      BY <1>1, <2>2 DEF Smoking!putdown
    <3>2. asleep' \cap Smoking!Types = {}
      BY <1>1, <2>2 DEF Smoking!putdown, Smoking!Broadcast
    <3>3. mem' = [table |-> [mem.table EXCEPT ![type] = 1], agnt |-> mem.agnt, x |-> mem.x + 1]
      BY <3>1 DEF SmokingInv
    <3> QED
      BY <3>2, <3>3 DEF SmokingInv
  <2> QED
    BY <2>1, <2>2
<1>2. ASSUME NEW s \in Smoking!Types, Smoking!pickup(s) PROVE SmokingInv'
  <2>1. CASE mem.table[s] # 1
    BY <1>2, <2>1 DEF Smoking!pickup, SmokingInv
  <2>2. CASE mem.table[s] = 1
    <3>1. asleep' \cap Smoking!Types = {}
      BY <1>2, <2>2 DEF Smoking!pickup, Smoking!Broadcast
    <3>2. mem' = [table |-> [mem.table EXCEPT ![s] = 0], agnt |-> 1, x |-> mem.x]
      BY <1>2, <2>2 DEF Smoking!pickup, SmokingInv
    <3> QED
      BY <3>1, <3>2 DEF SmokingInv
  <2> QED
    BY <2>1, <2>2
<1>3. CASE Smoking!Exit
  BY <1>3 DEF Smoking!Exit, SmokingInv
<1> QED
  BY <1>1, <1>2, <1>3 DEF Smoking!Next

LEMMA RingStart == Ring!Init => RingInv
BY DEF Ring!Init, RingInv, Ring!NobodyOversleeps, Ring!producer, Ring!consumer

LEMMA RingStep == RingInv /\ Ring!Next => RingInv'
<1> SUFFICES ASSUME RingInv, Ring!Next PROVE RingInv'
  OBVIOUS
<1> USE DEF Ring!producer, Ring!consumer
<1>1. CASE Ring!Produce
  <2>1. CASE mem.count = MAX
    BY <1>1, <2>1 DEF Ring!Produce, Ring!SleepOn, Ring!Go, RingInv, Ring!NobodyOversleeps
  <2>2. CASE mem.count # MAX
    <3>1. /\ pc' = [pc EXCEPT ![Ring!producer] = "signal"] /\ pc[Ring!producer] = "lock"
          /\ asleep' = asleep /\ Ring!producer \notin asleep
          /\ mem' = [queue |-> mem'.queue, head |-> mem'.head, tail |-> mem'.tail,
                     count |-> mem'.count, made |-> mem'.made, got |-> mem'.got]
      BY <1>1, <2>2 DEF Ring!Produce, Ring!Go, Ring!Woken, RingInv
    <3> QED
      BY <3>1 DEF RingInv, Ring!NobodyOversleeps
  <2> QED
    BY <2>1, <2>2
<1>2. CASE Ring!Consume
  <2>1. CASE mem.count = 0
    BY <1>2, <2>1 DEF Ring!Consume, Ring!SleepOn, Ring!Go, RingInv, Ring!NobodyOversleeps
  <2>2. CASE mem.count # 0
    <3>1. /\ pc' = [pc EXCEPT ![Ring!consumer] = "signal"] /\ pc[Ring!consumer] = "lock"
          /\ asleep' = asleep /\ Ring!consumer \notin asleep
          /\ mem' = [queue |-> mem'.queue, head |-> mem'.head, tail |-> mem'.tail,
                     count |-> mem'.count, made |-> mem'.made, got |-> mem'.got]
      BY <1>2, <2>2 DEF Ring!Consume, Ring!Go, Ring!Woken, RingInv
    <3> QED
      BY <3>1 DEF RingInv, Ring!NobodyOversleeps
  <2> QED
    BY <2>1, <2>2
<1>3. CASE Ring!SignalConsumer
  BY <1>3 DEF Ring!SignalConsumer, Ring!Signal, Ring!Round, Ring!Go, RingInv, Ring!NobodyOversleeps
<1>4. CASE Ring!SignalProducer
  BY <1>4 DEF Ring!SignalProducer, Ring!Signal, Ring!Round, Ring!Go, RingInv, Ring!NobodyOversleeps
<1> QED
  BY <1>1, <1>2, <1>3, <1>4 DEF Ring!Next

-----------------------------------------------------------------------------
(* The sleeping barber.                                                    *)
PillowNames == {"waitingRoom", "barberChair", "barberPillow", "seatBelt"}

Moved(t, from, s, to, n) ==
    /\ pc[t] = from /\ mem' = mem /\ pc' = [pc EXCEPT ![t] = to]
    /\ \A u \in -1 .. numCustomers : pc'[u] = IF u = t THEN to ELSE pc[u]
    /\ \A r \in PillowNames \ {s} : sem'[r] = sem[r]
    /\ sem'[s] = sem[s] + n
    /\ sem' \in [PillowNames -> Nat]

LEMMA PillowWaits ==
    ASSUME PillowType, NEW t \in -1 .. numCustomers, NEW from, NEW s \in PillowNames, NEW to,
           Pillow!Waits(t, from, s, to)
    PROVE  Moved(t, from, s, to, -1) /\ sem[s] > 0
<1>1. sem \in [PillowNames -> Nat] /\ DOMAIN pc = -1 .. numCustomers
  BY DEF PillowType, PillowNames
<1> QED
  BY <1>1 DEF Moved, Pillow!Waits, Pillow!Go, Pillow!Down

LEMMA PillowPosts ==
    ASSUME PillowType, NEW t \in -1 .. numCustomers, NEW from, NEW s \in PillowNames, NEW to,
           Pillow!Posts(t, from, s, to)
    PROVE  Moved(t, from, s, to, 1)
<1>1. sem \in [PillowNames -> Nat] /\ DOMAIN pc = -1 .. numCustomers
  BY DEF PillowType, PillowNames
<1> QED
  BY <1>1 DEF Moved, Pillow!Posts, Pillow!Go, Pillow!Up

(* Barber, customers and main are three, each with places of his own.      *)
LEMMA PillowPeople ==
    /\ Heads \subseteq -1 .. numCustomers
    /\ 0 \in -1 .. numCustomers /\ -1 \in -1 .. numCustomers
    /\ 0 \notin Heads /\ -1 \notin Heads /\ -1 # 0
BY IpcAssumption DEF Heads, Pillow!Customers

LEMMA PillowStart == Pillow!Init => PillowInv
<1> SUFFICES ASSUME Pillow!Init PROVE PillowInv
  OBVIOUS
<1>1. /\ pc = [t \in -1 .. numCustomers |->
                 IF t = -1 THEN "join" ELSE IF t = 0 THEN "test" ELSE "arrive"]
  BY DEF Pillow!Init, Pillow!main, Pillow!barber
<1>2. pc[0] = "test" /\ pc[-1] = "join" /\ \A c \in Heads : pc[c] = "arrive"
  BY <1>1, PillowPeople
<1>3. PillowType
  <2>1. pc \in [-1 .. numCustomers ->
                 {"arrive", "place", "chair", "wake", "belt", "rise", "end",
                  "test", "sleep", "look", "cut", "join", "post"}]
    BY <1>1
  <2>2. sem \in [{"waitingRoom", "barberChair", "barberPillow", "seatBelt"} -> Nat]
    <3>1. numChairs \in Nat
      BY IpcAssumption
    <3> QED
      BY <3>1 DEF Pillow!Init
  <2>3. mem \in [allDone : {0, 1}]
    BY DEF Pillow!Init
  <2> QED
    BY <1>2, <2>1, <2>2, <2>3 DEF PillowType
<1> QED
  BY <1>2, <1>3 DEF Pillow!Init, PillowInv, ChairInv, TurnInv, HomeInv, InChair

LEMMA PillowChair == PillowInv => Pillow!InTheChair
<1> SUFFICES ASSUME PillowInv PROVE Pillow!InTheChair
  OBVIOUS
<1>1. Cardinality(At(Heads, InChair)) <= 1
  <2>1. At(Heads, InChair) = {} \/ \E c \in Heads : At(Heads, InChair) = {c}
    BY DEF At, PillowInv, ChairInv
  <2>2. Cardinality(At(Heads, InChair)) \in {0, 1}
    BY <2>1, FS_EmptySet, FS_Singleton
  <2> QED
    BY <2>2
<1>2. Cardinality(At(Heads, InChair))
        = Pillow!Cardinality(Pillow!At(Pillow!Customers, {"chair", "wake", "belt", "rise"}))
  BY Zenon DEF Cardinality, Pillow!Cardinality, At, Pillow!At, Heads, InChair
<1>3. pc[Pillow!barber] \in {"look", "cut"} /\ mem.allDone = 0 =>
         Pillow!At(Pillow!Customers, {"belt"}) # {} /\ sem["seatBelt"] = 0
  BY DEF PillowInv, TurnInv, Pillow!barber, Pillow!At, Heads
<1>4. sem["barberPillow"] + sem["seatBelt"] <= 1
  BY DEF PillowInv, TurnInv, PillowType
<1> QED
  BY <1>1, <1>2, <1>3, <1>4 DEF Pillow!InTheChair

LEMMA PillowTyped ==
    ASSUME PillowType, NEW t \in -1 .. numCustomers, NEW to,
           pc' = [pc EXCEPT ![t] = to], sem' \in [PillowNames -> Nat],
           mem' \in [allDone : {0, 1}],
           t \in Heads => to \in {"place", "end"} \cup InChair,
           t = 0 => to \in {"test", "sleep", "look", "cut", "end"},
           t = -1 => to \in {"post", "end"}
    PROVE  PillowType'
<1>1. t \in Heads \/ t = 0 \/ t = -1
  BY IpcAssumption DEF Heads, Pillow!Customers
<1>2. to \in {"arrive", "place", "chair", "wake", "belt", "rise", "end",
              "test", "sleep", "look", "cut", "join", "post"}
  BY <1>1 DEF InChair
<1>3. \A u \in -1 .. numCustomers : pc'[u] = IF u = t THEN to ELSE pc[u]
  BY DEF PillowType
<1>4. \A c \in Heads : pc'[c] \in {"arrive", "place", "end"} \cup InChair
  BY <1>3, PillowPeople DEF PillowType
<1>5. /\ pc'[0] \in {"test", "sleep", "look", "cut", "end"}
      /\ pc'[-1] \in {"join", "post", "end"}
  BY <1>3, PillowPeople DEF PillowType
<1>6. pc' \in [-1 .. numCustomers ->
                 {"arrive", "place", "chair", "wake", "belt", "rise", "end",
                  "test", "sleep", "look", "cut", "join", "post"}]
  BY <1>2 DEF PillowType
<1> QED
  BY <1>4, <1>5, <1>6 DEF PillowType, PillowNames

LEMMA PillowCustomer ==
    ASSUME PillowInv, NEW c \in Heads, Pillow!Customer(c) PROVE PillowInv'
<1>0. {"waitingRoom", "barberChair", "barberPillow", "seatBelt"} \subseteq PillowNames
  BY DEF PillowNames
<1>1. PillowType /\ ChairInv /\ TurnInv /\ HomeInv
  BY DEF PillowInv
<1>2. c \in -1 .. numCustomers /\ c # 0 /\ c # -1
  BY PillowPeople
<1>3. \A r \in PillowNames : sem[r] \in Nat
  BY <1>1 DEF PillowType, PillowNames
<1>4. mem.allDone \in {0, 1} /\ mem \in [allDone : {0, 1}]
  BY <1>1 DEF PillowType
(* Before the chair nobody is touched but the customer himself.            *)
<1>5. CASE Pillow!TakePlace(c)
  <2>0. Moved(c, "arrive", "waitingRoom", "place", -1) /\ sem["waitingRoom"] > 0
    BY <1>0, <1>1, <1>2, <1>5, PillowWaits DEF Pillow!TakePlace
  <2>1. /\ pc[c] = "arrive" /\ mem' = mem /\ pc' = [pc EXCEPT ![c] = "place"]
        /\ \A u \in -1 .. numCustomers : pc'[u] = IF u = c THEN "place" ELSE pc[u]
        /\ \A r \in PillowNames \ {"waitingRoom"} : sem'[r] = sem[r]
        /\ sem' \in [PillowNames -> Nat]
    BY <1>3, <2>0 DEF Moved, PillowNames
  <2>2. PillowType'
    BY <1>1, <1>2, <1>4, <2>1, PillowTyped
  <2>3. ChairInv' /\ TurnInv' /\ HomeInv'
    BY <1>1, <1>2, <2>1, PillowPeople DEF ChairInv, TurnInv, HomeInv, PillowNames, InChair
  <2> QED
    BY <2>2, <2>3 DEF PillowInv
<1>6. CASE Pillow!TakeChair(c)
  <2>0. Moved(c, "place", "barberChair", "chair", -1) /\ sem["barberChair"] > 0
    BY <1>0, <1>1, <1>2, <1>6, PillowWaits DEF Pillow!TakeChair
  <2>1. /\ pc[c] = "place" /\ mem' = mem /\ pc' = [pc EXCEPT ![c] = "chair"]
        /\ \A u \in -1 .. numCustomers : pc'[u] = IF u = c THEN "chair" ELSE pc[u]
        /\ \A r \in PillowNames \ {"barberChair"} : sem'[r] = sem[r]
        /\ sem["barberChair"] > 0 /\ sem'["barberChair"] = sem["barberChair"] - 1
        /\ sem' \in [PillowNames -> Nat]
    BY <1>3, <2>0 DEF Moved, PillowNames
  <2>2. PillowType'
    BY <1>1, <1>2, <1>4, <2>1, PillowTyped DEF InChair
  <2>3. ChairInv'
    BY <1>1, <1>2, <1>3, <2>1, PillowPeople DEF ChairInv, PillowNames, InChair
  <2>4. TurnInv' /\ HomeInv'
    BY <1>1, <1>2, <2>1, PillowPeople DEF TurnInv, HomeInv, PillowNames
  <2> QED
    BY <2>2, <2>3, <2>4 DEF PillowInv
<1>7. CASE Pillow!GivePlace(c)
  <2>0. Moved(c, "chair", "waitingRoom", "wake", 1)
    BY <1>0, <1>1, <1>2, <1>7, PillowPosts DEF Pillow!GivePlace
  <2>1. /\ pc[c] = "chair" /\ mem' = mem /\ pc' = [pc EXCEPT ![c] = "wake"]
        /\ \A u \in -1 .. numCustomers : pc'[u] = IF u = c THEN "wake" ELSE pc[u]
        /\ \A r \in PillowNames \ {"waitingRoom"} : sem'[r] = sem[r]
        /\ sem' \in [PillowNames -> Nat]
    BY <1>3, <2>0 DEF Moved, PillowNames
  <2>2. PillowType'
    BY <1>1, <1>2, <1>4, <2>1, PillowTyped DEF InChair
  <2>3. ChairInv' /\ TurnInv' /\ HomeInv'
    BY <1>1, <1>2, <2>1, PillowPeople DEF ChairInv, TurnInv, HomeInv, PillowNames, InChair
  <2> QED
    BY <2>2, <2>3 DEF PillowInv
(* Who wakes the barber is alone in the chair: nobody else has woken him.  *)
<1>8. CASE Pillow!WakeBarber(c)
  <2>0. Moved(c, "wake", "barberPillow", "belt", 1)
    BY <1>0, <1>1, <1>2, <1>8, PillowPosts DEF Pillow!WakeBarber
  <2>1. /\ pc[c] = "wake" /\ mem' = mem /\ pc' = [pc EXCEPT ![c] = "belt"]
        /\ \A u \in -1 .. numCustomers : pc'[u] = IF u = c THEN "belt" ELSE pc[u]
        /\ \A r \in PillowNames \ {"barberPillow"} : sem'[r] = sem[r]
        /\ sem'["barberPillow"] = sem["barberPillow"] + 1
        /\ sem' \in [PillowNames -> Nat]
    BY <1>3, <2>0 DEF Moved, PillowNames
  <2>2. PillowType'
    BY <1>1, <1>2, <1>4, <2>1, PillowTyped DEF InChair
  <2>3. \A d \in Heads : pc[d] # "belt"
    BY <1>1, <2>1 DEF ChairInv, InChair
  <2>4. mem.allDone = 0
    BY <1>1, <1>4, <2>1 DEF HomeInv
  <2>5. sem["barberPillow"] = 0 /\ sem["seatBelt"] = 0 /\ pc[0] \notin {"look", "cut"}
    BY <1>1, <1>3, <2>3, <2>4 DEF TurnInv, PillowNames
  <2>6. pc[0] \in {"test", "sleep"}
    BY <1>1, <2>4, <2>5 DEF PillowType, HomeInv
  <2>7. ChairInv' /\ HomeInv'
    BY <1>1, <1>2, <2>1, <2>4, PillowPeople DEF ChairInv, HomeInv, PillowNames, InChair
  <2>8. TurnInv'
    BY <1>1, <1>2, <2>1, <2>5, <2>6, PillowPeople DEF TurnInv, PillowNames
  <2> QED
    BY <2>2, <2>7, <2>8 DEF PillowInv
<1>9. CASE Pillow!Shorn(c)
  <2>0. Moved(c, "belt", "seatBelt", "rise", -1) /\ sem["seatBelt"] > 0
    BY <1>0, <1>1, <1>2, <1>9, PillowWaits DEF Pillow!Shorn
  <2>1. /\ pc[c] = "belt" /\ mem' = mem /\ pc' = [pc EXCEPT ![c] = "rise"]
        /\ \A u \in -1 .. numCustomers : pc'[u] = IF u = c THEN "rise" ELSE pc[u]
        /\ \A r \in PillowNames \ {"seatBelt"} : sem'[r] = sem[r]
        /\ sem["seatBelt"] > 0 /\ sem'["seatBelt"] = sem["seatBelt"] - 1
        /\ sem' \in [PillowNames -> Nat]
    BY <1>3, <2>0 DEF Moved, PillowNames
  <2>2. PillowType'
    BY <1>1, <1>2, <1>4, <2>1, PillowTyped DEF InChair
  <2>3. /\ sem["seatBelt"] = 1 /\ sem'["seatBelt"] = 0 /\ sem["barberPillow"] = 0
        /\ pc[0] \in {"test", "sleep"}
    BY <1>1, <1>3, <2>1 DEF TurnInv, PillowNames
  <2>4. ChairInv' /\ HomeInv'
    BY <1>1, <1>2, <2>1, <2>3, PillowPeople DEF ChairInv, HomeInv, PillowNames, InChair
  <2>5. TurnInv'
    BY <1>1, <1>2, <2>1, <2>3, PillowPeople DEF TurnInv, PillowNames
  <2> QED
    BY <2>2, <2>4, <2>5 DEF PillowInv
<1>10. CASE Pillow!GiveChair(c)
  <2>0. Moved(c, "rise", "barberChair", "end", 1)
    BY <1>0, <1>1, <1>2, <1>10, PillowPosts DEF Pillow!GiveChair
  <2>1. /\ pc[c] = "rise" /\ mem' = mem /\ pc' = [pc EXCEPT ![c] = "end"]
        /\ \A u \in -1 .. numCustomers : pc'[u] = IF u = c THEN "end" ELSE pc[u]
        /\ \A r \in PillowNames \ {"barberChair"} : sem'[r] = sem[r]
        /\ sem'["barberChair"] = sem["barberChair"] + 1
        /\ sem' \in [PillowNames -> Nat]
    BY <1>3, <2>0 DEF Moved, PillowNames
  <2>2. PillowType'
    BY <1>1, <1>2, <1>4, <2>1, PillowTyped
  <2>3. sem["barberChair"] = 0 /\ \A d \in Heads : pc[d] \in InChair => d = c
    BY <1>1, <2>1 DEF ChairInv, InChair
  <2>4. ChairInv'
    BY <1>2, <2>1, <2>3, PillowPeople DEF ChairInv, PillowNames, InChair
  <2>5. TurnInv' /\ HomeInv'
    BY <1>1, <1>2, <2>1, PillowPeople DEF TurnInv, HomeInv, PillowNames
  <2> QED
    BY <2>2, <2>4, <2>5 DEF PillowInv
<1> QED
  BY <1>5, <1>6, <1>7, <1>8, <1>9, <1>10 DEF Pillow!Customer

(* The barber passes the post on, and stays awake only as long as somebody *)
(* has woken him for a cut.                                                *)
LEMMA PillowBarber ==
    ASSUME PillowInv, Pillow!Barber PROVE PillowInv'
<1>0. {"waitingRoom", "barberChair", "barberPillow", "seatBelt"} \subseteq PillowNames
  BY DEF PillowNames
<1>1. PillowType /\ ChairInv /\ TurnInv /\ HomeInv
  BY DEF PillowInv
<1>2. 0 \in -1 .. numCustomers /\ 0 \notin Heads /\ 0 # -1
  BY PillowPeople
<1>3. \A r \in PillowNames : sem[r] \in Nat
  BY <1>1 DEF PillowType, PillowNames
<1>4. mem.allDone \in {0, 1} /\ mem \in [allDone : {0, 1}]
  BY <1>1 DEF PillowType
<1>5. CASE Pillow!TestDone \/ Pillow!LookDone
  <2>1. PICK to \in {"end", "sleep", "test", "cut"} :
           /\ pc' = [pc EXCEPT ![0] = to] /\ mem' = mem /\ sem' = sem
           /\ \/ pc[0] = "test" /\ to = IF mem.allDone = 1 THEN "end" ELSE "sleep"
              \/ pc[0] = "look" /\ to = IF mem.allDone = 1 THEN "test" ELSE "cut"
    BY <1>5 DEF Pillow!TestDone, Pillow!LookDone, Pillow!Go, Pillow!barber
  <2>2. \A u \in -1 .. numCustomers : pc'[u] = IF u = 0 THEN to ELSE pc[u]
    BY <1>1, <2>1 DEF PillowType
  <2>3. sem' \in [PillowNames -> Nat]
    BY <1>1, <2>1 DEF PillowType, PillowNames
  <2>4. PillowType'
    BY <1>1, <1>2, <1>4, <2>1, <2>3, PillowTyped
  <2>5. ChairInv'
    BY <1>1, <1>2, <2>1, <2>2, PillowPeople DEF ChairInv
  <2>6. TurnInv'
    BY <1>1, <1>2, <1>3, <1>4, <2>1, <2>2, PillowPeople DEF TurnInv, PillowNames, HomeInv
  <2>7. HomeInv'
    BY <1>1, <1>2, <1>4, <2>1, <2>2, PillowPeople DEF HomeInv
  <2> QED
    BY <2>4, <2>5, <2>6, <2>7 DEF PillowInv
<1>6. CASE Pillow!SleepOnPillow
  <2>0. Moved(0, "sleep", "barberPillow", "look", -1) /\ sem["barberPillow"] > 0
    BY <1>0, <1>1, <1>2, <1>6, PillowWaits DEF Pillow!SleepOnPillow, Pillow!barber
  <2>1. /\ pc[0] = "sleep" /\ mem' = mem /\ pc' = [pc EXCEPT ![0] = "look"]
        /\ \A u \in -1 .. numCustomers : pc'[u] = IF u = 0 THEN "look" ELSE pc[u]
        /\ \A r \in PillowNames \ {"barberPillow"} : sem'[r] = sem[r]
        /\ sem["barberPillow"] > 0 /\ sem'["barberPillow"] = sem["barberPillow"] - 1
        /\ sem' \in [PillowNames -> Nat]
    BY <1>3, <2>0 DEF Moved, PillowNames
  <2>2. PillowType'
    BY <1>1, <1>2, <1>4, <2>1, PillowTyped
  <2>3. /\ sem["barberPillow"] = 1 /\ sem'["barberPillow"] = 0 /\ sem["seatBelt"] = 0
        /\ mem.allDone = 0 => \E c \in Heads : pc[c] = "belt"
    BY <1>1, <1>3, <1>4, <2>1 DEF TurnInv, HomeInv, PillowNames
  <2>4. ChairInv'
    BY <1>1, <1>2, <2>1, PillowPeople DEF ChairInv, PillowNames
  <2>5. HomeInv'
    BY <1>1, <1>2, <2>1, <2>3, PillowPeople DEF HomeInv, PillowNames
  <2>6. TurnInv'
    BY <1>1, <1>2, <2>1, <2>3, PillowPeople DEF TurnInv, PillowNames
  <2> QED
    BY <2>2, <2>4, <2>5, <2>6 DEF PillowInv
<1>7. CASE Pillow!CutDone
  <2>0. Moved(0, "cut", "seatBelt", "test", 1)
    BY <1>0, <1>1, <1>2, <1>7, PillowPosts DEF Pillow!CutDone, Pillow!barber
  <2>1. /\ pc[0] = "cut" /\ mem' = mem /\ pc' = [pc EXCEPT ![0] = "test"]
        /\ \A u \in -1 .. numCustomers : pc'[u] = IF u = 0 THEN "test" ELSE pc[u]
        /\ \A r \in PillowNames \ {"seatBelt"} : sem'[r] = sem[r]
        /\ sem'["seatBelt"] = sem["seatBelt"] + 1
        /\ sem' \in [PillowNames -> Nat]
    BY <1>3, <2>0 DEF Moved, PillowNames
  <2>2. PillowType'
    BY <1>1, <1>2, <1>4, <2>1, PillowTyped
  <2>3. /\ mem.allDone = 0 /\ sem["seatBelt"] = 0 /\ sem["barberPillow"] = 0
        /\ \E c \in Heads : pc[c] = "belt"
    BY <1>1, <1>4, <2>1 DEF TurnInv, HomeInv
  <2>4. ChairInv'
    BY <1>1, <1>2, <2>1, PillowPeople DEF ChairInv, PillowNames
  <2>5. HomeInv'
    BY <1>1, <1>2, <2>1, <2>3, PillowPeople DEF HomeInv, PillowNames
  <2>6. TurnInv'
    BY <1>1, <1>2, <2>1, <2>3, PillowPeople DEF TurnInv, PillowNames
  <2> QED
    BY <2>2, <2>4, <2>5, <2>6 DEF PillowInv
<1> QED
  BY <1>5, <1>6, <1>7 DEF Pillow!Barber

(* main: once all customers are gone nobody is on the way to the barber.   *)
LEMMA PillowMain ==
    ASSUME PillowInv, Pillow!AllJoined \/ Pillow!SendHome PROVE PillowInv'
<1>0. {"waitingRoom", "barberChair", "barberPillow", "seatBelt"} \subseteq PillowNames
  BY DEF PillowNames
<1>1. PillowType /\ ChairInv /\ TurnInv /\ HomeInv
  BY DEF PillowInv
<1>2. -1 \in -1 .. numCustomers /\ -1 \notin Heads /\ -1 # 0
  BY PillowPeople
<1>3. \A r \in PillowNames : sem[r] \in Nat
  BY <1>1 DEF PillowType, PillowNames
<1>4. mem.allDone \in {0, 1} /\ mem \in [allDone : {0, 1}]
  BY <1>1 DEF PillowType
<1>5. CASE Pillow!AllJoined
  <2>1. /\ pc[-1] = "join" /\ pc' = [pc EXCEPT ![-1] = "post"] /\ sem' = sem
        /\ mem' = [mem EXCEPT !.allDone = 1]
        /\ Pillow!At(Pillow!Customers, {"end"}) = Pillow!Customers
    BY <1>5 DEF Pillow!AllJoined, Pillow!Go, Pillow!main
  <2>2. \A c \in Heads : pc[c] = "end"
    BY <2>1 DEF Pillow!At, Heads
  <2>3. \A u \in -1 .. numCustomers : pc'[u] = IF u = -1 THEN "post" ELSE pc[u]
    BY <1>1, <2>1 DEF PillowType
  <2>4. sem' \in [PillowNames -> Nat] /\ mem' \in [allDone : {0, 1}] /\ mem'.allDone = 1
    BY <1>1, <2>1 DEF PillowType, PillowNames
  <2>5. PillowType'
    BY <1>1, <1>2, <2>1, <2>4, PillowTyped
  <2>6. mem.allDone = 0
    BY <1>1, <2>1 DEF HomeInv
  <2>7. sem["barberPillow"] = 0 /\ sem["seatBelt"] = 0 /\ pc[0] \notin {"look", "cut"}
    BY <1>1, <1>3, <2>2, <2>6 DEF TurnInv, PillowNames
  <2>8. ChairInv'
    BY <1>1, <1>2, <2>1, <2>3, PillowPeople DEF ChairInv
  <2>9. TurnInv' /\ HomeInv'
    BY <1>2, <2>1, <2>2, <2>3, <2>4, <2>7, PillowPeople DEF TurnInv, HomeInv
  <2> QED
    BY <2>5, <2>8, <2>9 DEF PillowInv
<1>6. CASE Pillow!SendHome
  <2>0. Moved(-1, "post", "barberPillow", "end", 1)
    BY <1>0, <1>1, <1>2, <1>6, PillowPosts DEF Pillow!SendHome, Pillow!main
  <2>1. /\ pc[-1] = "post" /\ mem' = mem /\ pc' = [pc EXCEPT ![-1] = "end"]
        /\ \A u \in -1 .. numCustomers : pc'[u] = IF u = -1 THEN "end" ELSE pc[u]
        /\ \A r \in PillowNames \ {"barberPillow"} : sem'[r] = sem[r]
        /\ sem'["barberPillow"] = sem["barberPillow"] + 1
        /\ sem' \in [PillowNames -> Nat]
    BY <1>3, <2>0 DEF Moved, PillowNames
  <2>2. PillowType'
    BY <1>1, <1>2, <1>4, <2>1, PillowTyped
  <2>3. mem.allDone = 1 /\ sem["barberPillow"] = 0 /\ sem["seatBelt"] = 0
    BY <1>1, <1>4, <2>1 DEF HomeInv
  <2>4. ChairInv' /\ HomeInv'
    BY <1>1, <1>2, <2>1, <2>3, PillowPeople DEF ChairInv, HomeInv, PillowNames
  <2>5. TurnInv'
    BY <1>1, <1>2, <2>1, <2>3, PillowPeople DEF TurnInv, PillowNames
  <2> QED
    BY <2>2, <2>4, <2>5 DEF PillowInv
<1> QED
  BY <1>5, <1>6

LEMMA PillowStep == PillowInv /\ Pillow!Next => PillowInv'
BY PillowCustomer, PillowBarber, PillowMain DEF Pillow!Next, Heads

-----------------------------------------------------------------------------
(* The readers-writer lock.                                                *)
LEMMA OneMore ==
    ASSUME NEW S, NEW T, NEW x, IsFiniteSet(S), x \notin S, T = S \cup {x}
    PROVE  Cardinality(T) = Cardinality(S) + 1
BY FS_AddElement

LEMMA OneLess ==
    ASSUME NEW S, NEW T, NEW x, IsFiniteSet(S), x \in S, T = S \ {x}
    PROVE  Cardinality(T) = Cardinality(S) - 1
BY FS_RemoveElement

LEMMA AtFinite ==
    ASSUME NEW T, IsFiniteSet(T), NEW L
    PROVE  IsFiniteSet(At(T, L)) /\ Cardinality(At(T, L)) \in Nat
<1>1. At(T, L) \subseteq T
  BY DEF At
<1> QED
  BY <1>1, FS_Subset, FS_CardinalityType

LEMMA ReadersCounted ==
    /\ OneWriter \notin Readers /\ IsFiniteSet(ReadersIn) /\ Cardinality(ReadersIn) \in Nat
    /\ Cardinality(ReadersIn) = 0 <=> ReadersIn = {}
<1>1. IsFiniteSet(Readers) /\ OneWriter \notin Readers
  BY IpcAssumption
<1>2. IsFiniteSet(ReadersIn) /\ Cardinality(ReadersIn) \in Nat
  BY <1>1, AtFinite DEF ReadersIn
<1> QED
  BY <1>1, <1>2, FS_EmptySet

LEMMA RwlApart == RwlInv => Rwl!ReadersUndisturbed /\ Rwl!NobodyOversleeps
<1> SUFFICES ASSUME RwlInv PROVE Rwl!ReadersUndisturbed
  BY DEF RwlInv, SleepInv
<1>1. \A t \in Rwl!At({OneWriter}, {"write", "writeunlock"}) :
         /\ Rwl!At(Readers, {"read", "readunlock"}) = {}
         /\ Rwl!At({OneWriter}, {"write", "writeunlock"}) = {t}
  BY DEF RwlInv, LockInv, Rwl!At, ReadersIn, At, ReadIn, WriteIn
<1>2. \A r \in Rwl!At(Readers, {"readunlock"}) : mem.d[r] = mem.data
  BY DEF RwlInv, DataInv, Rwl!At
<1> QED
  BY <1>1, <1>2 DEF Rwl!ReadersUndisturbed

LEMMA RwlStart == Rwl!Init => RwlInv
<1> SUFFICES ASSUME Rwl!Init PROVE RwlInv
  OBVIOUS
<1>1. /\ pc = [t \in Readers \cup Scribe |-> IF t \in Readers THEN "readlock" ELSE "writelock"]
      /\ OneWriter \notin Readers
  BY IpcAssumption DEF Rwl!Init, Scribe
<1>2. ReadersIn = {}
  BY <1>1 DEF ReadersIn, At, ReadIn
<1>3. pc[OneWriter] = "writelock" /\ \A r \in Readers : pc[r] = "readlock"
  BY <1>1 DEF Scribe
<1>4. RwlType
  BY <1>1 DEF RwlType, Rwl!Init
<1>5. LockInv
  BY <1>2, <1>3, FS_EmptySet DEF LockInv, Rwl!Init, WriteIn
<1> QED
  BY <1>3, <1>4, <1>5 DEF RwlInv, DataInv, SleepInv, Rwl!Init, Rwl!NobodyOversleeps

(* What a step of thread t to "to" has to show.                            *)
LEMMA RwlMoves ==
    ASSUME RwlType, NEW t \in Readers \cup Scribe,
           NEW to \in {"readlock", "readOK", "read", "readunlock",
                       "writelock", "writeOK", "write", "writeunlock", "end"},
           pc' = [pc EXCEPT ![t] = to]
    PROVE  /\ pc' \in [Readers \cup Scribe ->
                 {"readlock", "readOK", "read", "readunlock",
                  "writelock", "writeOK", "write", "writeunlock", "end"}]
           /\ \A u \in Readers \cup Scribe : pc'[u] = IF u = t THEN to ELSE pc[u]
           /\ t \notin Readers => ReadersIn' = ReadersIn
           /\ t \in Readers /\ to \in ReadIn => ReadersIn' = ReadersIn \cup {t}
           /\ t \in Readers /\ to \notin ReadIn => ReadersIn' = ReadersIn \ {t}
<1>1. \A u \in Readers \cup Scribe : pc'[u] = IF u = t THEN to ELSE pc[u]
  BY DEF RwlType
<1>2. ReadersIn' = {u \in Readers : pc'[u] \in ReadIn}
  BY DEF ReadersIn, At
<1> QED
  BY <1>1, <1>2 DEF RwlType, ReadersIn, At

LEMMA RwlReader ==
    ASSUME RwlInv, NEW r \in Readers, Rwl!Reader(r) PROVE RwlInv'
<1>1. RwlType /\ LockInv /\ DataInv /\ SleepInv
  BY DEF RwlInv
<1>2. /\ r \in Readers \cup Scribe /\ r # OneWriter /\ OneWriter \in Readers \cup Scribe
      /\ OneWriter \notin Readers
  BY IpcAssumption DEF Scribe
<1>3. /\ IsFiniteSet(ReadersIn) /\ Cardinality(ReadersIn) \in Nat
      /\ Cardinality(ReadersIn) = 0 <=> ReadersIn = {}
  BY ReadersCounted
(* Blocked: r falls asleep, for the writer has the lock or waits for it.   *)
<1>4. ASSUME pc[r] \in {"readlock", "readOK"}, pc' = [pc EXCEPT ![r] = "readOK"],
             asleep' = asleep \cup {r}, mem.writers > 0 \/ mem.waiting > 0, mem' = mem
      PROVE  RwlInv'
  <2>1. /\ pc' \in [Readers \cup Scribe ->
                 {"readlock", "readOK", "read", "readunlock",
                  "writelock", "writeOK", "write", "writeunlock", "end"}]
        /\ \A u \in Readers \cup Scribe : pc'[u] = IF u = r THEN "readOK" ELSE pc[u]
        /\ ReadersIn' = ReadersIn \ {r}
    BY <1>1, <1>2, <1>4, RwlMoves DEF ReadIn
  <2>2. ReadersIn' = ReadersIn
    BY <1>4, <2>1 DEF ReadersIn, At, ReadIn
  <2>3. RwlType'
    BY <1>1, <1>4, <2>1 DEF RwlType
  <2>4. LockInv'
    BY <1>1, <1>2, <1>4, <2>1, <2>2 DEF LockInv
  <2>5. DataInv'
    BY <1>1, <1>4, <2>1 DEF DataInv
  <2>6. SleepInv'
    BY <1>1, <1>2, <1>4, <2>1 DEF SleepInv, Rwl!NobodyOversleeps
  <2> QED
    BY <2>3, <2>4, <2>5, <2>6 DEF RwlInv
(* r enters while the writer is not inside.                                *)
<1>5. ASSUME pc[r] \in {"readlock", "readOK"}, pc' = [pc EXCEPT ![r] = "read"],
             r \notin asleep, asleep' = asleep, ~(mem.writers > 0),
             mem' = [mem EXCEPT !.readers = @ + 1]
      PROVE  RwlInv'
  <2>1. /\ pc' \in [Readers \cup Scribe ->
                 {"readlock", "readOK", "read", "readunlock",
                  "writelock", "writeOK", "write", "writeunlock", "end"}]
        /\ \A u \in Readers \cup Scribe : pc'[u] = IF u = r THEN "read" ELSE pc[u]
        /\ ReadersIn' = ReadersIn \cup {r}
    BY <1>1, <1>2, <1>5, RwlMoves DEF ReadIn
  <2>2. r \notin ReadersIn
    BY <1>5 DEF ReadersIn, At, ReadIn
  <2>3. Cardinality(ReadersIn') = Cardinality(ReadersIn) + 1
    BY <1>3, <2>1, <2>2, OneMore
  <2>4. mem' = [readers |-> mem.readers + 1, writers |-> mem.writers,
                waiting |-> mem.waiting, data |-> mem.data, d |-> mem.d, i |-> mem.i]
    BY <1>1, <1>5 DEF RwlType
  <2>5. pc[OneWriter] \notin WriteIn
    BY <1>1, <1>5 DEF LockInv
  <2>6. RwlType'
    BY <1>1, <2>1, <2>4 DEF RwlType
  <2>7. LockInv'
    BY <1>1, <1>2, <2>1, <2>3, <2>4, <2>5 DEF LockInv
  <2>8. DataInv'
    BY <1>1, <2>1, <2>4 DEF DataInv
  <2>9. SleepInv'
    BY <1>1, <1>2, <1>3, <1>5, <2>1, <2>4 DEF SleepInv, LockInv, Rwl!NobodyOversleeps
  <2> QED
    BY <2>6, <2>7, <2>8, <2>9 DEF RwlInv
<1>6. CASE Rwl!readlock(r) \/ Rwl!ReaderWoken(r)
  <2>1. r \notin asleep
    BY <1>1, <1>2, <1>6 DEF Rwl!readlock, Rwl!ReaderWoken, Rwl!Woken, Rwl!Go, SleepInv
  <2>2. mem = [mem EXCEPT !.readers = @]
    BY <1>1 DEF RwlType
  <2>3. \/ /\ pc' = [pc EXCEPT ![r] = "readOK"] /\ asleep' = asleep \cup {r}
           /\ (mem.writers > 0 \/ mem.waiting > 0) /\ mem' = mem
        \/ /\ pc' = [pc EXCEPT ![r] = "read"] /\ asleep' = asleep
           /\ ~(mem.writers > 0) /\ mem' = [mem EXCEPT !.readers = @ + 1]
    BY <1>6, <2>2 DEF Rwl!readlock, Rwl!ReaderWoken, Rwl!Go, Rwl!SleepOn
  <2> QED
    BY <1>4, <1>5, <1>6, <2>1, <2>3 DEF Rwl!readlock, Rwl!ReaderWoken, Rwl!Go
<1>7. CASE Rwl!Read(r)
  <2>1. /\ pc[r] = "read" /\ pc' = [pc EXCEPT ![r] = "readunlock"] /\ asleep' = asleep
        /\ mem' = [mem EXCEPT !.d[r] = mem.data]
    BY <1>7 DEF Rwl!Read, Rwl!Go
  <2>2. /\ pc' \in [Readers \cup Scribe ->
                 {"readlock", "readOK", "read", "readunlock",
                  "writelock", "writeOK", "write", "writeunlock", "end"}]
        /\ \A u \in Readers \cup Scribe : pc'[u] = IF u = r THEN "readunlock" ELSE pc[u]
        /\ ReadersIn' = ReadersIn \cup {r}
    BY <1>1, <1>2, <2>1, RwlMoves DEF ReadIn
  <2>3. ReadersIn' = ReadersIn
    BY <2>1, <2>2 DEF ReadersIn, At, ReadIn
  <2>4. mem' = [readers |-> mem.readers, writers |-> mem.writers, waiting |-> mem.waiting,
                data |-> mem.data, d |-> [mem.d EXCEPT ![r] = mem.data], i |-> mem.i]
    BY <1>1, <2>1 DEF RwlType
  <2>5. RwlType'
    BY <1>1, <2>2, <2>4 DEF RwlType
  <2>6. LockInv'
    BY <1>1, <1>2, <2>2, <2>3, <2>4 DEF LockInv
  <2>7. DataInv'
    BY <1>1, <2>2, <2>4 DEF DataInv, RwlType
  <2>8. SleepInv'
    BY <1>1, <1>2, <2>1, <2>2, <2>4 DEF SleepInv, Rwl!NobodyOversleeps
  <2> QED
    BY <2>5, <2>6, <2>7, <2>8 DEF RwlInv
(* One reader less; a writer that sleeps is woken.                         *)
<1>8. CASE Rwl!readunlock(r)
  <2>1. PICK to \in {"readlock", "end"} :
          /\ pc[r] = "readunlock" /\ pc' = [pc EXCEPT ![r] = to]
          /\ mem' = [mem EXCEPT !.readers = @ - 1]
          /\ asleep' \subseteq asleep /\ OneWriter \notin asleep'
    BY <1>8 DEF Rwl!readunlock, Rwl!Go, Rwl!Signal
  <2>2. /\ pc' \in [Readers \cup Scribe ->
                 {"readlock", "readOK", "read", "readunlock",
                  "writelock", "writeOK", "write", "writeunlock", "end"}]
        /\ \A u \in Readers \cup Scribe : pc'[u] = IF u = r THEN to ELSE pc[u]
        /\ ReadersIn' = ReadersIn \ {r}
    BY <1>1, <1>2, <2>1, RwlMoves DEF ReadIn
  <2>3. r \in ReadersIn
    BY <2>1 DEF ReadersIn, At, ReadIn
  <2>4. Cardinality(ReadersIn') = Cardinality(ReadersIn) - 1
    BY <1>3, <2>2, <2>3, OneLess
  <2>5. mem' = [readers |-> mem.readers - 1, writers |-> mem.writers,
                waiting |-> mem.waiting, data |-> mem.data, d |-> mem.d, i |-> mem.i]
    BY <1>1, <2>1 DEF RwlType
  <2>6. r \notin asleep
    BY <1>1, <2>1 DEF SleepInv
  <2>7. RwlType'
    BY <1>1, <2>2, <2>5 DEF RwlType
  <2>8. LockInv'
    BY <1>1, <1>2, <2>2, <2>3, <2>4, <2>5 DEF LockInv
  <2>9. DataInv'
    BY <1>1, <2>1, <2>2, <2>5 DEF DataInv
  <2>10. SleepInv'
    BY <1>1, <1>2, <2>1, <2>2, <2>5, <2>6 DEF SleepInv, Rwl!NobodyOversleeps
  <2> QED
    BY <2>7, <2>8, <2>9, <2>10 DEF RwlInv
<1> QED
  BY <1>6, <1>7, <1>8 DEF Rwl!Reader

LEMMA RwlWriter ==
    ASSUME RwlInv, Rwl!Writer(OneWriter) PROVE RwlInv'
<1>1. RwlType /\ LockInv /\ DataInv /\ SleepInv
  BY DEF RwlInv
<1>2. OneWriter \in Readers \cup Scribe /\ OneWriter \notin Readers
  BY IpcAssumption DEF Scribe
<1>3. /\ IsFiniteSet(ReadersIn) /\ Cardinality(ReadersIn) \in Nat
      /\ Cardinality(ReadersIn) = 0 <=> ReadersIn = {}
  BY ReadersCounted
<1> DEFINE w == OneWriter
           Moves(to) == /\ pc' = [pc EXCEPT ![w] = to]
                        /\ \A u \in Readers : pc'[u] = pc[u]
                        /\ pc'[w] = to /\ ReadersIn' = ReadersIn
                        /\ pc' \in [Readers \cup Scribe ->
                             {"readlock", "readOK", "read", "readunlock",
                              "writelock", "writeOK", "write", "writeunlock", "end"}]
<1>4. ASSUME NEW to \in {"writelock", "writeOK", "write", "writeunlock", "end"},
             pc' = [pc EXCEPT ![w] = to]
      PROVE  Moves(to)
  BY <1>1, <1>2, <1>4, RwlMoves
(* Blocked: he waits, and sleeps while there are readers inside.           *)
<1>5. ASSUME pc[w] \in {"writelock", "writeOK"}, Moves("writeOK"), asleep' = asleep \cup {w},
             mem.readers > 0 \/ mem.writers > 0,
             mem' = [readers |-> mem.readers, writers |-> mem.writers, waiting |-> 1,
                     data |-> mem.data, d |-> mem.d, i |-> mem.i]
      PROVE  RwlInv'
  <2>1. RwlType'
    BY <1>1, <1>5 DEF RwlType
  <2>2. LockInv'
    BY <1>1, <1>5 DEF LockInv, WriteIn
  <2>3. DataInv'
    BY <1>1, <1>5 DEF DataInv
  <2>4. SleepInv'
    BY <1>1, <1>2, <1>5 DEF SleepInv, Rwl!NobodyOversleeps, Scribe
  <2> QED
    BY <2>1, <2>2, <2>3, <2>4 DEF RwlInv
(* He enters when nobody is inside.                                        *)
<1>6. ASSUME pc[w] \in {"writelock", "writeOK"}, Moves("write"), w \notin asleep, asleep' = asleep,
             ~(mem.readers > 0 \/ mem.writers > 0),
             mem' = [readers |-> mem.readers, writers |-> 1, waiting |-> 0,
                     data |-> mem.data, d |-> mem.d, i |-> mem.i]
      PROVE  RwlInv'
  <2>1. ReadersIn = {}
    BY <1>1, <1>3, <1>6 DEF LockInv
  <2>2. RwlType'
    BY <1>1, <1>6 DEF RwlType
  <2>3. LockInv'
    BY <1>1, <1>6, <2>1 DEF LockInv, WriteIn
  <2>4. DataInv'
    BY <1>1, <1>6 DEF DataInv
  <2>5. SleepInv'
    BY <1>1, <1>2, <1>6 DEF SleepInv, Rwl!NobodyOversleeps, Scribe
  <2> QED
    BY <2>2, <2>3, <2>4, <2>5 DEF RwlInv
<1>7. CASE Rwl!writelock(OneWriter) \/ Rwl!WriterWoken(OneWriter)
  <2>1. pc[w] \in {"writelock", "writeOK"} /\ w \notin asleep
    BY <1>1, <1>2, <1>7 DEF Rwl!writelock, Rwl!WriterWoken, Rwl!Woken, Rwl!Go, SleepInv
  <2>2. /\ mem.writers = 0
        /\ mem.waiting = IF pc[w] = "writeOK" THEN 1 ELSE 0
    BY <1>1, <2>1 DEF LockInv, WriteIn
  <2>3. CASE mem.readers > 0 \/ mem.writers > 0
    <3>1. pc' = [pc EXCEPT ![w] = "writeOK"] /\ asleep' = asleep \cup {w}
      BY <1>7, <2>3 DEF Rwl!writelock, Rwl!WriterWoken, Rwl!Go, Rwl!SleepOn
    <3>2. mem' = [readers |-> mem.readers, writers |-> mem.writers, waiting |-> 1,
                  data |-> mem.data, d |-> mem.d, i |-> mem.i]
      BY <1>1, <1>7, <2>2, <2>3 DEF Rwl!writelock, Rwl!WriterWoken, Rwl!Go, RwlType
    <3> HIDE DEF Moves
    <3> QED
      BY <1>4, <1>5, <2>1, <2>3, <3>1, <3>2
  <2>4. CASE ~(mem.readers > 0 \/ mem.writers > 0)
    <3>1. pc' = [pc EXCEPT ![w] = "write"] /\ asleep' = asleep
      BY <1>7, <2>4 DEF Rwl!writelock, Rwl!WriterWoken, Rwl!Go, Rwl!SleepOn
    <3>2. mem' = [readers |-> mem.readers, writers |-> 1, waiting |-> 0,
                  data |-> mem.data, d |-> mem.d, i |-> mem.i]
      <4>1. CASE Rwl!writelock(OneWriter)
        BY <1>1, <2>2, <2>4, <4>1 DEF Rwl!writelock, Rwl!Go, RwlType
      <4>2. CASE Rwl!WriterWoken(OneWriter)
        <5>1. mem' = [mem EXCEPT !.waiting = @ - 1, !.writers = @ + 1] /\ mem.waiting = 1
          BY <2>2, <2>4, <4>2 DEF Rwl!WriterWoken, Rwl!Go
        <5>2. mem' = [readers |-> mem.readers, writers |-> mem.writers + 1,
                      waiting |-> mem.waiting - 1, data |-> mem.data, d |-> mem.d, i |-> mem.i]
          BY <1>1, <5>1 DEF RwlType
        <5>3. mem.writers + 1 = 1 /\ mem.waiting - 1 = 0
          BY <2>2, <5>1
        <5> QED
          BY <5>2, <5>3
      <4> QED
        BY <1>7, <4>1, <4>2
    <3> HIDE DEF Moves
    <3> QED
      BY <1>4, <1>6, <2>1, <2>4, <3>1, <3>2
  <2> QED
    BY <2>3, <2>4
<1>8. CASE Rwl!Write(OneWriter)
  <2>1. pc[w] = "write" /\ Moves("writeunlock") /\ asleep' = asleep
    BY <1>4, <1>8 DEF Rwl!Write, Rwl!Go
  <2>2. mem' = [readers |-> mem.readers, writers |-> mem.writers, waiting |-> mem.waiting,
                data |-> mem'.data, d |-> mem.d, i |-> mem.i]
    BY <1>1, <1>8 DEF Rwl!Write, RwlType
  <2>3. ReadersIn = {} /\ mem.writers = 1 /\ mem.waiting = 0
    BY <1>1, <2>1 DEF LockInv, WriteIn
  <2>4. RwlType'
    BY <1>1, <2>1, <2>2 DEF RwlType
  <2>5. LockInv'
    BY <1>1, <2>1, <2>2, <2>3 DEF LockInv, WriteIn
  <2>6. DataInv'
    BY <2>1, <2>3 DEF DataInv, ReadersIn, At, ReadIn
  <2>7. SleepInv'
    BY <1>1, <1>2, <2>1, <2>2, <2>3 DEF SleepInv, Rwl!NobodyOversleeps, Scribe
  <2> QED
    BY <2>4, <2>5, <2>6, <2>7 DEF RwlInv
(* He leaves, and wakes all readers.                                       *)
<1>9. CASE Rwl!writeunlock(OneWriter)
  <2>1. PICK to \in {"writelock", "end"} : pc[w] = "writeunlock" /\ Moves(to)
    <3>1. PICK to \in {"writelock", "end"} : pc[w] = "writeunlock" /\ pc' = [pc EXCEPT ![w] = to]
      BY <1>9 DEF Rwl!writeunlock, Rwl!Go
    <3> HIDE DEF Moves
    <3> QED
      BY <1>4, <3>1
  <2>2. asleep' = asleep \ Readers
    BY <1>9 DEF Rwl!writeunlock, Rwl!Broadcast
  <2>3. mem' = [readers |-> mem.readers, writers |-> mem.writers - 1, waiting |-> mem.waiting,
                data |-> mem.data, d |-> mem.d, i |-> mem'.i]
    BY <1>1, <1>9 DEF Rwl!writeunlock, RwlType
  <2>4. ReadersIn = {} /\ mem.writers = 1 /\ mem.waiting = 0
    BY <1>1, <2>1 DEF LockInv, WriteIn
  <2>5. RwlType'
    BY <1>1, <2>1, <2>3 DEF RwlType
  <2>6. LockInv'
    BY <1>1, <2>1, <2>3, <2>4 DEF LockInv, WriteIn
  <2>7. DataInv'
    BY <1>1, <2>1, <2>3 DEF DataInv
  <2>8. asleep' = {}
    BY <1>1, <1>2, <2>1, <2>2 DEF SleepInv, Scribe
  <2>9. SleepInv'
    BY <2>8 DEF SleepInv, Rwl!NobodyOversleeps
  <2> QED
    BY <2>5, <2>6, <2>7, <2>9 DEF RwlInv
<1> QED
  BY <1>7, <1>8, <1>9 DEF Rwl!Writer

LEMMA RwlStep == RwlInv /\ Rwl!Next => RwlInv'
BY RwlReader, RwlWriter DEF Rwl!Next

-----------------------------------------------------------------------------
(* The readers that count themselves.                                      *)
LEMMA CountedPeople ==
    /\ Readers \cap Writers = {} /\ One \in Readers
    /\ \A r \in Readers : Counted!CountOf(r) = One
    /\ IsFiniteSet(Present) /\ Cardinality(Present) \in Nat
    /\ Cardinality(Present) = 0 <=> Present = {}
    /\ IsFiniteSet(Done) /\ Cardinality(Done) \in Nat
<1>1. Readers \cap Writers = {} /\ IsFiniteSet(Readers) /\ IsFiniteSet(Writers) /\ Readers # {}
  BY IpcAssumption
<1>2. One \in Readers
  BY <1>1 DEF One
<1>3. \A r \in Readers : Counted!CountOf(r) = One
  BY DEF Counted!CountOf, One
<1>4. /\ IsFiniteSet(Present) /\ Cardinality(Present) \in Nat
      /\ IsFiniteSet(Done) /\ Cardinality(Done) \in Nat
  BY <1>1, AtFinite DEF Present, Done
<1> QED
  BY <1>1, <1>2, <1>3, <1>4, FS_EmptySet

LEMMA CountedApart == CountedInv => Counted!Apart
<1> SUFFICES ASSUME CountedInv PROVE Counted!Apart
  OBVIOUS
<1>1. \A w \in Counted!At(Writers, {"load", "store", "unlock"}) :
        /\ Counted!At(Readers, {"read"}) = {}
        /\ Counted!At(Writers, {"load", "store", "unlock"}) = {w}
  BY DEF CountedInv, SectionInv, Counted!At, Inside, Section
<1>2. Cardinality(Done) = Counted!Cardinality(Counted!At(Writers, {"unlock", "end"}))
  BY Zenon DEF Cardinality, Counted!Cardinality, Done, At, Counted!At
<1> QED
  BY <1>1, <1>2 DEF CountedInv, ResourceInv, Counted!Apart

LEMMA CountedStart == Counted!Init => CountedInv
<1> SUFFICES ASSUME Counted!Init PROVE CountedInv
  OBVIOUS
<1>1. /\ \A r \in Readers : pc[r] = "entry"
      /\ \A w \in Writers : pc[w] = "lock"
  BY CountedPeople DEF Counted!Init
<1>2. CountedType
  <2>1. pc \in [Readers \cup Writers -> ReaderLabels \cup WriterLabels]
    BY DEF Counted!Init, ReaderLabels, WriterLabels
  <2>2. sem \in [Mutexes -> {0, 1}]
    BY DEF Counted!Init, Mutexes
  <2>3. /\ mem = [resource |-> 0, reader_count |-> [r \in Readers |-> 0], reg |-> [w \in Writers |-> 0]]
    BY DEF Counted!Init
  <2> QED
    BY <1>1, <2>1, <2>2, <2>3 DEF CountedType, ReaderLabels, WriterLabels
<1>3. Present = {} /\ Done = {}
  BY <1>1 DEF Present, Done, At
<1>4. CountInv
  BY <1>1, <1>3, CountedPeople DEF CountInv, Counted!Init
<1>5. ResourceInv
  BY <1>1, <1>3, FS_EmptySet DEF ResourceInv, Counted!Init
<1> QED
  BY <1>1, <1>2, <1>4, <1>5 DEF CountedInv, MutexInv, SectionInv, Counting, Inside, Section

(* What a step of reader or writer t to "to" changes.                      *)
Steps(t, to) == \A u \in Readers \cup Writers : pc'[u] = IF u = t THEN to ELSE pc[u]

LEMMA CountedMoves ==
    ASSUME CountedType, NEW t \in Readers \cup Writers, NEW to,
           pc' = [pc EXCEPT ![t] = to],
           t \in Readers => to \in ReaderLabels, t \in Writers => to \in WriterLabels,
           sem' \in [Mutexes -> {0, 1}],
           mem' = [resource |-> mem'.resource, reader_count |-> mem'.reader_count, reg |-> mem'.reg],
           DOMAIN mem'.reader_count = Readers, DOMAIN mem'.reg = Writers
    PROVE  CountedType' /\ Steps(t, to)
<1>1. Steps(t, to)
  BY DEF CountedType, Steps
<1>2. pc' \in [Readers \cup Writers -> ReaderLabels \cup WriterLabels]
  BY DEF CountedType
<1> QED
  BY <1>1, <1>2 DEF CountedType, Steps

Sets(s, n) ==
    /\ sem' \in [Mutexes -> {0, 1}] /\ sem'[s] = n
    /\ \A r \in Mutexes \ {s} : sem'[r] = sem[r]

LEMMA CountedDown ==
    ASSUME CountedType, NEW s \in Mutexes, Counted!Down(s)
    PROVE  sem[s] = 1 /\ Sets(s, 0)
<1>1. sem[s] = 1
  BY DEF CountedType, Counted!Down
<1>2. sem' = [sem EXCEPT ![s] = 0]
  BY <1>1 DEF Counted!Down
<1> QED
  BY <1>1, <1>2 DEF CountedType, Sets

LEMMA CountedUp ==
    ASSUME CountedType, NEW s \in Mutexes, Counted!Up(s), sem[s] = 0
    PROVE  Sets(s, 1)
<1>1. sem' = [sem EXCEPT ![s] = 1]
  BY DEF Counted!Up
<1> QED
  BY <1>1 DEF CountedType, Sets

LEMMA CountedKept == ASSUME CountedType, UNCHANGED sem PROVE sem' \in [Mutexes -> {0, 1}]
BY DEF CountedType

LEMMA CountedWriter ==
    ASSUME CountedInv, NEW w \in Writers, Counted!Writer(w) PROVE CountedInv'
<1>1. CountedType /\ MutexInv /\ CountInv /\ SectionInv /\ ResourceInv
  BY DEF CountedInv
<1>2. /\ w \notin Readers /\ w \in Readers \cup Writers
      /\ IsFiniteSet(Done) /\ Cardinality(Done) \in Nat
  BY CountedPeople
<1>3. /\ "readers_mutex" \in Mutexes /\ "writers_mutex" \in Mutexes
      /\ mem = [resource |-> mem.resource, reader_count |-> mem.reader_count, reg |-> mem.reg]
      /\ DOMAIN mem.reader_count = Readers /\ DOMAIN mem.reg = Writers
  BY <1>1 DEF CountedType, Mutexes
(* The readers do not notice.                                              *)
<1>4. ASSUME NEW to, pc' = [pc EXCEPT ![w] = to], sem'["readers_mutex"] = sem["readers_mutex"],
             mem'.reader_count = mem.reader_count,
             Steps(w, to)
      PROVE  MutexInv' /\ CountInv'
  <2>1. \A r \in Readers : pc'[r] = pc[r]
    BY <1>2, <1>4 DEF Steps
  <2>2. Present' = Present
    BY <2>1 DEF Present, At
  <2> QED
    BY <1>1, <1>4, <2>1, <2>2 DEF MutexInv, CountInv
<1>5. CASE Counted!LockWriters(w)
  <2>1. /\ pc[w] = "lock" /\ pc' = [pc EXCEPT ![w] = "load"] /\ mem' = mem
        /\ sem["writers_mutex"] = 1 /\ Sets("writers_mutex", 0)
    BY <1>1, <1>3, <1>5, CountedDown DEF Counted!LockWriters, Counted!Go
  <2>2. CountedType' /\ Steps(w, "load") /\ sem'["readers_mutex"] = sem["readers_mutex"]
    BY <1>1, <1>2, <1>3, <2>1, CountedMoves DEF WriterLabels, Section, Sets
  <2>3. MutexInv' /\ CountInv'
    BY <1>4, <2>1, <2>2
  <2>4. SectionInv'
    BY <1>1, <1>2, <2>1, <2>2 DEF Steps, Sets, SectionInv, Section
  <2>5. Done' = Done
    BY <1>2, <2>1, <2>2 DEF Steps, Sets, Done, At
  <2>6. ResourceInv'
    BY <1>1, <1>2, <2>1, <2>2, <2>5 DEF Steps, Sets, ResourceInv
  <2> QED
    BY <2>2, <2>3, <2>4, <2>6 DEF CountedInv
<1>6. CASE Counted!Load(w)
  <2>1. /\ pc[w] = "load" /\ pc' = [pc EXCEPT ![w] = "store"] /\ sem' = sem
        /\ mem' = [resource |-> mem.resource, reader_count |-> mem.reader_count,
                   reg |-> [mem.reg EXCEPT ![w] = mem.resource]]
    BY <1>3, <1>6 DEF Counted!Load, Counted!Go
  <2>2. CountedType' /\ Steps(w, "store")
    BY <1>1, <1>2, <1>3, <2>1, CountedMoves, CountedKept DEF WriterLabels, Section
  <2>3. MutexInv' /\ CountInv'
    BY <1>4, <2>1, <2>2
  <2>4. SectionInv'
    BY <1>1, <1>2, <2>1, <2>2 DEF Steps, Sets, SectionInv, Section
  <2>5. Done' = Done
    BY <1>2, <2>1, <2>2 DEF Steps, Sets, Done, At
  <2>6. \A v \in Writers : v # w => pc[v] # "store"
    BY <1>1, <2>1 DEF SectionInv, Section
  <2>7. ResourceInv'
    BY <1>1, <1>3, <2>1, <2>2, <2>5, <2>6 DEF Steps, Sets, ResourceInv
  <2> QED
    BY <2>2, <2>3, <2>4, <2>7 DEF CountedInv
<1>7. CASE Counted!Store(w)
  <2>1. /\ pc[w] = "store" /\ pc' = [pc EXCEPT ![w] = "unlock"] /\ sem' = sem
        /\ mem' = [resource |-> mem.reg[w] + 1, reader_count |-> mem.reader_count, reg |-> mem.reg]
    BY <1>3, <1>7 DEF Counted!Store, Counted!Go
  <2>2. CountedType' /\ Steps(w, "unlock")
    BY <1>1, <1>2, <1>3, <2>1, CountedMoves, CountedKept DEF WriterLabels, Section
  <2>3. MutexInv' /\ CountInv'
    BY <1>4, <2>1, <2>2
  <2>4. SectionInv'
    BY <1>1, <1>2, <2>1, <2>2 DEF Steps, Sets, SectionInv, Section
  <2>5. w \notin Done /\ Done' = Done \cup {w}
    BY <1>2, <2>1, <2>2 DEF Steps, Sets, Done, At
  <2>6. Cardinality(Done') = Cardinality(Done) + 1
    BY <1>2, <2>5, OneMore
  <2>7. \A v \in Writers : v # w => pc[v] # "store"
    BY <1>1, <2>1 DEF SectionInv, Section
  <2>8. ResourceInv'
    BY <1>1, <2>1, <2>2, <2>6, <2>7 DEF Steps, Sets, ResourceInv
  <2> QED
    BY <2>2, <2>3, <2>4, <2>8 DEF CountedInv
<1>8. CASE Counted!UnlockWriters(w)
  <2>1. pc[w] = "unlock" /\ pc' = [pc EXCEPT ![w] = "end"] /\ mem' = mem
    BY <1>8 DEF Counted!UnlockWriters, Counted!Go
  <2>2. Sets("writers_mutex", 1)
    BY <1>1, <1>3, <1>8, <2>1, CountedUp DEF Counted!UnlockWriters, SectionInv, Section
  <2>3. CountedType' /\ Steps(w, "end") /\ sem'["readers_mutex"] = sem["readers_mutex"]
    BY <1>1, <1>2, <1>3, <2>1, <2>2, CountedMoves DEF WriterLabels, Section, Sets
  <2>4. MutexInv' /\ CountInv'
    BY <1>4, <2>1, <2>3
  <2>5. /\ \A r \in Readers : pc[r] \notin Inside
        /\ \A v \in Writers : v # w => pc[v] \notin Section
    BY <1>1, <2>1 DEF SectionInv, Section
  <2>6. SectionInv'
    BY <1>2, <2>3, <2>5 DEF Steps, Sets, SectionInv, Section
  <2>7. Done' = Done
    BY <1>2, <2>1, <2>3 DEF Steps, Sets, Done, At
  <2>8. ResourceInv'
    BY <1>1, <1>2, <2>1, <2>3, <2>7 DEF Steps, Sets, ResourceInv
  <2> QED
    BY <2>3, <2>4, <2>6, <2>8 DEF CountedInv
<1> QED
  BY <1>5, <1>6, <1>7, <1>8 DEF Counted!Writer

LEMMA CountedReader ==
    ASSUME CountedInv, NEW r \in Readers, Counted!Reader(r) PROVE CountedInv'
<1>1. CountedType /\ MutexInv /\ CountInv /\ SectionInv /\ ResourceInv
  BY DEF CountedInv
<1>2. /\ r \notin Writers /\ r \in Readers \cup Writers /\ One \in Readers
      /\ Counted!CountOf(r) = One
      /\ IsFiniteSet(Present) /\ Cardinality(Present) \in Nat
      /\ Cardinality(Present) = 0 <=> Present = {}
  BY CountedPeople
<1>3. /\ "readers_mutex" \in Mutexes /\ "writers_mutex" \in Mutexes
      /\ mem = [resource |-> mem.resource, reader_count |-> mem.reader_count, reg |-> mem.reg]
      /\ DOMAIN mem.reader_count = Readers /\ DOMAIN mem.reg = Writers
  BY <1>1 DEF CountedType, Mutexes
(* The writers do not notice.                                              *)
<1>4. ASSUME NEW to, Steps(r, to), mem'.resource = mem.resource, mem'.reg = mem.reg
      PROVE  ResourceInv' /\ \A w \in Writers : pc'[w] = pc[w]
  <2>1. \A w \in Writers : pc'[w] = pc[w]
    BY <1>2, <1>4 DEF Steps
  <2>2. Done' = Done
    BY <2>1 DEF Done, At
  <2> QED
    BY <1>1, <1>4, <2>1, <2>2 DEF ResourceInv
<1>5. ASSUME pc[r] \in Counting
      PROVE  sem["readers_mutex"] = 0 /\ \A q \in Readers : pc[q] \in Counting => q = r
  BY <1>1, <1>5 DEF MutexInv
<1>6. CASE Counted!Entry(r) \/ Counted!Exit(r)
  <2>1. PICK to \in {"count", "uncount"} :
          /\ pc[r] = IF to = "count" THEN "entry" ELSE "read"
          /\ pc' = [pc EXCEPT ![r] = to] /\ mem' = mem
          /\ sem["readers_mutex"] = 1 /\ Sets("readers_mutex", 0)
    BY <1>1, <1>3, <1>6, CountedDown DEF Counted!Entry, Counted!Exit, Counted!Go
  <2>2. CountedType' /\ Steps(r, to) /\ sem'["writers_mutex"] = sem["writers_mutex"]
    BY <1>1, <1>2, <1>3, <2>1, CountedMoves DEF ReaderLabels, Counting, Sets
  <2>3. \A q \in Readers : pc[q] \notin Counting
    BY <1>1, <2>1 DEF MutexInv
  <2>4. MutexInv'
    BY <2>1, <2>2, <2>3 DEF MutexInv, Steps, Sets
  <2>5. Present' = Present
    BY <2>1, <2>2 DEF Present, At, Steps
  <2>6. CountInv'
    BY <1>1, <2>1, <2>2, <2>3, <2>5 DEF CountInv, Steps, Counting
  <2>7. SectionInv'
    BY <1>1, <1>4, <2>1, <2>2 DEF SectionInv, Steps, Inside
  <2> QED
    BY <1>4, <2>1, <2>2, <2>4, <2>6, <2>7 DEF CountedInv
(* The first that is counted has the others to thank for nothing; whoever  *)
(* comes later finds a reader inside, with the lock taken.                 *)
<1>7. CASE Counted!Count(r)
  <2> DEFINE to == IF mem.reader_count[One] = 0 THEN "first" ELSE "entered"
  <2>1. /\ pc[r] = "count" /\ pc' = [pc EXCEPT ![r] = to] /\ sem' = sem
        /\ mem' = [resource |-> mem.resource, reg |-> mem.reg,
                   reader_count |-> [mem.reader_count EXCEPT ![One] = @ + 1]]
    BY <1>2, <1>3, <1>7 DEF Counted!Count, Counted!Go
  <2>2. to \in {"first", "entered"}
    OBVIOUS
  <2>3. (Present = {} /\ to = "first") \/ (Present # {} /\ to = "entered")
    BY <1>1, <1>2 DEF CountInv
  <2> HIDE DEF to
  <2>4. CountedType' /\ Steps(r, to)
    BY <1>1, <1>2, <1>3, <2>1, <2>2, CountedMoves, CountedKept DEF ReaderLabels, Counting
  <2>5. r \notin Present /\ Present' = Present \cup {r}
    BY <2>1, <2>2, <2>4 DEF Present, At, Steps
  <2>6. Cardinality(Present') = Cardinality(Present) + 1
    BY <1>2, <2>5, OneMore
  <2>7. \A q \in Readers : q # r => pc[q] \notin Counting
    BY <1>5, <2>1 DEF Counting
  <2>8. MutexInv'
    BY <1>5, <2>1, <2>4, <2>7 DEF MutexInv, Steps, Counting
  <2>9. mem'.reader_count[One] = Cardinality(Present')
    BY <1>1, <1>2, <1>3, <2>1, <2>6 DEF CountInv
  <2>10. CountInv'
    BY <2>2, <2>3, <2>4, <2>5, <2>7, <2>9 DEF CountInv, Steps, Counting
  <2>11. to = "entered" => \E q \in Readers : pc[q] = "read"
    BY <2>3, <2>5, <2>7 DEF Present, At, Counting
  <2>12. to = "entered" => sem["writers_mutex"] = 0 /\ \A w \in Writers : pc[w] \notin Section
    BY <1>1, <2>11 DEF SectionInv, Inside
  <2>13. SectionInv'
    BY <1>1, <1>4, <2>1, <2>2, <2>4, <2>12 DEF SectionInv, Steps, Inside
  <2> QED
    BY <1>4, <2>1, <2>4, <2>8, <2>10, <2>13 DEF CountedInv
<1>8. CASE Counted!FirstReader(r)
  <2>1. /\ pc[r] = "first" /\ pc' = [pc EXCEPT ![r] = "entered"] /\ mem' = mem
        /\ sem["writers_mutex"] = 1 /\ Sets("writers_mutex", 0)
    BY <1>1, <1>3, <1>8, CountedDown DEF Counted!FirstReader, Counted!Go
  <2>2. CountedType' /\ Steps(r, "entered") /\ sem'["readers_mutex"] = sem["readers_mutex"]
    BY <1>1, <1>2, <1>3, <2>1, CountedMoves DEF ReaderLabels, Counting, Sets
  <2>3. MutexInv'
    BY <1>5, <2>1, <2>2 DEF MutexInv, Steps, Counting
  <2>4. Present' = Present
    BY <2>1, <2>2 DEF Present, At, Steps
  <2>5. CountInv'
    BY <1>1, <2>1, <2>2, <2>4 DEF CountInv, Steps
  <2>6. SectionInv'
    BY <1>1, <1>4, <2>1, <2>2 DEF SectionInv, Steps, Sets
  <2> QED
    BY <1>4, <2>1, <2>2, <2>3, <2>5, <2>6 DEF CountedInv
<1>9. CASE Counted!Entered(r) \/ Counted!Left(r)
  <2>1. PICK to \in {"read", "end"} :
          /\ pc[r] = IF to = "read" THEN "entered" ELSE "left"
          /\ pc' = [pc EXCEPT ![r] = to] /\ mem' = mem /\ Counted!Up("readers_mutex")
    BY <1>9 DEF Counted!Entered, Counted!Left, Counted!Go
  <2>2. /\ sem["readers_mutex"] = 0 /\ \A q \in Readers : q # r => pc[q] \notin Counting
    BY <1>5, <2>1 DEF Counting
  <2>3. Sets("readers_mutex", 1)
    BY <1>1, <1>3, <2>1, <2>2, CountedUp
  <2>4. CountedType' /\ Steps(r, to) /\ sem'["writers_mutex"] = sem["writers_mutex"]
    BY <1>1, <1>2, <1>3, <2>1, <2>3, CountedMoves DEF ReaderLabels, Sets
  <2>5. MutexInv'
    BY <2>1, <2>2, <2>4 DEF MutexInv, Steps, Counting
  <2>6. Present' = Present
    BY <2>1, <2>4 DEF Present, At, Steps
  <2>7. CountInv'
    BY <1>1, <2>1, <2>4, <2>6 DEF CountInv, Steps
  <2>8. SectionInv'
    BY <1>1, <1>4, <2>1, <2>4 DEF SectionInv, Steps, Inside
  <2> QED
    BY <1>4, <2>1, <2>4, <2>5, <2>7, <2>8 DEF CountedInv
<1>10. CASE Counted!Uncount(r)
  <2> DEFINE to == IF mem.reader_count[One] = 1 THEN "last" ELSE "left"
  <2>1. /\ pc[r] = "uncount" /\ pc' = [pc EXCEPT ![r] = to] /\ sem' = sem
        /\ mem' = [resource |-> mem.resource, reg |-> mem.reg,
                   reader_count |-> [mem.reader_count EXCEPT ![One] = @ - 1]]
    BY <1>2, <1>3, <1>10 DEF Counted!Uncount, Counted!Go
  <2>2. /\ to \in {"last", "left"}
        /\ to = "last" => mem.reader_count[One] = 1
    OBVIOUS
  <2> HIDE DEF to
  <2>3. CountedType' /\ Steps(r, to)
    BY <1>1, <1>2, <1>3, <2>1, <2>2, CountedMoves, CountedKept DEF ReaderLabels, Counting
  <2>4. r \in Present /\ Present' = Present \ {r}
    BY <2>1, <2>2, <2>3 DEF Present, At, Steps
  <2>5. Cardinality(Present') = Cardinality(Present) - 1
    BY <1>2, <2>4, OneLess
  <2>6. IsFiniteSet(Present')
    BY <1>2, <2>4, FS_Subset
  <2>7. to = "last" => Present' = {}
    BY <1>1, <2>2, <2>5, <2>6, FS_EmptySet DEF CountInv
  <2>8. \A q \in Readers : q # r => pc[q] \notin Counting
    BY <1>5, <2>1 DEF Counting
  <2>9. MutexInv'
    BY <1>5, <2>1, <2>3, <2>8 DEF MutexInv, Steps, Counting
  <2>10. mem'.reader_count[One] = Cardinality(Present')
    BY <1>1, <1>2, <1>3, <2>1, <2>5 DEF CountInv
  <2>11. CountInv'
    BY <2>2, <2>3, <2>7, <2>8, <2>10 DEF CountInv, Steps, Counting
  <2>12. SectionInv'
    BY <1>1, <1>4, <2>1, <2>2, <2>3 DEF SectionInv, Steps, Inside
  <2> QED
    BY <1>4, <2>1, <2>3, <2>9, <2>11, <2>12 DEF CountedInv
(* The last to go leaves nobody inside.                                    *)
<1>11. CASE Counted!LastReader(r)
  <2>1. pc[r] = "last" /\ pc' = [pc EXCEPT ![r] = "left"] /\ mem' = mem
    BY <1>11 DEF Counted!LastReader, Counted!Go
  <2>2. sem["writers_mutex"] = 0 /\ \A w \in Writers : pc[w] \notin Section
    BY <1>1, <2>1 DEF SectionInv, Inside
  <2>3. Sets("writers_mutex", 1)
    BY <1>1, <1>3, <1>11, <2>2, CountedUp DEF Counted!LastReader
  <2>4. CountedType' /\ Steps(r, "left") /\ sem'["readers_mutex"] = sem["readers_mutex"]
    BY <1>1, <1>2, <1>3, <2>1, <2>3, CountedMoves DEF ReaderLabels, Counting, Sets
  <2>5. Present = {} /\ \A q \in Readers : q # r => pc[q] \notin Counting
    BY <1>1, <1>5, <2>1 DEF CountInv, Counting
  <2>6. \A q \in Readers : q # r => pc[q] \notin Inside
    BY <2>5 DEF Present, At, Inside, Counting
  <2>7. MutexInv'
    BY <1>5, <2>1, <2>4 DEF MutexInv, Steps, Counting
  <2>8. Present' = Present
    BY <2>1, <2>4 DEF Present, At, Steps
  <2>9. CountInv'
    BY <1>1, <2>1, <2>4, <2>8 DEF CountInv, Steps
  <2>10. SectionInv'
    BY <1>4, <2>1, <2>2, <2>4, <2>6 DEF SectionInv, Steps, Inside
  <2> QED
    BY <1>4, <2>1, <2>4, <2>7, <2>9, <2>10 DEF CountedInv
<1> QED
  BY <1>6, <1>7, <1>8, <1>9, <1>10, <1>11 DEF Counted!Reader

LEMMA CountedStep == CountedInv /\ Counted!Next => CountedInv'
BY CountedReader, CountedWriter DEF Counted!Next

-----------------------------------------------------------------------------
(* A step in which no thread of the program moves.                         *)
LEMMA TableRests == TableInv /\ UNCHANGED vars => TableInv'
BY DEF vars, TableInv, TableType, ForkInv, Holds, Table!First, Table!Second

LEMMA MonitorRests == MonitorInv /\ UNCHANGED vars => MonitorInv'
BY DEF vars, MonitorInv, MonitorType

LEMMA RwlRests == RwlInv /\ UNCHANGED vars => RwlInv'
<1>1. UNCHANGED vars => UNCHANGED ReadersIn
  BY DEF vars, ReadersIn, At
<1> QED
  BY <1>1 DEF vars, RwlInv, RwlType, LockInv, DataInv, SleepInv, Rwl!NobodyOversleeps

LEMMA CountedRests == CountedInv /\ UNCHANGED vars => CountedInv'
<1>1. UNCHANGED vars => UNCHANGED <<Present, Done>>
  BY DEF vars, Present, Done, At
<1> QED
  BY <1>1 DEF vars, CountedInv, CountedType, MutexInv, CountInv, SectionInv, ResourceInv

LEMMA PillowRests == PillowInv /\ UNCHANGED vars => PillowInv'
BY DEF vars, PillowInv, PillowType, ChairInv, TurnInv, HomeInv

LEMMA SmokingRests == SmokingInv /\ UNCHANGED vars => SmokingInv'
BY DEF vars, SmokingInv

LEMMA RingRests == RingInv /\ UNCHANGED vars => RingInv'
BY DEF vars, RingInv, Ring!NobodyOversleeps

-----------------------------------------------------------------------------
(* cron.c's sleep.                                                         *)
LEMMA DaemonStart == Daemon!Init => DaemonInv
BY IpcAssumption DEF Daemon!Init, Daemon!main, Daemon!at, DaemonInv, DaemonType, PlanInv

(* Where a step has led.                                                   *)
LEMMA DaemonGoes ==
    ASSUME DaemonType, NEW t \in {"main", "at"}, NEW to, pc' = [pc EXCEPT ![t] = to]
    PROVE  /\ pc' = [u \in {"main", "at"} |-> pc'[u]]
           /\ pc'[t] = to
           /\ \A u \in {"main", "at"} : u # t => pc'[u] = pc[u]
BY DEF DaemonType

LEMMA DaemonWorld ==
    ASSUME DaemonInv, Daemon!Tick \/ Daemon!sigchld_handler \/ Daemon!Spool \/ Daemon!Poke
    PROVE  DaemonInv'
<1> USE DEF Daemon!main, Daemon!at, DaemonInv
<1>1. CASE Daemon!Tick
  <2>1. pc' = pc
    BY <1>1 DEF Daemon!Tick, Daemon!Go
  <2>2. mem' = [now |-> mem.now + 1, timeRunning |-> mem.timeRunning, t1 |-> mem.t1, since |-> mem.since,
                tv |-> mem.tv, got_sigchld |-> mem.got_sigchld, unborn |-> mem.unborn,
                alive |-> mem.alive, zombies |-> mem.zombies, back |-> mem.back,
                pokes |-> mem.pokes, spooled |-> mem.spooled, known |-> mem.known]
    BY <1>1 DEF Daemon!Tick, DaemonType
  <2>3. pc'["main"] = pc["main"] /\ pc'["at"] = pc["at"] /\ pc' = [u \in {"main", "at"} |-> pc'[u]]
    BY <2>1 DEF DaemonType
  <2>4. DaemonType'
    BY <2>1, <2>2, <2>3 DEF DaemonType
  <2>5. PlanInv'
    BY <2>1, <2>2, <2>3 DEF DaemonType, PlanInv
  <2> QED
    BY <2>1, <2>2, <2>3, <2>4, <2>5 DEF DaemonType
<1>2. CASE Daemon!sigchld_handler
  <2>0. ASSUME NEW left \in Daemon!Left
        PROVE  left \in Int /\ left <= mem.tv
    BY DEF Daemon!Left, Daemon!Slept, Daemon!Expired, DaemonType
  <2>1. PICK c \in mem.alive, left \in Daemon!Left :
          mem' = [mem EXCEPT !.alive = @ \ {c}, !.zombies = @ \cup {c}, !.got_sigchld = TRUE,
                             !.tv = left]
    BY <1>2, Zenon DEF Daemon!sigchld_handler
  <2>2. mem' = [now |-> mem.now, timeRunning |-> mem.timeRunning, t1 |-> mem.t1, since |-> mem.since,
                tv |-> left, got_sigchld |-> TRUE, unborn |-> mem.unborn,
                alive |-> mem.alive \ {c}, zombies |-> mem.zombies \cup {c},
                back |-> mem.back, pokes |-> mem.pokes, spooled |-> mem.spooled,
                known |-> mem.known]
    BY <2>1 DEF DaemonType
  <2>7. Daemon!Interrupt
    BY <1>2, Zenon DEF Daemon!sigchld_handler
  <2>3. \/ pc["main"] # "select" /\ pc' = pc
        \/ pc["main"] = "select" /\ pc' = [pc EXCEPT !["main"] = "signals"]
    BY <2>7 DEF Daemon!Interrupt, Daemon!Go
  <2>4. /\ pc' = [u \in {"main", "at"} |-> pc'[u]] /\ pc'["at"] = pc["at"]
        /\ \/ pc["main"] # "select" /\ pc'["main"] = pc["main"]
           \/ pc["main"] = "select" /\ pc'["main"] = "signals"
    BY <2>3, DaemonGoes DEF DaemonType
  <2>5. DaemonType'
    BY <2>0, <2>2, <2>4 DEF DaemonType
  <2>6. PlanInv'
    <3>1. (mem.timeRunning + 1) * SECONDS \in Nat
      BY IpcAssumption DEF DaemonType
    <3> QED BY <2>0, <2>1, <2>2, <2>4, <3>1 DEF PlanInv, DaemonType
  <2> QED
    BY <2>2, <2>4, <2>5, <2>6 DEF DaemonType
<1>3. CASE Daemon!Spool
  <2>1. pc["at"] = "idle" /\ pc' = [pc EXCEPT !["at"] = "spooled"]
    BY <1>3 DEF Daemon!Spool, Daemon!Go
  <2>2. mem' = [now |-> mem.now, timeRunning |-> mem.timeRunning, t1 |-> mem.t1, since |-> mem.since,
                tv |-> mem.tv, got_sigchld |-> mem.got_sigchld, unborn |-> mem.unborn,
                alive |-> mem.alive, zombies |-> mem.zombies, back |-> mem.back,
                pokes |-> mem.pokes, spooled |-> TRUE, known |-> mem.known]
    BY <1>3 DEF Daemon!Spool, DaemonType
  <2>3. /\ pc'["at"] = "spooled" /\ pc'["main"] = pc["main"]
        /\ pc' = [u \in {"main", "at"} |-> pc'[u]]
    BY <2>1, DaemonGoes
  <2>4. DaemonType'
    BY <2>1, <2>2, <2>3 DEF DaemonType
  <2>5. PlanInv'
    BY <2>1, <2>2, <2>3 DEF DaemonType, PlanInv
  <2> QED
    BY <2>1, <2>2, <2>3, <2>4, <2>5 DEF DaemonType
<1>4. CASE Daemon!Poke
  <2>1. pc["at"] = "spooled" /\ pc' = [pc EXCEPT !["at"] = "poked"]
    BY <1>4 DEF Daemon!Poke, Daemon!Go
  <2>2. mem' = [now |-> mem.now, timeRunning |-> mem.timeRunning, t1 |-> mem.t1, since |-> mem.since,
                tv |-> mem.tv, got_sigchld |-> mem.got_sigchld, unborn |-> mem.unborn,
                alive |-> mem.alive, zombies |-> mem.zombies, back |-> mem.back,
                pokes |-> mem.pokes + 1, spooled |-> mem.spooled, known |-> mem.known]
    BY <1>4 DEF Daemon!Poke, DaemonType
  <2>3. /\ pc'["at"] = "poked" /\ pc'["main"] = pc["main"]
        /\ pc' = [u \in {"main", "at"} |-> pc'[u]]
    BY <2>1, DaemonGoes
  <2>4. DaemonType'
    BY <2>1, <2>2, <2>3 DEF DaemonType
  <2>5. PlanInv'
    BY <2>1, <2>2, <2>3 DEF DaemonType, PlanInv
  <2> QED
    BY <2>1, <2>2, <2>3, <2>4, <2>5 DEF DaemonType
<1> QED
  BY <1>1, <1>2, <1>3, <1>4

LEMMA DaemonSleep ==
    ASSUME DaemonInv, \/ Daemon!Sleep \/ Daemon!Loop \/ Daemon!TimedOut \/ Daemon!Accept
                      \/ Daemon!SeeSignals \/ Daemon!SeeFlags
    PROVE  DaemonInv'
<1> USE DEF Daemon!main, Daemon!at, DaemonInv
<1>0. (mem.timeRunning + 1) * SECONDS \in Nat
  BY IpcAssumption DEF DaemonType
<1>1. CASE Daemon!Sleep
  <2>1. pc["main"] = "sleep" /\ pc' = [pc EXCEPT !["main"] = "loop"]
    BY <1>1 DEF Daemon!Sleep, Daemon!Go
  <2>2. mem' = [now |-> mem.now, timeRunning |-> mem.timeRunning, t1 |-> mem.now, since |-> mem.since,
                tv |-> (mem.timeRunning + 1) * SECONDS - mem.now + 1,
                got_sigchld |-> mem.got_sigchld, unborn |-> mem.unborn,
                alive |-> mem.alive, zombies |-> mem.zombies, back |-> mem.back,
                pokes |-> mem.pokes, spooled |-> mem.spooled, known |-> mem.known]
    BY <1>1 DEF Daemon!Sleep, DaemonType
  <2>3. /\ pc'["main"] = "loop" /\ pc'["at"] = pc["at"]
        /\ pc' = [u \in {"main", "at"} |-> pc'[u]]
    BY <2>1, DaemonGoes
  <2>4. DaemonType'
    BY <2>1, <2>2, <2>3, <1>0 DEF DaemonType
  <2>5. PlanInv'
    BY <2>1, <2>2, <2>3, <1>0 DEF DaemonType, PlanInv
  <2> QED
    BY <2>1, <2>2, <2>3, <2>4, <2>5 DEF DaemonType
<1>2. CASE Daemon!Loop
  <2>1. pc["main"] = "loop" /\ pc' = [pc EXCEPT !["main"] = (IF mem.tv <= 0 THEN "clock" ELSE "select")]
    BY <1>2 DEF Daemon!Loop, Daemon!Go
  <2>2. mem' = [now |-> mem.now, timeRunning |-> mem.timeRunning, t1 |-> mem.t1, since |-> mem.now,
                tv |-> mem.tv, got_sigchld |-> mem.got_sigchld, unborn |-> mem.unborn,
                alive |-> mem.alive, zombies |-> mem.zombies, back |-> mem.back,
                pokes |-> mem.pokes, spooled |-> mem.spooled, known |-> mem.known]
    BY <1>2 DEF Daemon!Loop, DaemonType
  <2>3. /\ pc'["main"] = (IF mem.tv <= 0 THEN "clock" ELSE "select") /\ pc'["at"] = pc["at"]
        /\ pc' = [u \in {"main", "at"} |-> pc'[u]]
    BY <2>1, DaemonGoes
  <2>4. DaemonType'
    BY <2>1, <2>2, <2>3 DEF DaemonType
  <2>5. PlanInv'
    BY <2>1, <2>2, <2>3 DEF DaemonType, PlanInv
  <2> QED
    BY <2>1, <2>2, <2>3, <2>4, <2>5 DEF DaemonType
<1>3. CASE Daemon!TimedOut
  <2>1. pc["main"] = "select" /\ pc' = [pc EXCEPT !["main"] = "clock"]
    BY <1>3 DEF Daemon!TimedOut, Daemon!Go
  <2>2. mem' = [now |-> mem.now, timeRunning |-> mem.timeRunning, t1 |-> mem.t1, since |-> mem.since,
                tv |-> mem.tv, got_sigchld |-> mem.got_sigchld, unborn |-> mem.unborn,
                alive |-> mem.alive, zombies |-> mem.zombies, back |-> mem.back,
                pokes |-> mem.pokes, spooled |-> mem.spooled, known |-> mem.known]
    BY <1>3 DEF Daemon!TimedOut, DaemonType
  <2>3. /\ pc'["main"] = "clock" /\ pc'["at"] = pc["at"]
        /\ pc' = [u \in {"main", "at"} |-> pc'[u]]
    BY <2>1, DaemonGoes
  <2>4. DaemonType'
    BY <2>1, <2>2, <2>3 DEF DaemonType
  <2>5. PlanInv'
    BY <2>1, <2>2, <2>3 DEF DaemonType, PlanInv
  <2> QED
    BY <2>1, <2>2, <2>3, <2>4, <2>5 DEF DaemonType
<1>4. CASE Daemon!Accept
  <2>1. pc["main"] = "select" /\ pc' = [pc EXCEPT !["main"] = "adjust"] /\ mem.pokes > 0
    BY <1>4, Zenon DEF Daemon!Accept, Daemon!Go
  <2>0. PICK left \in Daemon!Left :
          mem' = [mem EXCEPT !.pokes = @ - 1, !.spooled = FALSE, !.known = FALSE, !.tv = left]
    BY <1>4, Zenon DEF Daemon!Accept
  <2>9. left \in Int /\ left <= mem.tv
    BY <2>1 DEF Daemon!Left, Daemon!Slept, Daemon!Expired, DaemonType
  <2>2. mem' = [now |-> mem.now, timeRunning |-> mem.timeRunning, t1 |-> mem.t1, since |-> mem.since,
                tv |-> left, got_sigchld |-> mem.got_sigchld, unborn |-> mem.unborn,
                alive |-> mem.alive, zombies |-> mem.zombies, back |-> mem.back,
                pokes |-> mem.pokes - 1, spooled |-> FALSE, known |-> FALSE]
    BY <2>0 DEF DaemonType
  <2>3. /\ pc'["main"] = "adjust" /\ pc'["at"] = pc["at"]
        /\ pc' = [u \in {"main", "at"} |-> pc'[u]]
    BY <2>1, DaemonGoes
  <2>4. DaemonType'
    BY <2>1, <2>2, <2>3, <2>9 DEF DaemonType
  <2>5. PlanInv'
    BY <1>0, <2>1, <2>2, <2>3, <2>9 DEF DaemonType, PlanInv
  <2> QED
    BY <2>1, <2>2, <2>3, <2>4, <2>5 DEF DaemonType
<1>5. CASE Daemon!SeeSignals
  <2>1. pc["main"] = "signals" /\ pc' = [pc EXCEPT !["main"] = (IF mem.got_sigchld THEN "reap" ELSE "adjust")]
    BY <1>5 DEF Daemon!SeeSignals, Daemon!Go, Daemon!Flags
  <2>2. mem' = [now |-> mem.now, timeRunning |-> mem.timeRunning, t1 |-> mem.t1, since |-> mem.since,
                tv |-> mem.tv, got_sigchld |-> FALSE, unborn |-> mem.unborn,
                alive |-> mem.alive, zombies |-> mem.zombies, back |-> "adjust",
                pokes |-> mem.pokes, spooled |-> mem.spooled, known |-> mem.known]
    BY <1>5 DEF Daemon!SeeSignals, DaemonType, Daemon!Flags
  <2>3. /\ pc'["main"] = (IF mem.got_sigchld THEN "reap" ELSE "adjust") /\ pc'["at"] = pc["at"]
        /\ pc' = [u \in {"main", "at"} |-> pc'[u]]
    BY <2>1, DaemonGoes
  <2>4. DaemonType'
    BY <2>1, <2>2, <2>3 DEF DaemonType
  <2>5. PlanInv'
    BY <2>1, <2>2, <2>3 DEF DaemonType, PlanInv
  <2> QED
    BY <2>1, <2>2, <2>3, <2>4, <2>5 DEF DaemonType
<1>6. CASE Daemon!SeeFlags
  <2>1. pc["main"] = "flags" /\ pc' = [pc EXCEPT !["main"] = (IF mem.got_sigchld THEN "reap" ELSE "load")]
    BY <1>6 DEF Daemon!SeeFlags, Daemon!Go, Daemon!Flags
  <2>2. mem' = [now |-> mem.now, timeRunning |-> mem.timeRunning, t1 |-> mem.t1, since |-> mem.since,
                tv |-> mem.tv, got_sigchld |-> FALSE, unborn |-> mem.unborn,
                alive |-> mem.alive, zombies |-> mem.zombies, back |-> "load",
                pokes |-> mem.pokes, spooled |-> mem.spooled, known |-> mem.known]
    BY <1>6 DEF Daemon!SeeFlags, DaemonType, Daemon!Flags
  <2>3. /\ pc'["main"] = (IF mem.got_sigchld THEN "reap" ELSE "load") /\ pc'["at"] = pc["at"]
        /\ pc' = [u \in {"main", "at"} |-> pc'[u]]
    BY <2>1, DaemonGoes
  <2>4. DaemonType'
    BY <2>1, <2>2, <2>3 DEF DaemonType
  <2>5. PlanInv'
    BY <2>1, <2>2, <2>3 DEF DaemonType, PlanInv
  <2> QED
    BY <2>1, <2>2, <2>3, <2>4, <2>5 DEF DaemonType
<1> QED
  BY <1>1, <1>2, <1>3, <1>4, <1>5, <1>6

(* A division by the length of a minute gives a minute.                    *)
LEMMA Minutes == \A n \in Nat : Daemon!Minute(n) \in Nat
BY IpcAssumption DEF Daemon!Minute

LEMMA DaemonWakes ==
    ASSUME DaemonInv, \/ Daemon!Reap \/ Daemon!Adjust
                      \/ Daemon!SetTime \/ Daemon!RunJobs \/ Daemon!Load
    PROVE  DaemonInv'
<1> USE DEF Daemon!main, Daemon!at, DaemonInv
<1>1. CASE Daemon!Reap
  <2>1. CASE mem.zombies = {}
    <3>1. /\ pc["main"] = "reap" /\ pc' = [pc EXCEPT !["main"] = mem.back]
          /\ mem' = mem
      BY <1>1, <2>1 DEF Daemon!Reap, Daemon!Go
    <3>2. /\ pc'["main"] = mem.back /\ pc'["at"] = pc["at"]
          /\ pc' = [u \in {"main", "at"} |-> pc'[u]]
      BY <3>1, DaemonGoes
    <3>3. DaemonType' /\ PlanInv'
      BY <2>1, <3>1, <3>2 DEF DaemonType, PlanInv
    <3> QED
      BY <2>1, <3>1, <3>2, <3>3 DEF DaemonType
  <2>2. CASE mem.zombies # {}
    <3>1. PICK c \in mem.zombies : mem' = [mem EXCEPT !.zombies = @ \ {c}]
      BY <1>1, <2>2 DEF Daemon!Reap
    <3>2. mem' = [now |-> mem.now, timeRunning |-> mem.timeRunning, t1 |-> mem.t1, since |-> mem.since,
                  tv |-> mem.tv, got_sigchld |-> mem.got_sigchld, unborn |-> mem.unborn,
                  alive |-> mem.alive, zombies |-> mem.zombies \ {c}, back |-> mem.back,
                  pokes |-> mem.pokes, spooled |-> mem.spooled, known |-> mem.known]
      BY <3>1 DEF DaemonType
    <3>3. pc["main"] = "reap" /\ pc' = pc
      BY <1>1, <2>2 DEF Daemon!Reap
    <3>4. DaemonType' /\ PlanInv'
      BY <3>2, <3>3 DEF DaemonType, PlanInv
    <3> QED
      BY <3>2, <3>3, <3>4
  <2> QED
    BY <2>1, <2>2
<1>2. CASE Daemon!Adjust
  <2>1. LET rest == mem.tv - (mem.now - mem.t1)
        IN  mem' = [mem EXCEPT !.tv = IF rest < 0 THEN 0 ELSE rest, !.t1 = mem.now]
    BY <1>2 DEF Daemon!Adjust
  <2>2. /\ mem'.tv \in Int /\ (mem'.tv > 0 => mem.now + mem'.tv <= mem.t1 + mem.tv)
        /\ mem' = [mem EXCEPT !.tv = mem'.tv, !.t1 = mem.now]
    BY <2>1 DEF DaemonType
  <2>3. mem' = [now |-> mem.now, timeRunning |-> mem.timeRunning, t1 |-> mem.now, since |-> mem.since,
                tv |-> mem'.tv, got_sigchld |-> mem.got_sigchld, unborn |-> mem.unborn,
                alive |-> mem.alive, zombies |-> mem.zombies, back |-> mem.back,
                pokes |-> mem.pokes, spooled |-> mem.spooled, known |-> mem.known]
    BY <2>2 DEF DaemonType
  <2>4. pc["main"] = "adjust" /\ pc' = [pc EXCEPT !["main"] = "loop"]
    BY <1>2 DEF Daemon!Adjust, Daemon!Go
  <2>5. /\ pc'["main"] = "loop" /\ pc'["at"] = pc["at"]
        /\ pc' = [u \in {"main", "at"} |-> pc'[u]]
    BY <2>4, DaemonGoes
  <2>6. (mem.timeRunning + 1) * SECONDS \in Nat
    BY IpcAssumption DEF DaemonType
  <2>7. DaemonType' /\ PlanInv'
    BY <2>2, <2>3, <2>4, <2>5, <2>6 DEF DaemonType, PlanInv
  <2> QED
    BY <2>3, <2>4, <2>5, <2>7 DEF DaemonType
<1>3. CASE Daemon!SetTime
  <2>1. pc["main"] = "clock" /\ pc' = [pc EXCEPT !["main"] = (IF Daemon!Minute(mem.now) = mem.timeRunning THEN "sleep" ELSE "jobs")]
    BY <1>3 DEF Daemon!SetTime, Daemon!Go
  <2>2. mem' = [now |-> mem.now, timeRunning |-> Daemon!Minute(mem.now), t1 |-> mem.t1, since |-> mem.since,
                tv |-> mem.tv, got_sigchld |-> mem.got_sigchld, unborn |-> mem.unborn,
                alive |-> mem.alive, zombies |-> mem.zombies, back |-> mem.back,
                pokes |-> mem.pokes, spooled |-> mem.spooled, known |-> mem.known]
    BY <1>3 DEF Daemon!SetTime, DaemonType
  <2>3. /\ pc'["main"] = (IF Daemon!Minute(mem.now) = mem.timeRunning THEN "sleep" ELSE "jobs") /\ pc'["at"] = pc["at"]
        /\ pc' = [u \in {"main", "at"} |-> pc'[u]]
    BY <2>1, DaemonGoes
  <2>4. DaemonType'
    BY <2>1, <2>2, <2>3, Minutes DEF DaemonType
  <2>5. PlanInv'
    BY <2>1, <2>2, <2>3, Minutes DEF DaemonType, PlanInv
  <2> QED
    BY <2>1, <2>2, <2>3, <2>4, <2>5 DEF DaemonType
<1>4. CASE Daemon!RunJobs
  <2>1. pc["main"] = "jobs" /\ pc' = [pc EXCEPT !["main"] = "flags"]
    BY <1>4 DEF Daemon!RunJobs, Daemon!Go
  <2>2. mem' = [now |-> mem.now, timeRunning |-> mem.timeRunning, t1 |-> mem.t1, since |-> mem.since,
                tv |-> mem.tv, got_sigchld |-> mem.got_sigchld, unborn |-> {},
                alive |-> mem.alive \cup mem.unborn, zombies |-> mem.zombies,
                back |-> mem.back, pokes |-> mem.pokes,
                spooled |-> (mem.spooled /\ ~mem.known), known |-> FALSE]
    BY <1>4 DEF Daemon!RunJobs, DaemonType
  <2>3. /\ pc'["main"] = "flags" /\ pc'["at"] = pc["at"]
        /\ pc' = [u \in {"main", "at"} |-> pc'[u]]
    BY <2>1, DaemonGoes
  <2>4. DaemonType'
    BY <2>1, <2>2, <2>3 DEF DaemonType
  <2>5. PlanInv'
    BY <2>1, <2>2, <2>3 DEF DaemonType, PlanInv
  <2> QED
    BY <2>1, <2>2, <2>3, <2>4, <2>5 DEF DaemonType
<1>5. CASE Daemon!Load
  <2>1. pc["main"] = "load" /\ pc' = [pc EXCEPT !["main"] = "sleep"]
    BY <1>5 DEF Daemon!Load, Daemon!Go
  <2>2. mem' = [now |-> mem.now, timeRunning |-> mem.timeRunning, t1 |-> mem.t1, since |-> mem.since,
                tv |-> mem.tv, got_sigchld |-> mem.got_sigchld, unborn |-> mem.unborn,
                alive |-> mem.alive, zombies |-> mem.zombies, back |-> mem.back,
                pokes |-> mem.pokes, spooled |-> mem.spooled, known |-> mem.spooled]
    BY <1>5 DEF Daemon!Load, DaemonType
  <2>3. /\ pc'["main"] = "sleep" /\ pc'["at"] = pc["at"]
        /\ pc' = [u \in {"main", "at"} |-> pc'[u]]
    BY <2>1, DaemonGoes
  <2>4. DaemonType'
    BY <2>1, <2>2, <2>3 DEF DaemonType
  <2>5. PlanInv'
    BY <2>1, <2>2, <2>3 DEF DaemonType, PlanInv
  <2> QED
    BY <2>1, <2>2, <2>3, <2>4, <2>5 DEF DaemonType
<1> QED
  BY <1>1, <1>2, <1>3, <1>4, <1>5

LEMMA DaemonStep == DaemonInv /\ Daemon!Next => DaemonInv'
BY DaemonWorld, DaemonSleep, DaemonWakes DEF Daemon!Next

LEMMA DaemonRests == DaemonInv /\ UNCHANGED vars => DaemonInv'
BY DEF vars, DaemonInv, DaemonType, PlanInv

LEMMA DaemonForgetsNothing == DaemonInv => Daemon!NothingForgotten
BY DEF DaemonInv, DaemonType, PlanInv, Daemon!NothingForgotten, Daemon!main, Daemon!at

-----------------------------------------------------------------------------
(* One thread of T goes to another place: what that does to a count.       *)
Enters(l, L) == IF l \in L THEN 1 ELSE 0
Goes(t, to) == pc' = [pc EXCEPT ![t] = to]
Went(T, t, to) == \A u \in T : pc'[u] = IF u = t THEN to ELSE pc[u]
LEMMA CountOnWay ==
    ASSUME NEW T, IsFiniteSet(T), NEW t \in T, NEW to, NEW L, Went(T, t, to)
    PROVE  /\ Cardinality(At(T, L)') = Cardinality(At(T, L)) + Enters(to, L) - Enters(pc[t], L)
           /\ Cardinality(At(T, L)) \in Nat
<1>1. IsFiniteSet(At(T, L)) /\ Cardinality(At(T, L)) \in Nat
  BY AtFinite
<1>2. CASE to \in L /\ pc[t] \notin L
  <2>1. At(T, L)' = At(T, L) \cup {t} /\ t \notin At(T, L)
    BY <1>2 DEF At, Went
  <2>2. Cardinality(At(T, L)') = Cardinality(At(T, L)) + 1
    BY <1>1, <2>1, FS_AddElement
  <2> QED
    BY <1>1, <1>2, <2>2 DEF Enters
<1>3. CASE to \notin L /\ pc[t] \in L
  <2>1. At(T, L)' = At(T, L) \ {t} /\ t \in At(T, L)
    BY <1>3 DEF At, Went
  <2>2. Cardinality(At(T, L)') = Cardinality(At(T, L)) - 1
    BY <1>1, <2>1, FS_RemoveElement
  <2> QED
    BY <1>1, <1>3, <2>2 DEF Enters
<1>4. CASE (to \in L) = (pc[t] \in L)
  <2>1. At(T, L)' = At(T, L)
    BY <1>4 DEF At, Went
  <2> QED
    BY <1>1, <1>4, <2>1 DEF Enters
<1> QED
  BY <1>2, <1>3, <1>4

(* Threads outside of T do not change what is counted in it.               *)
LEMMA CountAside ==
    ASSUME NEW T, NEW L, \A u \in T : pc'[u] = pc[u]
    PROVE  At(T, L)' = At(T, L)
BY DEF At

-----------------------------------------------------------------------------
(* The barber with a mutex.                                                *)
LEMMA ReadyPeople ==
    /\ Ready!Customers = 1 .. Clients /\ IsFiniteSet(Ready!Customers) /\ 0 \notin Ready!Customers
    /\ Ready!Customers \subseteq 0 .. Clients
    /\ Cardinality(Awaiting) \in Nat /\ Cardinality(Through) \in Nat
<1>1. Ready!Customers = 1 .. Clients /\ Clients \in Nat
  BY IpcAssumption DEF Ready!Customers
<1>2. IsFiniteSet(Ready!Customers)
  BY <1>1, FS_Interval
<1> QED
  BY <1>1, <1>2, AtFinite DEF Awaiting, Through

LEMMA ReadyStart == Ready!Init => ReadyInv
<1> SUFFICES ASSUME Ready!Init PROVE ReadyInv
  OBVIOUS
<1>1. \A c \in Ready!Customers : pc[c] = "enter"
  BY ReadyPeople DEF Ready!Init, Ready!barber
<1>2. Awaiting = {}
  BY <1>1 DEF Awaiting, At
<1>3. Cardinality(Awaiting) = 0
  BY <1>2, FS_EmptySet
<1>4. /\ pc \in [0 .. Clients -> {"sleep", "seats", "enter", "await", "through", "left"}]
      /\ pc[0] = "sleep"
  BY IpcAssumption DEF Ready!Init, Ready!barber
<1>5. sem = [barberReady |-> 1, custReady |-> 0] /\ mem = [freeSeats |-> Seats] /\ Seats \in Nat
  BY IpcAssumption DEF Ready!Init
<1> QED
  BY <1>1, <1>3, <1>4, <1>5 DEF ReadyInv, ReadyPlaces

Asks(t) == IF pc[t] = "await" THEN 1 ELSE 0
LEMMA ReadyMoves ==
    ASSUME ReadyInv, NEW t \in 0 .. Clients, NEW to, Goes(t, to),
           to \in {"sleep", "seats", "await", "through", "left"},
           t = 0 <=> to \in {"sleep", "seats"}
    PROVE  /\ ReadyPlaces'
           /\ pc'[t] = to /\ \A u \in 0 .. Clients : u # t => pc'[u] = pc[u]
           /\ Cardinality(Awaiting') = Cardinality(Awaiting) + Asks(t)' - Asks(t)
<1>1. pc' \in [0 .. Clients -> {"sleep", "seats", "enter", "await", "through", "left"}]
  BY DEF ReadyInv, ReadyPlaces, Goes
<1>2. pc'[t] = to /\ \A u \in 0 .. Clients : u # t => pc'[u] = pc[u]
  BY DEF ReadyInv, ReadyPlaces, Goes
<1>3. ReadyPlaces'
  <2>1. 0 \in 0 .. Clients /\ \A c \in Ready!Customers : c \in 0 .. Clients /\ c # 0
    BY ReadyPeople, IpcAssumption
  <2>2. pc'[0] \in {"sleep", "seats"}
    BY <1>2, <2>1 DEF ReadyInv, ReadyPlaces
  <2>3. ASSUME NEW c \in Ready!Customers PROVE pc'[c] \notin {"sleep", "seats"}
    BY <1>2, <2>1 DEF ReadyInv, ReadyPlaces
  <2> QED
    BY <1>1, <2>2, <2>3 DEF ReadyPlaces
<1>4. CASE t = 0
  <2>1. \A u \in Ready!Customers : pc'[u] = pc[u]
    BY <1>2, <1>4, ReadyPeople
  <2>2. Awaiting' = Awaiting
    BY <2>1, CountAside DEF Awaiting
  <2>3. Asks(t)' = 0 /\ Asks(t) = 0
    BY <1>2, <1>4 DEF Asks, ReadyInv, ReadyPlaces
  <2> QED
    BY <1>2, <1>3, <2>2, <2>3, ReadyPeople
<1>5. CASE t # 0
  <2>1. t \in Ready!Customers /\ IsFiniteSet(Ready!Customers)
    BY <1>5, ReadyPeople
  <2>2. Went(Ready!Customers, t, to)
    BY <1>2, ReadyPeople DEF Went
  <2>3. Cardinality(At(Ready!Customers, {"await"})')
           = Cardinality(At(Ready!Customers, {"await"}))
               + Enters(to, {"await"}) - Enters(pc[t], {"await"})
    BY <2>1, <2>2, CountOnWay
  <2>4. Enters(to, {"await"}) = Asks(t)' /\ Enters(pc[t], {"await"}) = Asks(t)
    BY <1>2 DEF Asks, Enters
  <2> QED
    BY <1>2, <1>3, <2>3, <2>4 DEF Awaiting
<1> QED
  BY <1>4, <1>5

LEMMA ReadyStep == ReadyInv /\ Ready!Next => ReadyInv'
<1> SUFFICES ASSUME ReadyInv, Ready!Next PROVE ReadyInv'
  OBVIOUS
<1>1. ASSUME NEW c \in Ready!Customers, Ready!Enter(c)
      PROVE  ReadyInv'
  <2>0. c \in 0 .. Clients /\ c # 0 /\ 0 \in 0 .. Clients
    BY ReadyPeople, IpcAssumption
  <2>1. CASE mem.freeSeats > 0
    <3>1. /\ pc[c] = "enter" /\ Goes(c, "await")
          /\ mem' = [freeSeats |-> mem.freeSeats - 1]
          /\ sem' = [sem EXCEPT !["custReady"] = @ + 1]
      BY <1>1, <2>1 DEF Ready!Enter, Ready!Go, Goes, Ready!Up, ReadyInv
    <3>2. ReadyPlaces' /\ Cardinality(Awaiting') = Cardinality(Awaiting) + 1 /\ pc'[0] = pc[0]
      BY <2>0, <3>1, ReadyMoves, ReadyPeople DEF Asks
    <3>3. /\ sem' \in [{"barberReady", "custReady"} -> Nat] /\ mem' \in [freeSeats : Nat]
          /\ sem'["custReady"] = sem["custReady"] + 1 /\ sem'["barberReady"] = sem["barberReady"]
          /\ mem'.freeSeats = mem.freeSeats - 1
      BY <2>1, <3>1 DEF ReadyInv
    <3>4. /\ mem.freeSeats \in Nat /\ sem["custReady"] \in Nat /\ Cardinality(Awaiting) \in Nat
          /\ sem["barberReady"] \in Nat /\ Seats \in Nat
      BY ReadyPeople, IpcAssumption DEF ReadyInv
    <3>5. mem'.freeSeats + sem'["custReady"] + (IF pc'[0] = "seats" THEN 1 ELSE 0) = Seats
      BY <3>2, <3>3, <3>4 DEF ReadyInv
    <3>6. sem'["barberReady"] <= mem'.freeSeats - Seats + Cardinality(Awaiting') + 1
      BY <3>2, <3>3, <3>4 DEF ReadyInv
    <3> QED
      BY <3>2, <3>3, <3>5, <3>6 DEF ReadyInv
  <2>2. CASE ~(mem.freeSeats > 0)
    <3>1. pc[c] = "enter" /\ Goes(c, "left") /\ UNCHANGED <<mem, sem>>
      BY <1>1, <2>2 DEF Ready!Enter, Ready!Go, Goes
    <3>2. ReadyPlaces' /\ Cardinality(Awaiting') = Cardinality(Awaiting) /\ pc'[0] = pc[0]
      BY <2>0, <3>1, ReadyMoves, ReadyPeople DEF Asks
    <3> QED
      BY <2>0, <3>1, <3>2, ReadyPeople DEF ReadyInv
  <2> QED
    BY <2>1, <2>2
<1>2. ASSUME NEW c \in Ready!Customers, Ready!AwaitBarber(c)
      PROVE  ReadyInv'
  <2>0. c \in 0 .. Clients /\ c # 0 /\ 0 \in 0 .. Clients
    BY ReadyPeople, IpcAssumption
  <2>1. /\ pc[c] = "await" /\ Goes(c, "through") /\ mem' = mem
        /\ sem["barberReady"] > 0 /\ sem' = [sem EXCEPT !["barberReady"] = @ - 1]
    BY <1>2 DEF Ready!AwaitBarber, Ready!Go, Goes, Ready!Down
  <2>2. ReadyPlaces' /\ Cardinality(Awaiting') = Cardinality(Awaiting) - 1 /\ pc'[0] = pc[0]
    BY <2>0, <2>1, ReadyMoves, ReadyPeople DEF Asks
  <2>3. /\ sem' \in [{"barberReady", "custReady"} -> Nat] /\ mem' = mem
        /\ sem'["custReady"] = sem["custReady"] /\ sem'["barberReady"] = sem["barberReady"] - 1
    BY <2>1 DEF ReadyInv
  <2>4. /\ mem \in [freeSeats : Nat] /\ sem["barberReady"] \in Nat /\ Cardinality(Awaiting) \in Nat
        /\ mem.freeSeats + sem["custReady"] + (IF pc[0] = "seats" THEN 1 ELSE 0) = Seats
        /\ sem["barberReady"] <= mem.freeSeats - Seats + Cardinality(Awaiting) + 1 /\ Seats \in Nat
    BY ReadyPeople, IpcAssumption DEF ReadyInv
  <2>5. sem'["barberReady"] <= mem'.freeSeats - Seats + Cardinality(Awaiting') + 1
    BY <2>2, <2>3, <2>4
  <2> QED
    BY <2>2, <2>3, <2>4, <2>5 DEF ReadyInv
<1>3. CASE Ready!Sleep
  <2>1. /\ pc[0] = "sleep" /\ Goes(0, "seats") /\ mem' = mem
        /\ sem["custReady"] > 0 /\ sem' = [sem EXCEPT !["custReady"] = @ - 1]
    BY <1>3 DEF Ready!Sleep, Ready!Go, Goes, Ready!Down, Ready!barber
  <2>2. ReadyPlaces' /\ Cardinality(Awaiting') = Cardinality(Awaiting) /\ pc'[0] = "seats" /\ 0 \in 0 .. Clients
    BY <2>1, ReadyMoves, ReadyPeople, IpcAssumption DEF Asks
  <2> QED
    BY <2>1, <2>2, ReadyPeople DEF ReadyInv
<1>4. CASE Ready!DeclareReady
  <2>1. /\ pc[0] = "seats" /\ Goes(0, "sleep")
        /\ mem' = [freeSeats |-> mem.freeSeats + 1]
        /\ sem' = [sem EXCEPT !["barberReady"] = 1]
    BY <1>4 DEF Ready!DeclareReady, Ready!Go, Goes, Ready!barber, ReadyInv
  <2>2. ReadyPlaces' /\ Cardinality(Awaiting') = Cardinality(Awaiting) /\ pc'[0] = "sleep" /\ 0 \in 0 .. Clients
    BY <2>1, ReadyMoves, ReadyPeople, IpcAssumption DEF Asks
  <2>3. sem["barberReady"] >= 0
    BY DEF ReadyInv
  <2>4. /\ sem' \in [{"barberReady", "custReady"} -> Nat] /\ mem' \in [freeSeats : Nat]
        /\ sem'["custReady"] = sem["custReady"] /\ sem'["barberReady"] = 1
        /\ mem'.freeSeats = mem.freeSeats + 1
    BY <2>1 DEF ReadyInv
  <2>5. /\ mem.freeSeats \in Nat /\ sem["custReady"] \in Nat /\ Cardinality(Awaiting) \in Nat
        /\ Seats \in Nat
    BY ReadyPeople, IpcAssumption DEF ReadyInv
  <2>6. mem'.freeSeats + sem'["custReady"] + (IF pc'[0] = "seats" THEN 1 ELSE 0) = Seats
    BY <2>1, <2>2, <2>4, <2>5 DEF ReadyInv
  <2>7. sem'["barberReady"] <= mem'.freeSeats - Seats + Cardinality(Awaiting') + 1
    BY <2>2, <2>3, <2>4, <2>5 DEF ReadyInv
  <2> QED
    BY <2>2, <2>4, <2>6, <2>7 DEF ReadyInv
<1> QED
  BY <1>1, <1>2, <1>3, <1>4 DEF Ready!Next

LEMMA ReadyRests == ReadyInv /\ UNCHANGED vars => ReadyInv'
BY DEF vars, ReadyInv, ReadyPlaces, Awaiting, At

LEMMA ReadySeats == ReadyInv => Ready!SeatsCounted
<1> SUFFICES ASSUME ReadyInv PROVE Ready!SeatsCounted
  OBVIOUS
<1> DEFINE seated == IF pc[0] = "seats" THEN {0} ELSE {}
           both == Ready!At(Ready!Customers, {"await", "through"})
<1>1. Ready!At({0}, {"seats"}) = seated
  BY DEF Ready!At
<1>2. /\ Ready!Cardinality(Ready!At({0}, {"seats"})) = Cardinality(seated)
      /\ Ready!Cardinality(Ready!At(Ready!Customers, {"through"})) = Cardinality(Through)
      /\ Ready!Cardinality(both) = Cardinality(both)
  BY Zenon, <1>1 DEF Cardinality, Ready!Cardinality, Ready!At, At, Through
<1>3. Cardinality(seated) = IF pc[0] = "seats" THEN 1 ELSE 0
  BY FS_EmptySet, FS_Singleton
<1>4. both = Awaiting \cup Through /\ Awaiting \cap Through = {}
  BY DEF Ready!At, At, Awaiting, Through
<1>5. IsFiniteSet(Awaiting) /\ IsFiniteSet(Through)
  BY ReadyPeople, AtFinite DEF Awaiting, Through
<1>6. Cardinality(both) = Cardinality(Awaiting) + Cardinality(Through)
  <2>1. Cardinality(Awaiting \cap Through) = 0
    BY <1>4, FS_EmptySet
  <2>2. Cardinality(Awaiting \cup Through)
           = Cardinality(Awaiting) + Cardinality(Through) - Cardinality(Awaiting \cap Through)
    BY <1>5, FS_Union
  <2>3. Cardinality(both) = Cardinality(Awaiting \cup Through)
    BY <1>4
  <2> QED
    BY <2>1, <2>2, <2>3, ReadyPeople
<1>7. /\ mem.freeSeats + sem["custReady"] + (IF pc[0] = "seats" THEN 1 ELSE 0) = Seats
      /\ sem["barberReady"] <= mem.freeSeats - Seats + Cardinality(Awaiting) + 1
      /\ sem["barberReady"] \in Nat /\ sem["custReady"] \in Nat /\ mem.freeSeats \in Nat
      /\ Seats \in Nat
  BY IpcAssumption DEF ReadyInv
<1>8. /\ mem.freeSeats + sem["custReady"] + Cardinality(seated) = Seats
      /\ Cardinality(Through) <= mem.freeSeats - Seats + Cardinality(both) + 1
  <2> HIDE DEF both, seated
  <2>1. Cardinality(Through) \in Nat /\ Cardinality(Awaiting) \in Nat
    BY ReadyPeople
  <2> QED
    BY <1>3, <1>6, <1>7, <2>1
<1>9. /\ mem.freeSeats + sem["custReady"] + Ready!Cardinality(Ready!At({0}, {"seats"})) = Seats
      /\ Ready!Cardinality(Ready!At(Ready!Customers, {"through"}))
           <= mem.freeSeats - Seats + Ready!Cardinality(both) + 1
  <2> HIDE DEF both, seated
  <2> QED
    BY <1>2, <1>8
<1> QED
  BY <1>9 DEF Ready!SeatsCounted, Ready!barber

-----------------------------------------------------------------------------
(* The stack.                                                              *)
LEMMA KeptAppend ==
    ASSUME NEW s \in Seq(Nat), NEW e \in Nat
    PROVE  /\ Append(s, e) \in Seq(Nat) /\ Len(Append(s, e)) = Len(s) + 1
           /\ Kept(Append(s, e)) = Kept(s) \cup {e}
<1>1. /\ Append(s, e) \in Seq(Nat) /\ Len(Append(s, e)) = Len(s) + 1
      /\ \A k \in 1 .. Len(s) : Append(s, e)[k] = s[k]
      /\ Append(s, e)[Len(s) + 1] = e
      /\ DOMAIN Append(s, e) = 1 .. Len(s) + 1 /\ DOMAIN s = 1 .. Len(s) /\ Len(s) \in Nat
  OBVIOUS
<1>2. \A k \in 1 .. Len(s) + 1 : k \in 1 .. Len(s) \/ k = Len(s) + 1
  BY <1>1
<1>3. Len(s) + 1 \in 1 .. Len(s) + 1 /\ 1 .. Len(s) \subseteq 1 .. Len(s) + 1
  BY <1>1
<1> QED
  BY <1>1, <1>2, <1>3 DEF Kept

LEMMA KeptFront ==
    ASSUME NEW s \in Seq(Nat), Len(s) > 0
    PROVE  /\ SubSeq(s, 1, Len(s) - 1) \in Seq(Nat) /\ Len(SubSeq(s, 1, Len(s) - 1)) = Len(s) - 1
           /\ Kept(SubSeq(s, 1, Len(s) - 1)) \cup {s[Len(s)]} = Kept(s)
           /\ s[Len(s)] \in Nat
<1> DEFINE f == SubSeq(s, 1, Len(s) - 1)
<1>1. Len(s) \in Nat /\ DOMAIN s = 1 .. Len(s) /\ s[Len(s)] \in Nat
  OBVIOUS
<1>2. f \in Seq(Nat)
  OBVIOUS
<1>3. Len(f) = Len(s) - 1 /\ DOMAIN f = 1 .. Len(s) - 1
  BY <1>1
<1>4. \A k \in 1 .. Len(s) - 1 : f[k] = s[k]
  <2>1. \A k \in 1 .. Len(s) - 1 : s[k] \in Nat
    BY <1>1
  <2>2. \A k \in 1 .. Len(s) - 1 - 1 + 1 : SubSeq(s, 1, Len(s) - 1)[k] = s[1 + k - 1]
    BY <1>1, <2>1, SubSeqProperties
  <2> QED
    BY <1>1, <2>2
<1> HIDE DEF f
<1>5. \A k \in 1 .. Len(s) : k \in 1 .. Len(s) - 1 \/ k = Len(s)
  <2>1. \A n \in Nat : \A k \in 1 .. n : k \in 1 .. n - 1 \/ k = n
    OBVIOUS
  <2>2. Len(s) \in Nat
    BY <1>1
  <2> QED
    BY <2>1, <2>2
<1>6. Len(s) \in 1 .. Len(s) /\ 1 .. Len(s) - 1 \subseteq 1 .. Len(s)
  <2>1. \A n \in Nat \ {0} : n \in 1 .. n /\ 1 .. n - 1 \subseteq 1 .. n
    OBVIOUS
  <2>2. Len(s) \in Nat \ {0}
    BY <1>1
  <2> QED
    BY <2>1, <2>2
<1>7. Kept(f) \cup {s[Len(s)]} = Kept(s)
  BY <1>1, <1>3, <1>4, <1>5, <1>6 DEF Kept
<1> QED
  BY <1>1, <1>2, <1>3, <1>7 DEF f

LEMMA BufferSize == BUF_SIZE \in Nat /\ BUF_SIZE > 0
BY IpcAssumption

LEMMA StackStart == Stack!Init => StackInv
<1> SUFFICES ASSUME Stack!Init PROVE StackInv
  OBVIOUS
<1>1. /\ pc = [t \in {1, 2} |-> "down"] /\ sem = [empty_count |-> BUF_SIZE, full_count |-> 0]
      /\ mem = [items |-> <<>>, made |-> 0, got |-> <<>>] /\ BUF_SIZE \in Nat
  BY IpcAssumption DEF Stack!Init, Stack!Producer, Stack!Consumer
<1>2. Kept(<<>>) = {} /\ 0 .. 0 - 1 = {}
  BY DEF Kept
<1>3. Kept(mem.got) \cup Kept(mem.items) = 0 .. mem.made - 1
  BY <1>1, <1>2
<1> QED
  BY <1>1, <1>3 DEF StackInv, StackType, StackCounts, StackHolds, Busy

(* The steps that wait and post.                                           *)
LEMMA StackSemaphores ==
    ASSUME StackInv, Stack!DownEmpty \/ Stack!UpFull \/ Stack!DownFull \/ Stack!UpEmpty
    PROVE  StackInv'
<1> USE DEF Stack!Producer, Stack!Consumer, Stack!Go, Stack!Up, Stack!Down
<1>1. mem' = mem /\ mem.items \in Seq(Nat) /\ Len(mem.items) \in Nat
  BY DEF Stack!DownEmpty, Stack!UpFull, Stack!DownFull, Stack!UpEmpty, StackInv, StackType
<1>2. CASE Stack!DownEmpty
  <2>1. /\ pc[1] = "down" /\ pc'[1] \in {"add"} /\ pc'[2] = pc[2]
        /\ pc' \in [{1, 2} -> {"down", "add", "take", "up", "end"}] /\ sem["empty_count"] > 0
        /\ sem' = [sem EXCEPT !["empty_count"] = @ - 1]
    BY <1>2 DEF Stack!DownEmpty, StackInv, StackType
  <2>2. /\ Busy(1, "add") = 0 /\ Busy(1, "add")' = 1
        /\ Busy(1, "up") = 0 /\ Busy(1, "up")' = 0
        /\ Busy(2, "take")' = Busy(2, "take") /\ Busy(2, "up")' = Busy(2, "up")
        /\ Busy(2, "take") \in Nat /\ Busy(2, "up") \in Nat
    BY <2>1 DEF Busy
  <2>3. /\ sem' \in [{"empty_count", "full_count"} -> Nat]
        /\ sem'["empty_count"] = sem["empty_count"] - 1 /\ sem'["full_count"] = sem["full_count"]
        /\ sem["empty_count"] \in Nat /\ sem["full_count"] \in Nat
    BY <2>1 DEF StackInv, StackType, StackHolds
  <2>4. /\ sem'["full_count"] + Busy(1, "up")' + Busy(2, "take")' = Len(mem.items)
        /\ sem'["empty_count"] + Busy(1, "add")' + Busy(2, "up")' + Len(mem.items) = BUF_SIZE
    BY <1>1, <2>2, <2>3, BufferSize DEF StackInv, StackCounts
  <2> QED
    BY <1>1, <2>1, <2>3, <2>4 DEF StackInv, StackType, StackCounts, StackHolds
<1>3. CASE Stack!UpFull
  <2>1. /\ pc[1] = "up" /\ pc'[1] \in {"end", "down"} /\ pc'[2] = pc[2]
        /\ pc' \in [{1, 2} -> {"down", "add", "take", "up", "end"}]
        /\ sem' = [sem EXCEPT !["full_count"] = @ + 1]
    BY <1>3 DEF Stack!UpFull, StackInv, StackType
  <2>2. /\ Busy(1, "add") = 0 /\ Busy(1, "add")' = 0
        /\ Busy(1, "up") = 1 /\ Busy(1, "up")' = 0
        /\ Busy(2, "take")' = Busy(2, "take") /\ Busy(2, "up")' = Busy(2, "up")
        /\ Busy(2, "take") \in Nat /\ Busy(2, "up") \in Nat
    BY <2>1 DEF Busy
  <2>3. /\ sem' \in [{"empty_count", "full_count"} -> Nat]
        /\ sem'["full_count"] = sem["full_count"] + 1 /\ sem'["empty_count"] = sem["empty_count"]
        /\ sem["empty_count"] \in Nat /\ sem["full_count"] \in Nat
    BY <2>1 DEF StackInv, StackType, StackHolds
  <2>4. /\ sem'["full_count"] + Busy(1, "up")' + Busy(2, "take")' = Len(mem.items)
        /\ sem'["empty_count"] + Busy(1, "add")' + Busy(2, "up")' + Len(mem.items) = BUF_SIZE
    BY <1>1, <2>2, <2>3, BufferSize DEF StackInv, StackCounts
  <2> QED
    BY <1>1, <2>1, <2>3, <2>4 DEF StackInv, StackType, StackCounts, StackHolds
<1>4. CASE Stack!DownFull
  <2>1. /\ pc[2] = "down" /\ pc'[2] \in {"take"} /\ pc'[1] = pc[1]
        /\ pc' \in [{1, 2} -> {"down", "add", "take", "up", "end"}] /\ sem["full_count"] > 0
        /\ sem' = [sem EXCEPT !["full_count"] = @ - 1]
    BY <1>4 DEF Stack!DownFull, StackInv, StackType
  <2>2. /\ Busy(2, "take") = 0 /\ Busy(2, "take")' = 1
        /\ Busy(2, "up") = 0 /\ Busy(2, "up")' = 0
        /\ Busy(1, "add")' = Busy(1, "add") /\ Busy(1, "up")' = Busy(1, "up")
        /\ Busy(1, "add") \in Nat /\ Busy(1, "up") \in Nat
    BY <2>1 DEF Busy
  <2>3. /\ sem' \in [{"empty_count", "full_count"} -> Nat]
        /\ sem'["full_count"] = sem["full_count"] - 1 /\ sem'["empty_count"] = sem["empty_count"]
        /\ sem["empty_count"] \in Nat /\ sem["full_count"] \in Nat
    BY <2>1 DEF StackInv, StackType, StackHolds
  <2>4. /\ sem'["full_count"] + Busy(1, "up")' + Busy(2, "take")' = Len(mem.items)
        /\ sem'["empty_count"] + Busy(1, "add")' + Busy(2, "up")' + Len(mem.items) = BUF_SIZE
    BY <1>1, <2>2, <2>3, BufferSize DEF StackInv, StackCounts
  <2> QED
    BY <1>1, <2>1, <2>3, <2>4 DEF StackInv, StackType, StackCounts, StackHolds
<1>5. CASE Stack!UpEmpty
  <2>1. /\ pc[2] = "up" /\ pc'[2] \in {"end", "down"} /\ pc'[1] = pc[1]
        /\ pc' \in [{1, 2} -> {"down", "add", "take", "up", "end"}]
        /\ sem' = [sem EXCEPT !["empty_count"] = @ + 1]
    BY <1>5 DEF Stack!UpEmpty, StackInv, StackType
  <2>2. /\ Busy(2, "take") = 0 /\ Busy(2, "take")' = 0
        /\ Busy(2, "up") = 1 /\ Busy(2, "up")' = 0
        /\ Busy(1, "add")' = Busy(1, "add") /\ Busy(1, "up")' = Busy(1, "up")
        /\ Busy(1, "add") \in Nat /\ Busy(1, "up") \in Nat
    BY <2>1 DEF Busy
  <2>3. /\ sem' \in [{"empty_count", "full_count"} -> Nat]
        /\ sem'["empty_count"] = sem["empty_count"] + 1 /\ sem'["full_count"] = sem["full_count"]
        /\ sem["empty_count"] \in Nat /\ sem["full_count"] \in Nat
    BY <2>1 DEF StackInv, StackType, StackHolds
  <2>4. /\ sem'["full_count"] + Busy(1, "up")' + Busy(2, "take")' = Len(mem.items)
        /\ sem'["empty_count"] + Busy(1, "add")' + Busy(2, "up")' + Len(mem.items) = BUF_SIZE
    BY <1>1, <2>2, <2>3, BufferSize DEF StackInv, StackCounts
  <2> QED
    BY <1>1, <2>1, <2>3, <2>4 DEF StackInv, StackType, StackCounts, StackHolds
<1> QED
  BY <1>2, <1>3, <1>4, <1>5

LEMMA StackAdd == ASSUME StackInv, Stack!Add PROVE StackInv'
<1>1. /\ pc[1] = "add" /\ pc' = [pc EXCEPT ![1] = "up"] /\ sem' = sem
      /\ mem' = Stack!addProduct(mem.made)
  BY DEF Stack!Add, Stack!Go, Stack!Producer
<1>2. /\ mem.items \in Seq(Nat) /\ mem.got \in Seq(Nat) /\ mem.made \in Nat
      /\ Len(mem.items) # BUF_SIZE /\ Len(mem.items) \in Nat /\ Len(mem.got) \in Nat
      /\ mem = [items |-> mem.items, made |-> mem.made, got |-> mem.got]
  BY <1>1, BufferSize DEF StackInv, StackType, StackCounts, StackHolds, Busy
<1>3. mem' = [items |-> Append(mem.items, mem.made), made |-> mem.made + 1, got |-> mem.got]
  <2>1. Stack!addProduct(mem.made)
           = [mem EXCEPT !.items = Append(mem.items, mem.made), !.made = mem.made + 1]
    BY <1>2 DEF Stack!addProduct
  <2> QED
    BY <1>1, <1>2, <2>1
<1>4. /\ mem'.items \in Seq(Nat) /\ Len(mem'.items) = Len(mem.items) + 1
      /\ Kept(mem'.items) = Kept(mem.items) \cup {mem.made}
  BY <1>2, <1>3, KeptAppend
<1>5. 0 .. mem'.made - 1 = (0 .. mem.made - 1) \cup {mem.made}
  BY <1>2, <1>3
<1>6. Kept(mem'.got) \cup Kept(mem'.items) = 0 .. mem'.made - 1
  BY <1>3, <1>4, <1>5 DEF StackInv, StackType, StackHolds
<1>7. /\ pc'[1] = "up" /\ pc'[2] = pc[2] /\ pc[2] # "add"
      /\ pc' \in [{1, 2} -> {"down", "add", "take", "up", "end"}]
  BY <1>1 DEF StackInv, StackType, StackHolds
<1>8. mem' \in [items : Seq(Nat), made : Nat, got : Seq(Nat)]
  BY <1>2, <1>3, <1>4
<1>9. /\ sem'["full_count"] + Busy(1, "up")' + Busy(2, "take")' = Len(mem'.items)
      /\ sem'["empty_count"] + Busy(1, "add")' + Busy(2, "up")' + Len(mem'.items) = BUF_SIZE
  <2>1. /\ Busy(1, "add") = 1 /\ Busy(1, "add")' = 0 /\ Busy(1, "up") = 0 /\ Busy(1, "up")' = 1
        /\ Busy(2, "take")' = Busy(2, "take") /\ Busy(2, "up")' = Busy(2, "up")
        /\ Busy(2, "take") \in Nat /\ Busy(2, "up") \in Nat
    BY <1>1, <1>7 DEF Busy
  <2>2. sem["empty_count"] \in Nat /\ sem["full_count"] \in Nat
    BY DEF StackInv, StackType, StackHolds
  <2>3. Len(mem.items) \in Nat /\ Len(mem'.items) = Len(mem.items) + 1
    BY <1>2, <1>4
  <2>4. sem'["full_count"] = sem["full_count"] /\ sem'["empty_count"] = sem["empty_count"]
    BY <1>1
  <2>5. /\ sem["full_count"] + Busy(1, "up") + Busy(2, "take") = Len(mem.items)
        /\ sem["empty_count"] + Busy(1, "add") + Busy(2, "up") + Len(mem.items) = BUF_SIZE
    BY DEF StackInv, StackCounts
  <2>6. sem'["full_count"] + Busy(1, "up")' + Busy(2, "take")' = Len(mem'.items)
    <3>1. sem["full_count"] + 0 + Busy(2, "take") = Len(mem.items)
      BY <2>1, <2>5
    <3>2. sem["full_count"] + 1 + Busy(2, "take") = Len(mem.items) + 1
      BY <3>1, <2>1, <2>2, <2>3
    <3> QED
      BY <3>2, <2>1, <2>3, <2>4
  <2>7. sem'["empty_count"] + Busy(1, "add")' + Busy(2, "up")' + Len(mem'.items) = BUF_SIZE
    BY <2>1, <2>2, <2>3, <2>4, <2>5
  <2> QED
    BY <2>6, <2>7
<1>10. Len(mem'.got) + Len(mem'.items) = mem'.made
  BY <1>2, <1>3, <1>4 DEF StackInv, StackType, StackHolds
<1> QED
  BY <1>1, <1>6, <1>7, <1>8, <1>9, <1>10 DEF StackInv, StackType, StackCounts, StackHolds

LEMMA StackTake == ASSUME StackInv, Stack!Take PROVE StackInv'
<1>1. /\ pc[2] = "take" /\ pc' = [pc EXCEPT ![2] = "up"] /\ sem' = sem
      /\ mem' = Stack!consumeProduct
  BY DEF Stack!Take, Stack!Go, Stack!Consumer
<1>2. /\ mem.items \in Seq(Nat) /\ mem.got \in Seq(Nat) /\ mem.made \in Nat
      /\ Len(mem.items) > 0 /\ Len(mem.items) \in Nat /\ Len(mem.got) \in Nat
      /\ mem = [items |-> mem.items, made |-> mem.made, got |-> mem.got]
  BY <1>1, BufferSize DEF StackInv, StackType, StackCounts, StackHolds, Busy
<1> DEFINE top == mem.items[Len(mem.items)]
<1>3. mem' = [items |-> SubSeq(mem.items, 1, Len(mem.items) - 1), made |-> mem.made,
              got |-> Append(mem.got, top)]
  <2>1. mem.items # <<>>
    BY <1>2
  <2>2. Stack!consumeProduct = [mem EXCEPT !.got = Append(mem.got, top),
                                           !.items = SubSeq(mem.items, 1, Len(mem.items) - 1)]
    BY <2>1 DEF Stack!consumeProduct
  <2> HIDE DEF top
  <2> QED
    BY <1>1, <1>2, <2>2
<1>4. /\ mem'.items \in Seq(Nat) /\ Len(mem'.items) = Len(mem.items) - 1 /\ top \in Nat
      /\ Kept(mem'.items) \cup {top} = Kept(mem.items)
  BY <1>2, <1>3, KeptFront
<1>5. /\ mem'.got \in Seq(Nat) /\ Len(mem'.got) = Len(mem.got) + 1
      /\ Kept(mem'.got) = Kept(mem.got) \cup {top}
  BY <1>2, <1>3, <1>4, KeptAppend
<1> HIDE DEF top
<1>6. Kept(mem'.got) \cup Kept(mem'.items) = 0 .. mem'.made - 1
  BY <1>3, <1>4, <1>5 DEF StackInv, StackType, StackHolds
<1>7. /\ pc'[2] = "up" /\ pc'[1] = pc[1] /\ pc[1] # "take"
      /\ pc' \in [{1, 2} -> {"down", "add", "take", "up", "end"}]
  BY <1>1 DEF StackInv, StackType, StackHolds
<1>8. mem' \in [items : Seq(Nat), made : Nat, got : Seq(Nat)]
  BY <1>2, <1>3, <1>4, <1>5
<1>9. /\ sem'["full_count"] + Busy(1, "up")' + Busy(2, "take")' = Len(mem'.items)
      /\ sem'["empty_count"] + Busy(1, "add")' + Busy(2, "up")' + Len(mem'.items) = BUF_SIZE
  <2>1. /\ Busy(2, "take") = 1 /\ Busy(2, "take")' = 0 /\ Busy(2, "up") = 0 /\ Busy(2, "up")' = 1
        /\ Busy(1, "add")' = Busy(1, "add") /\ Busy(1, "up")' = Busy(1, "up")
        /\ Busy(1, "add") \in Nat /\ Busy(1, "up") \in Nat
    BY <1>1, <1>7 DEF Busy
  <2>2. sem["empty_count"] \in Nat /\ sem["full_count"] \in Nat
    BY DEF StackInv, StackType, StackHolds
  <2>3. Len(mem.items) \in Nat /\ Len(mem'.items) = Len(mem.items) - 1
    BY <1>2, <1>4
  <2>4. sem'["full_count"] = sem["full_count"] /\ sem'["empty_count"] = sem["empty_count"]
    BY <1>1
  <2>5. /\ sem["full_count"] + Busy(1, "up") + Busy(2, "take") = Len(mem.items)
        /\ sem["empty_count"] + Busy(1, "add") + Busy(2, "up") + Len(mem.items) = BUF_SIZE
    BY DEF StackInv, StackCounts
  <2>6. sem'["full_count"] + Busy(1, "up")' + Busy(2, "take")' = Len(mem'.items)
    <3>1. sem["full_count"] + Busy(1, "up") + 1 = Len(mem.items)
      BY <2>1, <2>5
    <3>2. sem["full_count"] + Busy(1, "up") + 0 = Len(mem.items) - 1
      BY <3>1, <2>1, <2>2, <2>3
    <3> QED
      BY <3>2, <2>1, <2>3, <2>4
  <2>7. sem'["empty_count"] + Busy(1, "add")' + Busy(2, "up")' + Len(mem'.items) = BUF_SIZE
    BY <2>1, <2>2, <2>3, <2>4, <2>5
  <2> QED
    BY <2>6, <2>7
<1>10. Len(mem'.got) + Len(mem'.items) = mem'.made
  <2>1. Len(mem.got) + Len(mem.items) = mem.made /\ mem'.made = mem.made
    BY <1>3 DEF StackInv, StackType, StackHolds
  <2>2. Len(mem'.got) = Len(mem.got) + 1 /\ Len(mem'.items) = Len(mem.items) - 1
    BY <1>4, <1>5
  <2> QED
    BY <1>2, <2>1, <2>2
<1> QED
  BY <1>1, <1>6, <1>7, <1>8, <1>9, <1>10 DEF StackInv, StackType, StackCounts, StackHolds

LEMMA StackStep == StackInv /\ Stack!Next => StackInv'
BY StackSemaphores, StackAdd, StackTake DEF Stack!Next

LEMMA StackRests == StackInv /\ UNCHANGED vars => StackInv'
BY DEF vars, StackInv, StackType, StackCounts, StackHolds, Busy, Kept

LEMMA StackLosesNothing == StackInv => Stack!NothingLost
BY DEF StackInv, StackHolds, Stack!NothingLost, Kept

-----------------------------------------------------------------------------
(* The ring.                                                               *)
LEMMA RingPlaces ==
    /\ MAX \in Nat \ {0}
    /\ \A n \in 0 .. MAX - 1 : n % MAX = n /\ (n + 1) % MAX = IF n + 1 = MAX THEN 0 ELSE n + 1
BY IpcAssumption

LEMMA RingOrderStart == Ring!Init => RingOrder
<1> SUFFICES ASSUME Ring!Init PROVE RingOrder
  OBVIOUS
<1>1. /\ mem.queue = [i \in 0 .. MAX - 1 |-> -1] /\ mem.head = 0 /\ mem.tail = 0 /\ mem.count = 0
      /\ mem.made = 0 /\ mem.got = <<>>
  BY DEF Ring!Init
<1> QED
  BY <1>1, RingPlaces DEF RingOrder

LEMMA RingProduces ==
    ASSUME RingInv, RingOrder, Ring!Produce, mem.count # MAX
    PROVE  RingOrder'
<1>1. pc[1] = "lock" /\ pc' = [pc EXCEPT ![1] = "signal"]
  BY DEF Ring!Produce, Ring!Go, Ring!producer
<1>2. /\ mem.made \in 0 .. MAX - 1 /\ mem.made \in Nat /\ mem.count \in 0 .. mem.made
      /\ mem.tail = mem.made /\ MAX \in Nat
  BY <1>1, RingPlaces DEF RingOrder
<1>3. mem' = [queue |-> [mem.queue EXCEPT ![mem.made] = mem.made], head |-> mem.head,
              tail |-> (mem.made + 1) % MAX, count |-> mem.count + 1,
              made |-> mem.made + 1, got |-> mem.got]
  <2>1. mem' = [mem EXCEPT !.queue[mem.tail] = mem.made, !.count = mem.count + 1,
                           !.tail = (mem.tail + 1) % MAX, !.made = mem.made + 1]
    BY DEF Ring!Produce, Ring!producer
  <2> QED
    BY <1>2, <2>1 DEF RingInv
<1>4. /\ mem'.made = mem.made + 1 /\ mem'.count = mem.count + 1 /\ mem'.got = mem.got
      /\ mem'.head = mem.head /\ mem'.made - mem'.count = mem.made - mem.count
      /\ mem'.queue \in [0 .. MAX - 1 -> Int]
  BY <1>2, <1>3 DEF RingOrder
<1>5. mem'.tail = IF mem'.made = MAX THEN 0 ELSE mem'.made
  BY <1>2, <1>3, <1>4, RingPlaces
<1>6. \A k \in mem'.made - mem'.count .. mem'.made - 1 : mem'.queue[k] = k
  <2> SUFFICES ASSUME NEW k \in mem.made - mem.count .. mem.made PROVE mem'.queue[k] = k
    BY <1>2, <1>4
  <2>1. k \in 0 .. MAX - 1 /\ (k = mem.made \/ k \in mem.made - mem.count .. mem.made - 1)
    BY <1>2
  <2> QED
    BY <1>2, <1>3, <2>1 DEF RingOrder
<1>7. pc'[1] = "signal"
  BY <1>1 DEF RingInv
<1>8. mem'.made \in 0 .. MAX /\ mem'.count \in 0 .. mem'.made
  BY <1>2, <1>4
<1> QED
  BY <1>4, <1>5, <1>6, <1>7, <1>8 DEF RingOrder

LEMMA RingConsumes ==
    ASSUME RingInv, RingOrder, Ring!Consume, mem.count # 0
    PROVE  RingOrder'
<1> DEFINE h == mem.made - mem.count
<1>1. /\ mem.made \in Nat /\ mem.made <= MAX /\ mem.count \in 1 .. mem.made
      /\ h \in 0 .. MAX - 1 /\ mem.head = h /\ Len(mem.got) = h /\ MAX \in Nat
      /\ h \in mem.made - mem.count .. mem.made - 1
  <2>1. /\ mem.made \in 0 .. MAX /\ mem.count \in 1 .. mem.made /\ MAX \in Nat
        /\ mem.head = (IF h = MAX THEN 0 ELSE h) /\ Len(mem.got) = h
    BY RingPlaces DEF RingOrder
  <2>2. h \in 0 .. MAX - 1 /\ h \in mem.made - mem.count .. mem.made - 1
    BY <2>1
  <2>3. mem.head = h
    BY <2>1, <2>2
  <2> QED
    BY <2>1, <2>2, <2>3
<1>2. mem.queue[h] = h
  BY <1>1 DEF RingOrder
<1>3. mem' = [queue |-> mem.queue, head |-> (h + 1) % MAX, tail |-> mem.tail,
              count |-> mem.count - 1, made |-> mem.made, got |-> Append(mem.got, h)]
  <2>1. mem' = [mem EXCEPT !.got = Append(mem.got, mem.queue[mem.head]),
                           !.head = (mem.head + 1) % MAX, !.count = mem.count - 1]
    BY DEF Ring!Consume
  <2> HIDE DEF h
  <2> QED
    BY <1>1, <1>2, <2>1 DEF RingInv
<1>4. /\ mem'.made = mem.made /\ mem'.count = mem.count - 1 /\ mem'.tail = mem.tail
      /\ mem'.made - mem'.count = h + 1 /\ mem'.queue = mem.queue
  BY <1>1, <1>3
<1>5. mem'.head = IF h + 1 = MAX THEN 0 ELSE h + 1
  BY <1>1, <1>3, RingPlaces
<1>6. /\ mem'.got \in Seq(Int) /\ Len(mem'.got) = h + 1
      /\ \A k \in 1 .. h : mem'.got[k] = mem.got[k]
      /\ mem'.got[h + 1] = h
  <2>1. mem'.got = Append(mem.got, h) /\ mem.got \in Seq(Int) /\ h \in Int
    BY <1>1, <1>3 DEF RingOrder
  <2> HIDE DEF h
  <2> QED
    BY <1>1, <2>1
<1>7. \A k \in 1 .. h + 1 : mem'.got[k] = k - 1
  <2> SUFFICES ASSUME NEW k \in 1 .. h + 1 PROVE mem'.got[k] = k - 1
    OBVIOUS
  <2>1. k \in 1 .. h \/ k = h + 1
    BY <1>1
  <2>2. \A l \in 1 .. h : mem.got[l] = l - 1
    BY DEF RingOrder
  <2>3. h + 1 - 1 = h
    BY <1>1
  <2> HIDE DEF h
  <2> QED
    BY <1>6, <2>1, <2>2, <2>3
<1>8. \A k \in h + 1 .. mem.made - 1 : mem.queue[k] = k
  BY <1>1 DEF RingOrder
<1>9. mem'.made \in 0 .. MAX /\ mem'.count \in 0 .. mem'.made
  BY <1>1, <1>4
<1>10. pc'[1] = pc[1]
  BY DEF Ring!Consume, Ring!Go, Ring!consumer, RingInv
<1> HIDE DEF h
<1> QED
  BY <1>4, <1>5, <1>6, <1>7, <1>8, <1>9, <1>10 DEF RingOrder

LEMMA RingOrderStep == RingInv /\ RingOrder /\ Ring!Next => RingOrder'
<1> SUFFICES ASSUME RingInv, RingOrder, Ring!Next PROVE RingOrder'
  OBVIOUS
<1>1. CASE Ring!Produce /\ mem.count = MAX
  <2>1. UNCHANGED mem /\ pc'[1] = "lock" /\ pc[1] = "lock"
    BY <1>1 DEF Ring!Produce, Ring!SleepOn, Ring!Go, Ring!producer, RingInv
  <2> QED
    BY <2>1 DEF RingOrder
<1>2. CASE Ring!Consume /\ mem.count = 0
  <2>1. UNCHANGED mem /\ pc'[1] = pc[1]
    BY <1>2 DEF Ring!Consume, Ring!SleepOn, Ring!Go, Ring!consumer, RingInv
  <2> QED
    BY <2>1 DEF RingOrder
<1>3. CASE Ring!SignalConsumer
  <2>1. UNCHANGED mem /\ pc'[1] = Ring!Round(mem.made)
    BY <1>3 DEF Ring!SignalConsumer, Ring!Go, Ring!producer, RingInv
  <2>2. pc'[1] = "lock" => mem.made < MAX
    BY <2>1, RingPlaces DEF Ring!Round, RingOrder
  <2> QED
    BY <2>1, <2>2 DEF RingOrder
<1>4. CASE Ring!SignalProducer
  <2>1. UNCHANGED mem /\ pc'[1] = pc[1]
    BY <1>4 DEF Ring!SignalProducer, Ring!Go, Ring!consumer, RingInv
  <2> QED
    BY <2>1 DEF RingOrder
<1> QED
  BY <1>1, <1>2, <1>3, <1>4, RingProduces, RingConsumes DEF Ring!Next

LEMMA RingOrderRests == RingOrder /\ UNCHANGED vars => RingOrder'
BY DEF vars, RingOrder

LEMMA RingInOrder == RingOrder => Ring!InOrder
<1> SUFFICES ASSUME RingOrder PROVE Ring!InOrder
  OBVIOUS
<1> DEFINE h == mem.made - mem.count
<1>1. mem.got = [k \in 1 .. h |-> k - 1]
  <2>1. DOMAIN mem.got = 1 .. h /\ mem.got = [k \in DOMAIN mem.got |-> mem.got[k]]
    BY DEF RingOrder
  <2>2. \A k \in 1 .. h : mem.got[k] = k - 1
    BY DEF RingOrder
  <2> HIDE DEF h
  <2> QED
    BY <2>1, <2>2
<1>2. ASSUME NEW k \in 0 .. mem.count - 1
      PROVE  mem.queue[(mem.head + k) % MAX] = h + k
  <2>1. /\ mem.made \in Nat /\ mem.made <= MAX /\ mem.count \in 1 .. mem.made /\ k \in Nat
        /\ mem.head = h /\ h \in Nat /\ h + k <= mem.made - 1 /\ MAX \in Nat
    BY RingPlaces DEF RingOrder
  <2>2. h + k \in mem.made - mem.count .. mem.made - 1 /\ h + k \in 0 .. MAX - 1
    BY <2>1
  <2>3. (h + k) % MAX = h + k
    BY <2>2, RingPlaces
  <2> QED
    BY <2>1, <2>2, <2>3 DEF RingOrder
<1> QED
  BY <1>1, <1>2 DEF Ring!InOrder

-----------------------------------------------------------------------------
(* The message queue.                                                      *)
LEMMA Appended ==
    ASSUME NEW s \in Seq(Int), NEW e \in Int
    PROVE  /\ Append(s, e) \in Seq(Int) /\ Len(Append(s, e)) = Len(s) + 1
           /\ Len(s) \in Nat
           /\ \A k \in 1 .. Len(s) : Append(s, e)[k] = s[k]
           /\ Append(s, e)[Len(s) + 1] = e
OBVIOUS

LEMMA Behead ==
    ASSUME NEW s \in Seq(Int), s # <<>>
    PROVE  /\ Tail(s) \in Seq(Int) /\ Len(Tail(s)) = Len(s) - 1
           /\ Len(s) \in Nat /\ Len(s) > 0 /\ Head(s) = s[1] /\ Head(s) \in Int
           /\ \A k \in 1 .. Len(s) - 1 : Tail(s)[k] = s[k + 1]
<1>1. Len(s) \in Nat /\ Len(s) > 0 /\ s[1] \in Int
  OBVIOUS
<1>2. Tail(s) \in Seq(Int) /\ Len(Tail(s)) = Len(s) - 1 /\ Head(s) = s[1]
  BY <1>1
<1>3. \A k \in 1 .. Len(s) - 1 : Tail(s)[k] = s[k + 1]
  BY <1>1
<1> QED
  BY <1>1, <1>2, <1>3

LEMMA FlowSend ==
    ASSUME NEW old \in Seq(Int), NEW got \in Seq(Int), NEW queue \in Seq(Int), NEW sent \in Nat,
           Len(got) + Len(queue) = Len(old) + sent, Flow(old, got, queue)
    PROVE  Flow(old, got, Append(queue, sent + 1))
<1> DEFINE q == Append(queue, sent + 1)
<1>1. /\ Len(q) = Len(queue) + 1 /\ q[Len(queue) + 1] = sent + 1
      /\ \A k \in 1 .. Len(queue) : q[k] = queue[k]
  BY Appended, sent + 1 \in Int
<1>2. Len(queue) \in Nat /\ Len(got) \in Nat /\ Len(old) \in Nat
  OBVIOUS
<1>3. /\ \A k \in 1 .. Len(got) : got[k] = Due(old, k)
      /\ \A k \in 1 .. Len(queue) : queue[k] = Due(old, Len(got) + k)
  BY DEF Flow
<1> HIDE DEF q
<1>4. ASSUME NEW k \in 1 .. Len(q) PROVE q[k] = Due(old, Len(got) + k)
  <2>1. CASE k \in 1 .. Len(queue)
    BY <1>1, <1>3, <2>1
  <2>2. CASE k \notin 1 .. Len(queue)
    <3>1. k = Len(queue) + 1
      BY <1>1, <1>2, <2>2
    <3>2. Len(got) + k = Len(old) + (sent + 1)
      BY <1>2, <3>1
    <3>3. Due(old, Len(old) + (sent + 1)) = sent + 1
      BY <1>2 DEF Due
    <3> QED
      BY <1>1, <3>1, <3>2, <3>3
  <2> QED
    BY <2>1, <2>2
<1> QED
  BY <1>3, <1>4 DEF Flow, q

LEMMA FlowReceive ==
    ASSUME NEW old \in Seq(Int), NEW got \in Seq(Int), NEW queue \in Seq(Int),
           queue # <<>>, Flow(old, got, queue)
    PROVE  Flow(old, Append(got, Head(queue)), Tail(queue))
<1> DEFINE q == Tail(queue)
           g == Append(got, Head(queue))
<1>1. /\ Len(q) = Len(queue) - 1 /\ Len(queue) \in Nat /\ Len(queue) > 0
      /\ Head(queue) = queue[1] /\ Head(queue) \in Int
      /\ \A k \in 1 .. Len(queue) - 1 : q[k] = queue[k + 1]
  BY Behead
<1>2. /\ Len(g) = Len(got) + 1 /\ Len(got) \in Nat
      /\ \A k \in 1 .. Len(got) : g[k] = got[k]
      /\ g[Len(got) + 1] = Head(queue)
  BY <1>1, Appended
<1>3. /\ \A k \in 1 .. Len(got) : got[k] = Due(old, k)
      /\ \A k \in 1 .. Len(queue) : queue[k] = Due(old, Len(got) + k)
  BY DEF Flow
<1> HIDE DEF q, g
<1>4. ASSUME NEW k \in 1 .. Len(g) PROVE g[k] = Due(old, k)
  <2>1. CASE k \in 1 .. Len(got)
    BY <1>2, <1>3, <2>1
  <2>2. CASE k \notin 1 .. Len(got)
    <3>1. k = Len(got) + 1 /\ 1 \in 1 .. Len(queue)
      BY <1>1, <1>2, <2>2
    <3> QED
      BY <1>1, <1>2, <1>3, <3>1
  <2> QED
    BY <2>1, <2>2
<1>5. ASSUME NEW k \in 1 .. Len(q) PROVE q[k] = Due(old, Len(g) + k)
  <2>1. k \in 1 .. Len(queue) - 1 /\ k + 1 \in 1 .. Len(queue)
    BY <1>1
  <2>2. Len(got) + (k + 1) = Len(g) + k
    BY <1>2, <2>1
  <2>3. queue[k + 1] = Due(old, Len(got) + (k + 1))
    BY <1>3, <2>1
  <2> QED
    BY <1>1, <2>1, <2>2, <2>3
<1> QED
  BY <1>4, <1>5 DEF Flow, q, g

LEMMA MailedStart == Mailed!Init => MailedInv
<1> SUFFICES ASSUME Mailed!Init PROVE MailedInv
  OBVIOUS
<1>1. PICK n \in 0 .. Unread :
        mem = [queue |-> Mailed!Older(n), old |-> Mailed!Older(n), there |-> TRUE,
               sent |-> 0, got |-> <<>>]
  BY DEF Mailed!Init
<1>2. n \in Nat /\ Messages \in Nat /\ Messages > 0
  BY IpcAssumption
<1>3. Mailed!Older(n) \in Seq(Int) /\ Len(Mailed!Older(n)) = n
  BY <1>2 DEF Mailed!Older
<1>4. pc = [t \in {"son", "father"} |-> "round"]
  BY DEF Mailed!Init, Mailed!son, Mailed!father
<1>5. Flow(mem.old, mem.got, mem.queue)
  <2>1. Len(mem.got) = 0 /\ mem.queue = mem.old /\ Len(mem.old) = n
    BY <1>1, <1>3
  <2> QED
    BY <1>2, <2>1 DEF Flow, Due
<1>6. mem \in [queue : Seq(Int), old : Seq(Int), there : BOOLEAN, sent : Nat, got : Seq(Int)]
  BY <1>1, <1>3
<1>7. /\ mem.sent = 0 /\ Len(mem.got) = 0 /\ mem.there
      /\ Len(mem.queue) = Len(mem.old) /\ Len(mem.old) \in Nat
  BY <1>1, <1>2, <1>3
<1>8. MailedType
  BY <1>2, <1>4, <1>6, <1>7 DEF MailedType
<1>9. MailedCounts
  BY <1>2, <1>7 DEF MailedCounts
<1> QED
  BY <1>5, <1>8, <1>9 DEF MailedInv

LEMMA MailedFields ==
    ASSUME MailedType
    PROVE  /\ mem.queue \in Seq(Int) /\ mem.old \in Seq(Int) /\ mem.there \in BOOLEAN
           /\ mem.sent \in Nat /\ mem.got \in Seq(Int) /\ Messages \in Nat
           /\ mem = [queue |-> mem.queue, old |-> mem.old, there |-> mem.there,
                     sent |-> mem.sent, got |-> mem.got]
           /\ Len(mem.queue) \in Nat /\ Len(mem.old) \in Nat /\ Len(mem.got) \in Nat
BY IpcAssumption DEF MailedType

LEMMA MailedSend == ASSUME MailedInv, Mailed!msgsnd PROVE MailedInv'
<1>1. MailedType /\ MailedCounts /\ Flow(mem.old, mem.got, mem.queue)
  BY DEF MailedInv
<1>2. pc["son"] = "round" /\ pc' = [pc EXCEPT !["son"] = Mailed!Round(mem.sent + 1)]
  BY DEF Mailed!msgsnd, Mailed!Go, Mailed!son
<1>3. mem.sent < Messages
  BY <1>1, <1>2, MailedFields DEF MailedType, MailedCounts
<1>4. /\ pc' \in [{"son", "father"} -> {"round", "remove", "end"}] /\ pc'["father"] = pc["father"]
      /\ pc'["son"] = IF mem.sent + 1 = Messages THEN "end" ELSE "round"
  BY <1>1, <1>2 DEF MailedType, Mailed!Round
<1> DEFINE q == IF mem.there THEN Append(mem.queue, mem.sent + 1) ELSE mem.queue
<1>5. mem' = [queue |-> q, old |-> mem.old, there |-> mem.there, sent |-> mem.sent + 1,
              got |-> mem.got]
  <2>1. mem' = [mem EXCEPT !.sent = mem.sent + 1, !.queue = q]
    BY DEF Mailed!msgsnd
  <2> HIDE DEF q
  <2> QED
    BY <1>1, <2>1, MailedFields
<1>6. q \in Seq(Int) /\ Len(q) = IF mem.there THEN Len(mem.queue) + 1 ELSE Len(mem.queue)
  BY <1>1, MailedFields, Appended, mem.sent + 1 \in Int
<1>7. Flow(mem.old, mem.got, q)
  <2>1. CASE mem.there
    BY <1>1, <2>1, MailedFields, FlowSend DEF MailedCounts
  <2>2. CASE ~mem.there
    BY <1>1, <2>2
  <2> QED
    BY <2>1, <2>2
<1>8. ~mem.there => q = <<>>
  BY <1>1 DEF MailedCounts
<1> HIDE DEF q
<1>9. /\ mem'.queue = q /\ mem'.there = mem.there /\ mem'.sent = mem.sent + 1
      /\ mem'.got = mem.got /\ mem'.old = mem.old
  BY <1>5
<1>10. MailedType'
  <2>1. mem' \in [queue : Seq(Int), old : Seq(Int), there : BOOLEAN, sent : Nat, got : Seq(Int)]
    BY <1>1, <1>5, <1>6, MailedFields
  <2> QED
    BY <1>1, <1>4, <1>9, <2>1 DEF MailedType
<1>11. MailedCounts'
  <2>1. /\ Len(mem.queue) \in Nat /\ Len(mem.old) \in Nat /\ Len(mem.got) \in Nat
        /\ Messages \in Nat /\ mem.sent \in Nat
    BY <1>1, MailedFields
  <2>2. mem.there => Len(mem.got) + Len(mem.queue) = Len(mem.old) + mem.sent
    BY <1>1 DEF MailedCounts
  <2>3. mem.there => Len(mem.got) + Len(q) = Len(mem.old) + (mem.sent + 1)
    <3>1. mem.there => Len(q) = Len(mem.queue) + 1
      BY <1>6
    <3> DEFINE a == Len(mem.got)  b == Len(mem.queue)  c == Len(mem.old)  d == mem.sent
               e == Len(q)
    <3>2. a \in Nat /\ b \in Nat /\ c \in Nat /\ d \in Nat
      BY <2>1
    <3>3. mem.there => a + b = c + d /\ e = b + 1
      BY <2>2, <3>1
    <3> HIDE DEF a, b, c, d, e
    <3>4. mem.there => a + e = c + (d + 1)
      BY <3>2, <3>3
    <3> QED
      BY <3>4 DEF a, b, c, d, e
  <2>4. ~mem.there => /\ Len(mem.got) = Messages /\ q = <<>>
                     /\ Messages <= Len(mem.old) + (mem.sent + 1)
    BY <1>1, <1>8, <2>1 DEF MailedCounts
  <2>5. mem.sent + 1 <= Messages /\ Len(mem.got) <= Messages
    BY <1>1, <1>3, <2>1 DEF MailedCounts
  <2> QED
    BY <1>9, <2>3, <2>4, <2>5 DEF MailedCounts
<1> QED
  BY <1>7, <1>9, <1>10, <1>11 DEF MailedInv

LEMMA MailedReceive == ASSUME MailedInv, Mailed!msgrcv PROVE MailedInv'
<1>1. MailedType /\ MailedCounts /\ Flow(mem.old, mem.got, mem.queue)
  BY DEF MailedInv
<1>2. /\ pc["father"] = "round" /\ mem.queue # <<>>
      /\ pc' = [pc EXCEPT !["father"] = IF Mailed!Round(Len(mem.got) + 1) = "end"
                                        THEN "remove" ELSE "round"]
  BY DEF Mailed!msgrcv, Mailed!Go, Mailed!father
<1>3. mem.there /\ Len(mem.got) < Messages
  BY <1>1, <1>2, MailedFields DEF MailedType, MailedCounts
<1>4. /\ pc' \in [{"son", "father"} -> {"round", "remove", "end"}] /\ pc'["son"] = pc["son"]
      /\ pc'["father"] = IF Len(mem.got) + 1 = Messages THEN "remove" ELSE "round"
  BY <1>1, <1>2 DEF MailedType, Mailed!Round
<1> DEFINE q == Tail(mem.queue)
           g == Append(mem.got, Head(mem.queue))
<1>5. mem' = [queue |-> q, old |-> mem.old, there |-> mem.there, sent |-> mem.sent, got |-> g]
  <2>1. mem' = [mem EXCEPT !.got = g, !.queue = q]
    BY DEF Mailed!msgrcv
  <2> HIDE DEF q, g
  <2> QED
    BY <1>1, <2>1, MailedFields
<1>6. /\ q \in Seq(Int) /\ Len(q) = Len(mem.queue) - 1
      /\ g \in Seq(Int) /\ Len(g) = Len(mem.got) + 1
  BY <1>1, <1>2, MailedFields, Behead, Appended
<1>7. Flow(mem.old, g, q)
  BY <1>1, <1>2, MailedFields, FlowReceive
<1> HIDE DEF q, g
<1>8. /\ mem'.queue = q /\ mem'.there = mem.there /\ mem'.sent = mem.sent
      /\ mem'.got = g /\ mem'.old = mem.old
  BY <1>5
<1>9. MailedType'
  <2>1. mem' \in [queue : Seq(Int), old : Seq(Int), there : BOOLEAN, sent : Nat, got : Seq(Int)]
    BY <1>1, <1>5, <1>6, MailedFields
  <2> QED
    BY <1>1, <1>3, <1>4, <1>6, <1>8, <2>1 DEF MailedType
<1>10. MailedCounts'
  <2>1. /\ Len(mem.queue) \in Nat /\ Len(mem.old) \in Nat /\ Len(mem.got) \in Nat
        /\ Messages \in Nat /\ mem.sent \in Nat
    BY <1>1, MailedFields
  <2>2. Len(mem.got) + Len(mem.queue) = Len(mem.old) + mem.sent /\ mem.sent <= Messages
    BY <1>1, <1>3 DEF MailedCounts
  <2>3. Len(g) + Len(q) = Len(mem.old) + mem.sent /\ Len(g) <= Messages
    <3>1. Len(q) = Len(mem.queue) - 1 /\ Len(g) = Len(mem.got) + 1
      BY <1>6
    <3> DEFINE a == Len(mem.got)  b == Len(mem.queue)  c == Len(mem.old)  d == mem.sent
               e == Len(g)  f == Len(q)
    <3>2. a \in Nat /\ b \in Nat /\ c \in Nat /\ d \in Nat /\ Messages \in Nat
      BY <2>1
    <3>3. a + b = c + d /\ f = b - 1 /\ e = a + 1 /\ a < Messages
      BY <1>3, <2>2, <3>1
    <3> HIDE DEF a, b, c, d, e, f
    <3>4. e + f = c + d /\ e <= Messages
      BY <3>2, <3>3
    <3> QED
      BY <3>4 DEF a, c, d, e, f
  <2> QED
    BY <1>3, <1>8, <2>2, <2>3 DEF MailedCounts
<1> QED
  BY <1>7, <1>8, <1>9, <1>10 DEF MailedInv

LEMMA MailedRemove == ASSUME MailedInv, Mailed!msgctl PROVE MailedInv'
<1>1. MailedType /\ MailedCounts /\ Flow(mem.old, mem.got, mem.queue)
  BY DEF MailedInv
<1>2. pc["father"] = "remove" /\ pc' = [pc EXCEPT !["father"] = "end"]
  BY DEF Mailed!msgctl, Mailed!Go, Mailed!father
<1>3. mem' = [queue |-> <<>>, old |-> mem.old, there |-> FALSE, sent |-> mem.sent, got |-> mem.got]
  <2>1. mem' = [mem EXCEPT !.there = FALSE, !.queue = <<>>]
    BY DEF Mailed!msgctl
  <2> QED
    BY <1>1, <2>1, MailedFields
<1>4. mem.there /\ Len(mem.got) = Messages
  BY <1>1, <1>2 DEF MailedType
<1>5. /\ mem'.queue = <<>> /\ ~mem'.there /\ mem'.sent = mem.sent
      /\ mem'.got = mem.got /\ mem'.old = mem.old
  BY <1>3
<1>6. MailedType'
  <2>1. mem' \in [queue : Seq(Int), old : Seq(Int), there : BOOLEAN, sent : Nat, got : Seq(Int)]
    BY <1>1, <1>3, MailedFields
  <2>2. pc' \in [{"son", "father"} -> {"round", "remove", "end"}] /\ pc'["son"] = pc["son"]
        /\ pc'["father"] = "end"
    BY <1>1, <1>2 DEF MailedType
  <2> QED
    BY <1>1, <1>5, <2>1, <2>2 DEF MailedType
<1>7. MailedCounts'
  <2>1. Len(mem.queue) \in Nat /\ Len(mem.old) \in Nat /\ mem.sent \in Nat /\ Messages \in Nat
    BY <1>1, MailedFields
  <2> QED
    BY <1>1, <1>4, <1>5, <2>1 DEF MailedCounts
<1>8. Flow(mem.old, mem.got, <<>>)
  BY <1>1 DEF Flow
<1> QED
  BY <1>5, <1>6, <1>7, <1>8 DEF MailedInv

LEMMA MailedStep == MailedInv /\ Mailed!Next => MailedInv'
BY MailedSend, MailedReceive, MailedRemove DEF Mailed!Next

LEMMA MailedRests == MailedInv /\ UNCHANGED vars => MailedInv'
BY DEF vars, MailedInv, MailedType, MailedCounts

LEMMA InOrder ==
    ASSUME NEW old \in Seq(Int), NEW got \in Seq(Int), NEW sent \in Nat, NEW all \in Seq(Int),
           all = old \o [k \in 1 .. sent |-> k]
    PROVE  Len(all) = Len(old) + sent /\ \A k \in 1 .. Len(old) + sent : all[k] = Due(old, k)
<1> DEFINE new == [k \in 1 .. sent |-> k]
<1>1. new \in Seq(Int) /\ Len(new) = sent /\ \A k \in 1 .. sent : new[k] = k
  OBVIOUS
<1>2. Len(old) \in Nat
  OBVIOUS
<1> HIDE DEF new
<1>3. /\ Len(old \o new) = Len(old) + Len(new)
      /\ \A k \in 1 .. Len(old) + Len(new) :
           (old \o new)[k] = IF k <= Len(old) THEN old[k] ELSE new[k - Len(old)]
  BY <1>1, ConcatProperties
<1>4. all = old \o new
  BY DEF new
<1> QED
  <2> SUFFICES ASSUME NEW k \in 1 .. Len(old) + sent PROVE all[k] = Due(old, k)
    BY <1>1, <1>3, <1>4
  <2>1. all[k] = IF k <= Len(old) THEN old[k] ELSE new[k - Len(old)]
    BY <1>1, <1>3, <1>4
  <2>2. CASE k <= Len(old)
    BY <2>1, <2>2 DEF Due
  <2>3. CASE ~(k <= Len(old))
    <3>1. k - Len(old) \in 1 .. sent
      BY <1>2, <2>3
    <3> QED
      BY <1>1, <2>1, <2>3, <3>1 DEF Due
  <2> QED
    BY <2>2, <2>3

LEMMA FirstPart ==
    ASSUME NEW s \in Seq(Int), NEW all \in Seq(Int), Len(s) <= Len(all),
           \A k \in 1 .. Len(s) : s[k] = all[k]
    PROVE  s = SubSeq(all, 1, Len(s))
<1> DEFINE part == SubSeq(all, 1, Len(s))
<1>1. Len(s) \in Nat /\ Len(all) \in Nat /\ \A k \in 1 .. Len(s) : all[k] \in Int
  OBVIOUS
<1>2. \A n \in Nat : n - 1 + 1 = n /\ (1 <= n => n - 1 + 1 = n) /\ (~(1 <= n) => n = 0)
                    /\ \A k \in 1 .. n : 1 + k - 1 = k
  OBVIOUS
<1>3. /\ part \in Seq(Int)
      /\ Len(part) = IF 1 <= Len(s) THEN Len(s) - 1 + 1 ELSE 0
      /\ \A k \in 1 .. Len(s) - 1 + 1 : part[k] = all[1 + k - 1]
  <2>1. Len(s) \in Int /\ 1 \in Int
    BY <1>1
  <2> HIDE DEF part
  <2>2. part = SubSeq(all, 1, Len(s))
    BY DEF part
  <2> QED
    BY <1>1, <2>1, <2>2, SubSeqProperties
<1> HIDE DEF part
<1>4. Len(part) = Len(s) /\ \A k \in 1 .. Len(s) : part[k] = s[k]
  BY <1>1, <1>2, <1>3
<1>5. part = s
  BY <1>3, <1>4, SeqEqual
<1> QED
  BY <1>5 DEF part

LEMMA BothParts ==
    ASSUME NEW old \in Seq(Int), NEW got \in Seq(Int), NEW queue \in Seq(Int),
           NEW all \in Seq(Int), Flow(old, got, queue),
           \A k \in 1 .. Len(all) : all[k] = Due(old, k),
           Len(got) + Len(queue) = Len(all)
    PROVE  got \o queue = all
<1> DEFINE both == got \o queue
<1>1. /\ both \in Seq(Int) /\ Len(both) = Len(got) + Len(queue)
      /\ \A k \in 1 .. Len(got) + Len(queue) :
           both[k] = IF k <= Len(got) THEN got[k] ELSE queue[k - Len(got)]
  BY ConcatProperties
<1>2. Len(got) \in Nat /\ Len(queue) \in Nat
  OBVIOUS
<1> HIDE DEF both
<1>3. ASSUME NEW k \in 1 .. Len(both) PROVE both[k] = all[k]
  <2>1. CASE k <= Len(got)
    <3>1. k \in 1 .. Len(got)
      BY <1>1, <1>2, <2>1
    <3> QED
      BY <1>1, <2>1, <3>1 DEF Flow
  <2>2. CASE ~(k <= Len(got))
    <3>1. k - Len(got) \in 1 .. Len(queue) /\ Len(got) + (k - Len(got)) = k
      BY <1>1, <1>2, <2>2
    <3>2. queue[k - Len(got)] = Due(old, Len(got) + (k - Len(got)))
      BY <3>1 DEF Flow
    <3> QED
      BY <1>1, <2>2, <3>1, <3>2
  <2> QED
    BY <2>1, <2>2
<1>4. Len(both) = Len(all)
  BY <1>1
<1>5. both = all
  BY <1>1, <1>3, <1>4, SeqEqual
<1> QED
  BY <1>5 DEF both

LEMMA MailedLosesNothing == MailedInv => Mailed!NothingLost
<1> SUFFICES ASSUME MailedInv PROVE Mailed!NothingLost
  OBVIOUS
<1> DEFINE all == mem.old \o [k \in 1 .. mem.sent |-> k]
<1>1. MailedType /\ MailedCounts /\ Flow(mem.old, mem.got, mem.queue)
  BY DEF MailedInv
<1>2. /\ mem.queue \in Seq(Int) /\ mem.old \in Seq(Int) /\ mem.got \in Seq(Int)
      /\ mem.sent \in Nat /\ Messages \in Nat
      /\ Len(mem.queue) \in Nat /\ Len(mem.old) \in Nat /\ Len(mem.got) \in Nat
  BY <1>1, MailedFields
<1>3. all \in Seq(Int)
  <2>1. [k \in 1 .. mem.sent |-> k] \in Seq(Int)
    BY <1>2
  <2> QED
    BY <1>2, <2>1, ConcatProperties
<1>4. /\ Len(all) = Len(mem.old) + mem.sent
      /\ \A k \in 1 .. Len(mem.old) + mem.sent : all[k] = Due(mem.old, k)
  BY <1>2, <1>3, InOrder
<1> HIDE DEF all
<1>5. Len(mem.got) <= Len(all)
  <2> DEFINE a == Len(mem.got)  b == Len(mem.queue)  c == Len(mem.old) + mem.sent
  <2>1. a + b = c \/ (a = Messages /\ Messages <= c)
    BY <1>1 DEF MailedCounts
  <2>2. a \in Nat /\ b \in Nat /\ c \in Nat /\ Messages \in Nat
    BY <1>2
  <2> HIDE DEF a, b, c
  <2>3. a <= c
    BY <2>1, <2>2
  <2> QED
    BY <1>4, <2>3 DEF a, c
<1>6. \A k \in 1 .. Len(mem.got) : mem.got[k] = all[k]
  BY <1>1, <1>2, <1>4, <1>5 DEF Flow
<1>7. mem.got = SubSeq(all, 1, Len(mem.got))
  BY <1>2, <1>3, <1>5, <1>6, FirstPart
<1>8. mem.there => mem.got \o mem.queue = all
  BY <1>1, <1>2, <1>3, <1>4, BothParts DEF MailedCounts
<1>9. ~mem.there /\ mem.old = <<>> => mem.got = all
  <2>1. SUFFICES ASSUME ~mem.there, mem.old = <<>> PROVE mem.got = all
    OBVIOUS
  <2>2. Len(mem.got) = Messages /\ mem.sent <= Messages /\ Messages <= mem.sent
    BY <1>1, <1>2, <2>1 DEF MailedCounts
  <2>3. Len(mem.got) = Len(all)
    BY <1>2, <1>4, <2>1, <2>2
  <2> QED
    BY <1>2, <1>3, <1>6, <2>3, SeqEqual
<1> QED
  BY <1>7, <1>8, <1>9 DEF Mailed!NothingLost, all

-----------------------------------------------------------------------------
(* The barber with pipes.                                                  *)
LEMMA PipesPeople ==
    /\ Pipes!Customers = 1 .. Guests /\ IsFiniteSet(Pipes!Customers) /\ 0 \notin Pipes!Customers
    /\ Pipes!Processes = Company /\ 0 \in Company /\ Pipes!barber = 0
    /\ \A t \in Company : t \in Pipes!Customers <=> t # 0
    /\ Pipes!Customers \subseteq Company
    /\ Places \in Nat
<1>1. Pipes!Customers = 1 .. Guests /\ Guests \in Nat /\ Places \in Nat
  BY IpcAssumption DEF Pipes!Customers
<1>2. IsFiniteSet(Pipes!Customers)
  BY <1>1, FS_Interval
<1> QED
  BY <1>1, <1>2 DEF Pipes!Processes, Company, Pipes!barber

(* What the move of t to another place changes, and nothing else does.     *)
Change(t, to) == pc'[t] = to /\ \A u \in Company : u # t => pc'[u] = pc[u]
LEMMA PipesMove ==
    ASSUME PipesPlaces, NEW t \in Company, NEW to \in Allowed(t), Goes(t, to)
    PROVE  PipesPlaces' /\ Change(t, to)
<1>1. pc' = [u \in Company |-> IF u = t THEN to ELSE pc[u]]
  BY DEF PipesPlaces, Goes
<1>2. Change(t, to)
  BY <1>1 DEF Change
<1>3. \A u \in Company : pc'[u] \in Allowed(u)
  BY <1>2 DEF Change, PipesPlaces
<1>4. pc' = [u \in Company |-> pc'[u]]
  BY <1>1
<1> QED
  BY <1>2, <1>3, <1>4 DEF PipesPlaces, Allowed

Near(t, l, L) == IF t = 0 /\ l \in L THEN 1 ELSE 0
Far(t, l, L) == IF t # 0 /\ l \in L THEN 1 ELSE 0
LEMMA PipesCounts ==
    ASSUME NEW t \in Company, NEW to, Change(t, to), NEW L
    PROVE  /\ BarberAt(L)' = BarberAt(L) + Near(t, to, L) - Near(t, pc[t], L)
           /\ GuestsAt(L)' = GuestsAt(L) + Far(t, to, L) - Far(t, pc[t], L)
           /\ BarberAt(L) \in Nat /\ GuestsAt(L) \in Nat
<1>1. GuestsAt(L) \in Nat
  BY PipesPeople, AtFinite DEF GuestsAt
<1>2. CASE t = 0
  <2>1. \A u \in Pipes!Customers : pc'[u] = pc[u]
    BY <1>2, PipesPeople DEF Change
  <2>2. GuestsAt(L)' = GuestsAt(L)
    BY <2>1, CountAside DEF GuestsAt
  <2> QED
    BY <1>1, <1>2, <2>2 DEF Change, BarberAt, Near, Far
<1>3. CASE t # 0
  <2>1. t \in Pipes!Customers /\ Went(Pipes!Customers, t, to)
    BY <1>3, PipesPeople DEF Change, Went
  <2>2. GuestsAt(L)' = GuestsAt(L) + Enters(to, L) - Enters(pc[t], L)
    BY <2>1, PipesPeople, CountOnWay DEF GuestsAt
  <2>3. pc'[0] = pc[0]
    BY <1>3, PipesPeople DEF Change
  <2> QED
    BY <1>1, <1>3, <2>2, <2>3 DEF BarberAt, Near, Far, Enters
<1> QED
  BY <1>2, <1>3

(* What a thread at l adds to Pending, and to who is not called.           *)
Owing(t, l) == Near(t, l, {"lock", "read", "write"}) + Far(t, l, {"notify"})
Calling(t, l) == Far(t, l, {"await", "unlock"}) - Near(t, l, {"lock", "read", "write", "ready"})
LEMMA PipesBalance ==
    ASSUME PipesData, PipesData', NEW t \in Company, NEW to, Change(t, to)
    PROVE  /\ Pending' = Pending + sem'["customers"] - sem["customers"]
                           + Owing(t, to) - Owing(t, pc[t])
           /\ Pending \in Nat
           /\ CalledInv /\ Calling(t, to) - Calling(t, pc[t])
                             = sem'["customers"] - sem["customers"] + sem'["barber"] - sem["barber"]
                => CalledInv'
<1>1. /\ sem["customers"] \in Nat /\ sem'["customers"] \in Nat
      /\ sem["barber"] \in Nat /\ sem'["barber"] \in Nat
  BY DEF PipesData
<1>2. \A l, L : Near(t, l, L) \in Nat /\ Far(t, l, L) \in Nat
  BY DEF Near, Far
<1> DEFINE X == {"lock", "read", "write"}
           Y == {"notify"}
           Z == {"await", "unlock"}
           W == {"lock", "read", "write", "ready"}
<1>3. /\ BarberAt(X)' = BarberAt(X) + Near(t, to, X) - Near(t, pc[t], X) /\ BarberAt(X) \in Nat
      /\ GuestsAt(Y)' = GuestsAt(Y) + Far(t, to, Y) - Far(t, pc[t], Y) /\ GuestsAt(Y) \in Nat
  BY PipesCounts
<1>4. /\ BarberAt(W)' = BarberAt(W) + Near(t, to, W) - Near(t, pc[t], W) /\ BarberAt(W) \in Nat
      /\ GuestsAt(Z)' = GuestsAt(Z) + Far(t, to, Z) - Far(t, pc[t], Z) /\ GuestsAt(Z) \in Nat
  BY PipesCounts
<1>5. Pending = sem["customers"] + BarberAt(X) + GuestsAt(Y)
  BY DEF Pending
<1>6. Pending' = sem'["customers"] + BarberAt(X)' + GuestsAt(Y)'
  BY DEF Pending
<1>7. CalledInv <=> GuestsAt(Z) = sem["customers"] + BarberAt(W) + sem["barber"]
  BY DEF CalledInv
<1>8. CalledInv' <=> GuestsAt(Z)' = sem'["customers"] + BarberAt(W)' + sem'["barber"]
  BY DEF CalledInv
<1>9. \A l : Owing(t, l) = Near(t, l, X) + Far(t, l, Y) /\ Calling(t, l) = Far(t, l, Z) - Near(t, l, W)
  BY DEF Owing, Calling
<1> HIDE DEF X, Y, Z, W
<1>10. /\ Pending' = Pending + sem'["customers"] - sem["customers"]
                       + Owing(t, to) - Owing(t, pc[t])
       /\ Pending \in Nat
  BY <1>1, <1>2, <1>3, <1>5, <1>6, <1>9
<1>11. CalledInv /\ Calling(t, to) - Calling(t, pc[t])
                      = sem'["customers"] - sem["customers"] + sem'["barber"] - sem["barber"]
         => CalledInv'
  <2> DEFINE far == Far(t, to, Z) - Far(t, pc[t], Z)
             near == Near(t, to, W) - Near(t, pc[t], W)
  <2>1. far \in Int /\ near \in Int
    BY <1>2
  <2>2. Calling(t, to) - Calling(t, pc[t]) = far - near
    BY <1>2, <1>9
  <2>3. GuestsAt(Z)' = GuestsAt(Z) + far /\ BarberAt(W)' = BarberAt(W) + near
    BY <1>2, <1>4
  <2> HIDE DEF far, near
  <2>4. SUFFICES ASSUME CalledInv,
                        far - near = sem'["customers"] - sem["customers"]
                                       + sem'["barber"] - sem["barber"]
                 PROVE  GuestsAt(Z)' = sem'["customers"] + BarberAt(W)' + sem'["barber"]
    BY <1>8, <2>2
  <2>5. GuestsAt(Z) = sem["customers"] + BarberAt(W) + sem["barber"]
    BY <1>7, <2>4
  <2> QED
    BY <1>1, <1>4, <2>1, <2>3, <2>4, <2>5
<1> QED
  BY <1>10, <1>11

(* The lock is taken, kept, given back, or not concerned.                  *)
LEMMA PipesLock ==
    ASSUME SeatLock, NEW t \in Company, NEW to, Change(t, to),
           \/ pc[t] \notin Locked /\ to \in Locked /\ sem["seats"] > 0 /\ sem'["seats"] = sem["seats"] - 1
           \/ pc[t] \in Locked /\ to \in Locked /\ sem'["seats"] = sem["seats"]
           \/ pc[t] \in Locked /\ to \notin Locked /\ sem'["seats"] = sem["seats"] + 1
           \/ pc[t] \notin Locked /\ to \notin Locked /\ sem'["seats"] = sem["seats"]
    PROVE  SeatLock'
<1>1. /\ sem["seats"] = IF \E u \in Company : pc[u] \in Locked THEN 0 ELSE 1
      /\ \A u, v \in Company : pc[u] \in Locked /\ pc[v] \in Locked => v = u
  BY DEF SeatLock
<1>2. pc'[t] = to /\ \A u \in Company : u # t => pc'[u] = pc[u]
  BY DEF Change
<1>3. CASE pc[t] \notin Locked /\ to \in Locked /\ sem["seats"] > 0 /\ sem'["seats"] = sem["seats"] - 1
  <2>1. (\A u \in Company : pc[u] \notin Locked) /\ sem["seats"] = 1
    BY <1>1, <1>3
  <2> QED
    BY <1>2, <1>3, <2>1 DEF SeatLock, Locked
<1>4. CASE pc[t] \in Locked /\ to \in Locked /\ sem'["seats"] = sem["seats"]
  BY <1>1, <1>2, <1>4 DEF SeatLock, Locked
<1>5. CASE pc[t] \in Locked /\ to \notin Locked /\ sem'["seats"] = sem["seats"] + 1
  <2>1. sem["seats"] = 0 /\ \A u \in Company : pc'[u] \notin Locked
    BY <1>1, <1>2, <1>5
  <2> QED
    BY <1>5, <2>1 DEF SeatLock, Locked
<1>6. CASE pc[t] \notin Locked /\ to \notin Locked /\ sem'["seats"] = sem["seats"]
  <2>1. \A u \in Company : pc'[u] \in Locked <=> pc[u] \in Locked
    BY <1>2, <1>6
  <2> QED
    BY <1>1, <1>6, <2>1 DEF SeatLock, Locked
<1> QED
  BY <1>3, <1>4, <1>5, <1>6

(* The steps that leave the number in the pipe where it is.                *)
LEMMA PipesQuiet ==
    ASSUME PipesInv, NEW t \in Company, NEW to \in Allowed(t), Goes(t, to),
           pc[t] # "write", to # "write", PipesData', SeatLock',
           mem'.freeseats = mem.freeseats, mem'.num = mem.num,
           sem'["customers"] - sem["customers"] + Owing(t, to) - Owing(t, pc[t]) = 0,
           Calling(t, to) - Calling(t, pc[t])
             = sem'["customers"] - sem["customers"] + sem'["barber"] - sem["barber"]
    PROVE  PipesInv'
<1>1. PipesPlaces /\ PipesData /\ SeatLock /\ NumberInv /\ CalledInv
  BY DEF PipesInv
<1>2. PipesPlaces' /\ Change(t, to)
  BY <1>1, PipesMove
<1>3. CalledInv'
  BY <1>1, <1>2, PipesBalance
<1>4. Pending' = Pending
  <2>1. /\ Pending' = Pending + sem'["customers"] - sem["customers"]
                        + Owing(t, to) - Owing(t, pc[t])
        /\ Pending \in Nat
    BY <1>1, <1>2, PipesBalance
  <2>2. /\ sem["customers"] \in Nat /\ sem'["customers"] \in Nat
        /\ Owing(t, to) \in Nat /\ Owing(t, pc[t]) \in Nat
    BY <1>1 DEF PipesData, Owing, Near, Far
  <2> QED
    BY <2>1, <2>2
<1>5. NumberInv'
  <2>1. \A u \in Company : pc'[u] = "write" <=> pc[u] = "write"
    BY <1>2 DEF Change
  <2>2. Pending' \in 0 .. Places
    BY <1>1, <1>4 DEF NumberInv
  <2>3. ASSUME NEW u \in Company, pc'[u] = "write"
        PROVE  mem'.freeseats = <<>> /\ mem'.num[u] = Places - Pending'
    BY <1>1, <1>4, <2>1, <2>3 DEF NumberInv
  <2>4. ASSUME \A u \in Company : pc'[u] # "write"
        PROVE  mem'.freeseats = <<Places - Pending'>>
    BY <1>1, <1>4, <2>1, <2>4 DEF NumberInv
  <2> QED
    BY <2>2, <2>3, <2>4 DEF NumberInv, Company
<1> QED
  BY <1>1, <1>2, <1>3, <1>5 DEF PipesInv

-----------------------------------------------------------------------------
LEMMA PipesStart == Pipes!Init => PipesInv
<1> SUFFICES ASSUME Pipes!Init PROVE PipesInv
  OBVIOUS
<1>1. /\ pc = [t \in Company |-> IF t = 0 THEN "get" ELSE "lock"]
      /\ sem = [seats |-> 1, customers |-> 0, barber |-> 0]
      /\ mem = [freeseats |-> <<Places>>, num |-> [t \in Company |-> 0],
                i |-> [t \in Company |-> 1]]
  BY PipesPeople DEF Pipes!Init
<1>2. PipesPlaces
  BY <1>1 DEF PipesPlaces, Allowed
<1>3. PipesData
  BY <1>1, PipesPeople DEF PipesData
<1>4. \A t \in Company : pc[t] \notin Locked /\ pc[t] # "write"
  BY <1>1 DEF Locked
<1>5. SeatLock
  <2>1. sem["seats"] = 1
    BY <1>1
  <2> QED
    BY <1>4, <2>1 DEF SeatLock
<1>6. \A c \in Pipes!Customers : pc[c] = "lock"
  BY <1>1, PipesPeople
<1>7. At(Pipes!Customers, {"notify"}) = {} /\ At(Pipes!Customers, {"await", "unlock"}) = {}
  BY <1>6 DEF At
<1>8. GuestsAt({"notify"}) = 0 /\ GuestsAt({"await", "unlock"}) = 0
  BY <1>7, FS_EmptySet DEF GuestsAt
<1>9. pc[0] = "get" /\ sem["customers"] = 0 /\ sem["barber"] = 0
  BY <1>1, PipesPeople
<1>10. Pending = 0 /\ CalledInv
  BY <1>8, <1>9 DEF Pending, CalledInv, BarberAt
<1>11. NumberInv
  <2>1. mem.freeseats = <<Places>> /\ Places - 0 = Places /\ 0 \in 0 .. Places
    BY <1>1, PipesPeople
  <2> QED
    BY <1>4, <1>10, <2>1 DEF NumberInv
<1> QED
  BY <1>2, <1>3, <1>5, <1>10, <1>11 DEF PipesInv

LEMMA PipesSem ==
    ASSUME PipesData, NEW s \in {"seats", "customers", "barber"}, NEW n \in Nat,
           sem' = [sem EXCEPT ![s] = n]
    PROVE  /\ sem' \in [{"seats", "customers", "barber"} -> Nat]
           /\ sem'[s] = n /\ sem[s] \in Nat
           /\ \A u \in {"seats", "customers", "barber"} : u # s => sem'[u] = sem[u]
           /\ \A u \in {"seats", "customers", "barber"} : sem[u] \in Nat
BY DEF PipesData

LEMMA PipesNext ==
    ASSUME PipesData, NEW t \in Company, Pipes!NextRound(t)
    PROVE  /\ mem' \in [freeseats : Seq(Int), num : [Company -> Int], i : [Company -> Int]]
           /\ mem'.freeseats = mem.freeseats /\ mem'.num = mem.num
<1>1. /\ mem = [freeseats |-> mem.freeseats, num |-> mem.num, i |-> mem.i]
      /\ mem.freeseats \in Seq(Int) /\ mem.num \in [Company -> Int] /\ mem.i \in [Company -> Int]
  BY DEF PipesData
<1> DEFINE i == [mem.i EXCEPT ![t] = @ + 1]
<1>2. i \in [Company -> Int]
  BY <1>1
<1>3. mem' = [mem EXCEPT !.i = i]
  BY DEF Pipes!NextRound
<1> HIDE DEF i
<1>4. mem' = [freeseats |-> mem.freeseats, num |-> mem.num, i |-> i]
  BY <1>1, <1>3
<1> QED
  BY <1>1, <1>2, <1>4

(* A step that takes or posts one semaphore and leaves the number alone.   *)
OneSem(t, from, to, s, d) ==
    /\ pc[t] = from /\ Goes(t, to) /\ sem[s] + d >= 0
    /\ sem' = [sem EXCEPT ![s] = sem[s] + d] /\ (mem' = mem \/ Pipes!NextRound(t))
Suits(t, from, to, s, d) ==
    /\ to \in Allowed(t) /\ from # "write" /\ to # "write"
    /\ s \in {"seats", "customers", "barber"} /\ d \in {-1, 1}
    /\ s = "seats" => \/ from \notin Locked /\ to \in Locked /\ d = -1
                      \/ from \in Locked /\ to \notin Locked /\ d = 1
    /\ s # "seats" => (from \in Locked <=> to \in Locked)
    /\ Owing(t, to) - Owing(t, from) = IF s = "customers" THEN -d ELSE 0
    /\ Calling(t, to) - Calling(t, from) = IF s = "seats" THEN 0 ELSE d
LEMMA PipesOne ==
    ASSUME PipesInv, NEW t \in Company, NEW from, NEW to, NEW s, NEW d,
           OneSem(t, from, to, s, d), Suits(t, from, to, s, d)
    PROVE  PipesInv'
<1>0. /\ to \in Allowed(t) /\ pc[t] = from /\ Goes(t, to) /\ from # "write" /\ to # "write"
      /\ s \in {"seats", "customers", "barber"} /\ d \in {-1, 1} /\ sem[s] + d >= 0
      /\ sem' = [sem EXCEPT ![s] = sem[s] + d] /\ (mem' = mem \/ Pipes!NextRound(t))
      /\ s = "seats" => \/ pc[t] \notin Locked /\ to \in Locked /\ d = -1
                        \/ pc[t] \in Locked /\ to \notin Locked /\ d = 1
      /\ s # "seats" => (pc[t] \in Locked <=> to \in Locked)
      /\ Owing(t, to) - Owing(t, pc[t]) = IF s = "customers" THEN -d ELSE 0
      /\ Calling(t, to) - Calling(t, pc[t]) = IF s = "seats" THEN 0 ELSE d
  BY DEF OneSem, Suits
<1>1. PipesPlaces /\ PipesData /\ SeatLock
  BY DEF PipesInv
<1>2. sem[s] \in Nat /\ sem[s] + d \in Nat /\ d \in Int
  BY <1>0, <1>1 DEF PipesData
<1>3. /\ sem' \in [{"seats", "customers", "barber"} -> Nat] /\ sem'[s] = sem[s] + d
      /\ \A u \in {"seats", "customers", "barber"} : u # s => sem'[u] = sem[u]
      /\ \A u \in {"seats", "customers", "barber"} : sem[u] \in Nat
  BY <1>0, <1>1, <1>2, PipesSem
<1>4. /\ mem' \in [freeseats : Seq(Int), num : [Company -> Int], i : [Company -> Int]]
      /\ mem'.freeseats = mem.freeseats /\ mem'.num = mem.num
  <2>1. CASE mem' = mem
    BY <1>1, <2>1 DEF PipesData
  <2>2. CASE Pipes!NextRound(t)
    BY <1>1, <2>2, PipesNext
  <2> QED
    BY <1>0, <2>1, <2>2
<1>5. PipesData'
  BY <1>3, <1>4 DEF PipesData
<1>6. SeatLock'
  <2>1. Change(t, to)
    BY <1>0, <1>1, PipesMove
  <2>2. CASE s = "seats"
    <3>1. sem["seats"] \in Nat /\ sem'["seats"] = sem["seats"] + d /\ sem["seats"] + d >= 0
      BY <1>0, <1>2, <1>3, <2>2
    <3>2. CASE d = -1
      BY <1>0, <1>1, <2>1, <2>2, <3>1, <3>2, PipesLock
    <3>3. CASE d = 1
      BY <1>0, <1>1, <2>1, <2>2, <3>1, <3>3, PipesLock
    <3> QED
      BY <1>0, <3>2, <3>3
  <2>3. CASE s # "seats"
    <3>1. sem'["seats"] = sem["seats"]
      BY <1>3, <2>3
    <3> QED
      BY <1>0, <1>1, <2>1, <2>3, <3>1, PipesLock
  <2> QED
    BY <2>2, <2>3
<1>7. /\ sem'["customers"] = sem["customers"] + (IF s = "customers" THEN d ELSE 0)
      /\ sem'["barber"] = sem["barber"] + (IF s = "barber" THEN d ELSE 0)
      /\ sem["customers"] \in Nat /\ sem["barber"] \in Nat
  BY <1>0, <1>2, <1>3
<1>8. /\ Owing(t, to) \in Int /\ Owing(t, pc[t]) \in Int
  BY DEF Owing, Near, Far
<1>9. /\ sem'["customers"] - sem["customers"] + Owing(t, to) - Owing(t, pc[t]) = 0
      /\ Calling(t, to) - Calling(t, pc[t])
           = sem'["customers"] - sem["customers"] + sem'["barber"] - sem["barber"]
  <2>1. CASE s = "customers"
    BY <1>0, <1>2, <1>7, <1>8, <2>1
  <2>2. CASE s = "barber"
    BY <1>0, <1>2, <1>7, <1>8, <2>2
  <2>3. CASE s = "seats"
    BY <1>0, <1>2, <1>7, <1>8, <2>3
  <2> QED
    BY <1>0, <2>1, <2>2, <2>3
<1> QED
  BY <1>0, <1>4, <1>5, <1>6, <1>9, PipesQuiet

LEMMA PipesSemaphores ==
    ASSUME PipesInv, NEW t \in Company,
           \/ Pipes!LockSeats(t)
           \/ t = 0 /\ (Pipes!GetCustomer \/ Pipes!BarberReady \/ Pipes!BarberUnlock)
           \/ t # 0 /\ (Pipes!Notify(t) \/ Pipes!CustomerUnlock(t))
           \/ t # 0 /\ (Pipes!GetHaircut(t) \/ Pipes!GiveUp(t))
    PROVE  PipesInv'
<1>1. /\ \A s \in {"seats", "customers", "barber"} : sem[s] \in Nat
      /\ Pipes!barber = 0
  BY PipesPeople DEF PipesInv, PipesData
<1>2. CASE Pipes!LockSeats(t)
  <2>0. /\ sem["seats"] - 1 = sem["seats"] + (-1)
        /\ sem["seats"] > 0 => sem["seats"] + (-1) >= 0
    BY <1>1
  <2>1. OneSem(t, "lock", "read", "seats", -1)
    BY <1>1, <1>2, <2>0 DEF Pipes!LockSeats, OneSem, Goes, Pipes!Go, Pipes!P, Pipes!Down
  <2>2. Suits(t, "lock", "read", "seats", -1)
    BY <1>2 DEF Suits, Allowed, Locked, Owing, Calling, Near, Far
  <2> QED
    BY <2>1, <2>2, PipesOne
<1>3. CASE t = 0 /\ Pipes!GetCustomer
  <2>0. /\ sem["customers"] - 1 = sem["customers"] + (-1)
        /\ sem["customers"] > 0 => sem["customers"] + (-1) >= 0
    BY <1>1
  <2>1. OneSem(t, "get", "lock", "customers", -1)
    BY <1>1, <1>3, <2>0 DEF Pipes!GetCustomer, OneSem, Goes, Pipes!Go, Pipes!P, Pipes!Down
  <2>3. /\ Owing(t, "lock") = 1 /\ Owing(t, "get") = 0
        /\ Calling(t, "lock") = -1 /\ Calling(t, "get") = 0
    <3>1. /\ Near(t, "lock", {"lock", "read", "write"}) = 1 /\ Near(t, "lock", {"lock", "read", "write", "ready"}) = 1
          /\ Near(t, "get", {"lock", "read", "write"}) = 0 /\ Near(t, "get", {"lock", "read", "write", "ready"}) = 0
      BY <1>3 DEF Near
    <3>2. \A l, L : Far(t, l, L) = 0
      BY <1>3 DEF Far
    <3> QED
      BY <3>1, <3>2 DEF Owing, Calling
  <2>2. Suits(t, "get", "lock", "customers", -1)
    BY <1>3, <2>3 DEF Suits, Allowed, Locked
  <2> QED
    BY <2>1, <2>2, PipesOne
<1>4. CASE t = 0 /\ Pipes!BarberReady
  <2>1. OneSem(t, "ready", "unlock", "barber", 1)
    BY <1>1, <1>4 DEF Pipes!BarberReady, OneSem, Goes, Pipes!Go, Pipes!V, Pipes!Up
  <2>3. /\ Owing(t, "unlock") = 0 /\ Owing(t, "ready") = 0
        /\ Calling(t, "unlock") = 0 /\ Calling(t, "ready") = -1
    <3>1. /\ Near(t, "unlock", {"lock", "read", "write"}) = 0 /\ Near(t, "unlock", {"lock", "read", "write", "ready"}) = 0
          /\ Near(t, "ready", {"lock", "read", "write"}) = 0 /\ Near(t, "ready", {"lock", "read", "write", "ready"}) = 1
      BY <1>4 DEF Near
    <3>2. \A l, L : Far(t, l, L) = 0
      BY <1>4 DEF Far
    <3> QED
      BY <3>1, <3>2 DEF Owing, Calling
  <2>2. Suits(t, "ready", "unlock", "barber", 1)
    BY <1>4, <2>3 DEF Suits, Allowed, Locked
  <2> QED
    BY <2>1, <2>2, PipesOne
<1>5. CASE t = 0 /\ Pipes!BarberUnlock
  <2> DEFINE to == Pipes!Round(Pipes!barber, Visits * Guests, "get")
  <2>1. OneSem(t, "unlock", to, "seats", 1)
    BY <1>1, <1>5 DEF Pipes!BarberUnlock, OneSem, Goes, Pipes!Go, Pipes!Up
  <2>2. to \in {"end", "get"}
    BY DEF Pipes!Round
  <2> HIDE DEF to
  <2>3. Suits(t, "unlock", to, "seats", 1)
    BY <1>5, <2>2 DEF Suits, Allowed, Locked, Owing, Calling, Near, Far
  <2> QED
    BY <2>1, <2>3, PipesOne
<1>6. CASE t # 0 /\ Pipes!Notify(t)
  <2>1. OneSem(t, "notify", "unlock", "customers", 1)
    BY <1>1, <1>6 DEF Pipes!Notify, OneSem, Goes, Pipes!Go, Pipes!V, Pipes!Up
  <2>2. Suits(t, "notify", "unlock", "customers", 1)
    BY <1>6 DEF Suits, Allowed, Locked, Owing, Calling, Near, Far
  <2> QED
    BY <2>1, <2>2, PipesOne
<1>7. CASE t # 0 /\ Pipes!CustomerUnlock(t)
  <2>1. OneSem(t, "unlock", "await", "seats", 1)
    BY <1>1, <1>7 DEF Pipes!CustomerUnlock, OneSem, Goes, Pipes!Go, Pipes!V, Pipes!Up
  <2>2. Suits(t, "unlock", "await", "seats", 1)
    BY <1>7 DEF Suits, Allowed, Locked, Owing, Calling, Near, Far
  <2> QED
    BY <2>1, <2>2, PipesOne
<1>8. CASE t # 0 /\ Pipes!GetHaircut(t)
  <2> DEFINE to == Pipes!Round(t, Visits, "lock")
  <2>0. /\ sem["barber"] - 1 = sem["barber"] + (-1)
        /\ sem["barber"] > 0 => sem["barber"] + (-1) >= 0
    BY <1>1
  <2>1. OneSem(t, "await", to, "barber", -1)
    BY <1>1, <1>8, <2>0 DEF Pipes!GetHaircut, OneSem, Goes, Pipes!Go, Pipes!Down
  <2>2. to \in {"end", "lock"}
    BY DEF Pipes!Round
  <2> HIDE DEF to
  <2>3. Suits(t, "await", to, "barber", -1)
    BY <1>8, <2>2 DEF Suits, Allowed, Locked, Owing, Calling, Near, Far
  <2> QED
    BY <2>1, <2>3, PipesOne
<1>9. CASE t # 0 /\ Pipes!GiveUp(t)
  <2> DEFINE to == Pipes!Round(t, Visits, "lock")
  <2>1. OneSem(t, "giveup", to, "seats", 1)
    BY <1>1, <1>9 DEF Pipes!GiveUp, OneSem, Goes, Pipes!Go, Pipes!Up
  <2>2. to \in {"end", "lock"}
    BY DEF Pipes!Round
  <2> HIDE DEF to
  <2>3. Suits(t, "giveup", to, "seats", 1)
    BY <1>9, <2>2 DEF Suits, Allowed, Locked, Owing, Calling, Near, Far
  <2> QED
    BY <2>1, <2>3, PipesOne
<1> QED
  BY <1>2, <1>3, <1>4, <1>5, <1>6, <1>7, <1>8, <1>9, Zenon

(* The number leaves the pipe and comes back changed.                      *)
LEMMA PipesReadSeats ==
    ASSUME PipesInv, NEW t \in Company, Pipes!ReadSeats(t) PROVE PipesInv'
<1>1. PipesPlaces /\ PipesData /\ SeatLock /\ NumberInv /\ CalledInv
  BY DEF PipesInv
<1>2. pc[t] = "read" /\ Goes(t, "write") /\ sem' = sem
  BY DEF Pipes!ReadSeats, Pipes!Go, Goes
<1>3. "write" \in Allowed(t) /\ {"read", "write"} \subseteq Locked
  BY DEF Allowed, Locked
<1>4. PipesPlaces' /\ Change(t, "write")
  BY <1>1, <1>2, <1>3, PipesMove
<1>5. \A u \in Company : pc[u] # "write"
  BY <1>1, <1>2, <1>3 DEF SeatLock
<1>6. mem.freeseats = <<Places - Pending>>
  BY <1>1, <1>5 DEF NumberInv
<1>7. PipesData' /\ mem'.freeseats = <<>> /\ mem'.num[t] = Places - Pending
  <2> DEFINE n == [mem.num EXCEPT ![t] = Head(mem.freeseats)]
  <2>1. /\ mem = [freeseats |-> mem.freeseats, num |-> mem.num, i |-> mem.i]
        /\ mem.num \in [Company -> Int] /\ mem.i \in [Company -> Int]
    BY <1>1 DEF PipesData
  <2>2. Places - Pending \in Int
    BY <1>1, PipesPeople DEF NumberInv
  <2>3. Head(mem.freeseats) = Places - Pending /\ Tail(mem.freeseats) = <<>>
    BY <1>6
  <2>4. n \in [Company -> Int] /\ n[t] = Places - Pending
    BY <2>1, <2>2, <2>3
  <2>5. mem' = [mem EXCEPT !.num = n, !.freeseats = <<>>]
    BY <2>3 DEF Pipes!ReadSeats
  <2> HIDE DEF n
  <2>6. mem' = [freeseats |-> <<>>, num |-> n, i |-> mem.i]
    BY <2>1, <2>5
  <2>7. <<>> \in Seq(Int)
    OBVIOUS
  <2> QED
    BY <1>1, <1>2, <2>1, <2>4, <2>6, <2>7 DEF PipesData
<1>8. SeatLock'
  BY <1>1, <1>2, <1>3, <1>4, PipesLock
<1>9. CalledInv' /\ Pending' = Pending
  <2>1. /\ Owing(t, "write") = Owing(t, "read") /\ Calling(t, "write") = Calling(t, "read")
        /\ Owing(t, "read") \in Int /\ Calling(t, "read") \in Int
    BY DEF Owing, Calling, Near, Far
  <2>2. sem["customers"] \in Nat /\ sem["barber"] \in Nat
    BY <1>1 DEF PipesData
  <2>3. /\ Pending' = Pending + sem'["customers"] - sem["customers"]
                        + Owing(t, "write") - Owing(t, pc[t])
        /\ Pending \in Nat
    BY <1>1, <1>4, <1>7, PipesBalance
  <2>4. Pending' = Pending
    BY <1>2, <2>1, <2>2, <2>3
  <2>5. Calling(t, "write") - Calling(t, pc[t])
          = sem'["customers"] - sem["customers"] + sem'["barber"] - sem["barber"]
    BY <1>2, <2>1, <2>2
  <2> QED
    BY <1>1, <1>4, <1>7, <2>4, <2>5, PipesBalance
<1>10. NumberInv'
  <2>1. \A u \in Company : pc'[u] = "write" => u = t
    BY <1>4, <1>5 DEF Change
  <2>2. pc'[t] = "write"
    BY <1>4 DEF Change
  <2> QED
    BY <1>1, <1>7, <1>9, <2>1, <2>2 DEF NumberInv, Company
<1> QED
  BY <1>4, <1>7, <1>8, <1>9, <1>10 DEF PipesInv

LEMMA PipesWriteSeats ==
    ASSUME PipesInv, NEW t \in Company, NEW to \in Allowed(t), NEW n, Pipes!WriteSeats(t, n, to),
           to \in Locked, to # "write", Calling(t, to) = Calling(t, "write"),
           n = mem.num[t] - Owing(t, to) + Owing(t, "write"), n \in 0 .. Places
    PROVE  PipesInv'
<1>1. PipesPlaces /\ PipesData /\ SeatLock /\ NumberInv /\ CalledInv
  BY DEF PipesInv
<1>2. pc[t] = "write" /\ Goes(t, to) /\ sem' = sem /\ "write" \in Locked
  BY DEF Pipes!WriteSeats, Pipes!Go, Goes, Locked
<1>3. PipesPlaces' /\ Change(t, to)
  BY <1>1, <1>2, PipesMove
<1>4. mem.freeseats = <<>> /\ mem.num[t] = Places - Pending /\ Pending \in Int /\ Places \in Nat
  BY <1>1, <1>2, PipesPeople DEF NumberInv
<1>5. PipesData' /\ mem'.freeseats = <<n>>
  <2> DEFINE num == [mem.num EXCEPT ![t] = n]
  <2>1. /\ mem = [freeseats |-> mem.freeseats, num |-> mem.num, i |-> mem.i]
        /\ mem.num \in [Company -> Int] /\ mem.i \in [Company -> Int]
    BY <1>1 DEF PipesData
  <2>2. n \in Int
    BY <1>4
  <2>3. num \in [Company -> Int]
    BY <2>1, <2>2
  <2>4. Append(mem.freeseats, n) = <<n>> /\ <<n>> \in Seq(Int)
    BY <1>4, <2>2
  <2>5. mem' = [mem EXCEPT !.num = num, !.freeseats = <<n>>]
    BY <2>4 DEF Pipes!WriteSeats
  <2> HIDE DEF num
  <2>6. mem' = [freeseats |-> <<n>>, num |-> num, i |-> mem.i]
    BY <2>1, <2>5
  <2> QED
    BY <1>1, <1>2, <2>1, <2>3, <2>4, <2>6 DEF PipesData
<1>6. SeatLock'
  BY <1>1, <1>2, <1>3, PipesLock
<1>7. CalledInv' /\ n = Places - Pending' /\ Pending' \in 0 .. Places
  <2>1. /\ Owing(t, to) \in Int /\ Owing(t, "write") \in Int
        /\ Calling(t, to) \in Int
    BY DEF Owing, Calling, Near, Far
  <2>2. sem["customers"] \in Nat /\ sem["barber"] \in Nat
    BY <1>1 DEF PipesData
  <2>3. /\ Pending' = Pending + sem'["customers"] - sem["customers"]
                        + Owing(t, to) - Owing(t, pc[t])
        /\ Pending \in Nat
    BY <1>1, <1>3, <1>5, PipesBalance
  <2>4. Pending' = Pending + Owing(t, to) - Owing(t, "write")
    BY <1>2, <2>1, <2>2, <2>3
  <2>5. Calling(t, to) - Calling(t, pc[t])
          = sem'["customers"] - sem["customers"] + sem'["barber"] - sem["barber"]
    BY <1>2, <2>1, <2>2
  <2>6. CalledInv'
    BY <1>1, <1>3, <1>5, <2>5, PipesBalance
  <2>7. n = Places - Pending' /\ Pending' \in Int
    BY <1>4, <2>1, <2>4
  <2>8. Pending' \in 0 .. Places
    <3>1. \A p \in Int : n = Places - p => p = Places - n
      BY <1>4
    <3>2. Places - n \in 0 .. Places
      BY <1>4
    <3> QED
      BY <2>7, <3>1, <3>2
  <2> QED
    BY <2>6, <2>7, <2>8
<1>8. NumberInv'
  <2>1. ASSUME NEW u \in Company PROVE pc'[u] # "write"
    BY <1>1, <1>2, <1>3 DEF SeatLock, Change
  <2> QED
    BY <1>5, <1>7, <2>1 DEF NumberInv, Company
<1> QED
  BY <1>3, <1>5, <1>6, <1>7, <1>8 DEF PipesInv

LEMMA PipesBarberSeats == ASSUME PipesInv, Pipes!BarberSeats PROVE PipesInv'
<1>1. 0 \in Company /\ Pipes!barber = 0 /\ Places \in Nat
  BY PipesPeople
<1>2. pc[0] = "write" /\ Pipes!WriteSeats(0, mem.num[0] + 1, "ready")
  BY <1>1 DEF Pipes!BarberSeats, Pipes!WriteSeats, Pipes!Go
<1>3. mem.num[0] = Places - Pending /\ Pending \in 0 .. Places
  BY <1>1, <1>2 DEF PipesInv, NumberInv
<1>4. Pending >= 1
  <2>1. BarberAt({"lock", "read", "write"}) = 1 /\ sem["customers"] \in Nat
    BY <1>2 DEF BarberAt, PipesInv, PipesData
  <2>2. GuestsAt({"notify"}) \in Nat
    BY PipesPeople, AtFinite DEF GuestsAt
  <2> QED
    BY <2>1, <2>2 DEF Pending
<1>5. /\ "ready" \in Allowed(0) /\ "ready" \in Locked
      /\ Calling(0, "ready") = Calling(0, "write")
      /\ Owing(0, "ready") = 0 /\ Owing(0, "write") = 1
  BY DEF Allowed, Locked, Calling, Owing, Near, Far
<1>6. /\ mem.num[0] + 1 \in 0 .. Places
      /\ mem.num[0] + 1 = mem.num[0] - Owing(0, "ready") + Owing(0, "write")
  <2> QED
    BY <1>1, <1>3, <1>4, <1>5
<1> QED
  BY <1>1, <1>2, <1>5, <1>6, PipesWriteSeats

LEMMA PipesCustomerSeats ==
    ASSUME PipesInv, NEW c \in Pipes!Customers, Pipes!CustomerSeats(c) PROVE PipesInv'
<1>1. c \in Company /\ c # 0 /\ Places \in Nat
  BY PipesPeople
<1>2. pc[c] = "write"
  BY DEF Pipes!CustomerSeats, Pipes!WriteSeats, Pipes!Go
<1>3. mem.num[c] = Places - Pending /\ Pending \in 0 .. Places
  BY <1>1, <1>2 DEF PipesInv, NumberInv
<1>4. /\ {"notify", "giveup"} \subseteq Allowed(c) /\ {"notify", "giveup"} \subseteq Locked
      /\ Calling(c, "notify") = Calling(c, "write") /\ Calling(c, "giveup") = Calling(c, "write")
      /\ Owing(c, "notify") = 1 /\ Owing(c, "write") = 0 /\ Owing(c, "giveup") = 0
  BY <1>1 DEF Allowed, Locked, Calling, Owing, Near, Far
<1>5. CASE mem.num[c] > 0
  <2>1. Pipes!WriteSeats(c, mem.num[c] - 1, "notify")
    BY <1>5 DEF Pipes!CustomerSeats
  <2>2. /\ mem.num[c] - 1 \in 0 .. Places
        /\ mem.num[c] - 1 = mem.num[c] - Owing(c, "notify") + Owing(c, "write")
    BY <1>1, <1>3, <1>4, <1>5
  <2> QED
    BY <1>1, <1>4, <2>1, <2>2, PipesWriteSeats
<1>6. CASE ~(mem.num[c] > 0)
  <2>1. Pipes!WriteSeats(c, mem.num[c], "giveup")
    BY <1>6 DEF Pipes!CustomerSeats
  <2>2. /\ mem.num[c] \in 0 .. Places
        /\ mem.num[c] = mem.num[c] - Owing(c, "giveup") + Owing(c, "write")
    BY <1>1, <1>3, <1>4
  <2> QED
    BY <1>1, <1>4, <2>1, <2>2, PipesWriteSeats
<1> QED
  BY <1>5, <1>6

LEMMA PipesStep == PipesInv /\ Pipes!Next => PipesInv'
<1> SUFFICES ASSUME PipesInv, Pipes!Next PROVE PipesInv'
  OBVIOUS
<1>1. CASE \E t \in Company : Pipes!LockSeats(t) \/ Pipes!ReadSeats(t)
  BY <1>1, PipesSemaphores, PipesReadSeats
<1>2. CASE Pipes!GetCustomer \/ Pipes!BarberReady \/ Pipes!BarberUnlock
  <2>1. 0 \in Company
    BY PipesPeople
  <2> QED
    BY <1>2, <2>1, PipesSemaphores
<1>3. CASE Pipes!BarberSeats
  BY <1>3, PipesBarberSeats
<1>4. ASSUME NEW c \in Pipes!Customers,
             \/ Pipes!CustomerSeats(c) \/ Pipes!Notify(c) \/ Pipes!CustomerUnlock(c)
             \/ Pipes!GetHaircut(c) \/ Pipes!GiveUp(c)
      PROVE  PipesInv'
  <2>1. c \in Company /\ c # 0
    BY PipesPeople
  <2>2. CASE Pipes!CustomerSeats(c)
    BY <2>2, PipesCustomerSeats
  <2>3. CASE Pipes!Notify(c) \/ Pipes!CustomerUnlock(c)
    BY <2>1, <2>3, PipesSemaphores
  <2>4. CASE Pipes!GetHaircut(c) \/ Pipes!GiveUp(c)
    BY <2>1, <2>4, PipesSemaphores
  <2> QED
    BY <1>4, <2>2, <2>3, <2>4
<1>5. Pipes!Processes = Company
  BY PipesPeople
<1> QED
  BY <1>1, <1>2, <1>3, <1>4, <1>5 DEF Pipes!Next

LEMMA PipesRests == PipesInv /\ UNCHANGED vars => PipesInv'
BY DEF vars, PipesInv, PipesPlaces, PipesData, SeatLock, NumberInv, CalledInv, Pending, BarberAt,
       GuestsAt, At

LEMMA PipesSeats == PipesInv => Pipes!SeatsCounted
<1> SUFFICES ASSUME PipesInv, sem["seats"] = 1 PROVE Pipes!SeatsCounted
  BY DEF Pipes!SeatsCounted
<1>1. SeatLock /\ NumberInv /\ CalledInv
  BY DEF PipesInv
<1>2. \A t \in Company : pc[t] \notin Locked
  BY <1>1 DEF SeatLock
<1>3. 0 \in Company /\ \A c \in Pipes!Customers : c \in Company
  BY PipesPeople
<1>4. /\ At(Pipes!Customers, {"notify"}) = {}
      /\ At(Pipes!Customers, {"await", "unlock"}) = At(Pipes!Customers, {"await"})
  BY <1>2, <1>3 DEF At, Locked
<1>5. /\ GuestsAt({"notify"}) = 0
      /\ GuestsAt({"await", "unlock"}) = Cardinality(At(Pipes!Customers, {"await"}))
  BY <1>4, FS_EmptySet DEF GuestsAt
<1> DEFINE lock == IF pc[0] = "lock" THEN 1 ELSE 0
<1>6. BarberAt({"lock", "read", "write"}) = lock /\ BarberAt({"lock", "read", "write", "ready"}) = lock
  BY <1>2, <1>3 DEF BarberAt, Locked
<1>7. sem["customers"] \in Nat /\ sem["barber"] \in Nat /\ lock \in Nat
  BY DEF PipesInv, PipesData
<1>8. Pipes!Cardinality(Pipes!At(Pipes!Customers, {"await"}))
        = Cardinality(At(Pipes!Customers, {"await"}))
  BY Zenon DEF Cardinality, Pipes!Cardinality, Pipes!At, At
<1> HIDE DEF lock
<1>9. Pending = sem["customers"] + lock
  BY <1>5, <1>6, <1>7 DEF Pending
<1>10. Cardinality(At(Pipes!Customers, {"await"})) = Pending + sem["barber"]
  BY <1>1, <1>5, <1>6, <1>7, <1>9 DEF CalledInv
<1>11. Pending \in 0 .. Places /\ mem.freeseats = <<Places - Pending>>
  BY <1>1, <1>2 DEF NumberInv, Locked
<1> QED
  BY <1>8, <1>9, <1>10, <1>11, PipesPeople DEF Pipes!SeatsCounted, lock

-----------------------------------------------------------------------------
(* mythread_rr.c and mythread.c: the circular queue holds Filled threads,  *)
(* the k-th of them at Nth.                                                *)
Cells == 0 .. MAX_THREADS - 1
NoneThere(front, rear) == front = -1 /\ rear = -1
QueueOK(e, front, rear) ==
    /\ DOMAIN e = Cells
    /\ NoneThere(front, rear) \/ (front \in Cells /\ rear \in Cells)
Filled(front, rear) ==
    IF front = -1 THEN 0
    ELSE IF rear >= front THEN rear - front + 1 ELSE rear - front + MAX_THREADS + 1
Nth(e, front, k) ==
    e[IF front + k < MAX_THREADS THEN front + k ELSE front + k - MAX_THREADS]
Round(n) == n % MAX_THREADS

LEMMA RoundLemma ==
    /\ MAX_THREADS \in Nat /\ MAX_THREADS > 0
    /\ \A n \in 0 .. 2 * MAX_THREADS - 1 :
         Round(n) = IF n < MAX_THREADS THEN n ELSE n - MAX_THREADS
    /\ \A n \in -(MAX_THREADS - 1) .. -1 : Round(n) = n + MAX_THREADS
<1>1. NThreads \in Nat \ {0} /\ MAX_THREADS \in Nat /\ NThreads <= MAX_THREADS
  BY LibraryAssumption, Zenon
<1>2. MAX_THREADS \in Nat /\ MAX_THREADS > 0
  BY <1>1
<1>3. \A n \in 0 .. 2 * MAX_THREADS - 1 :
        Round(n) = IF n < MAX_THREADS THEN n ELSE n - MAX_THREADS
  BY <1>2 DEF Round
<1>4. \A n \in -(MAX_THREADS - 1) .. -1 : Round(n) = n + MAX_THREADS
  BY <1>2 DEF Round
<1> QED
  BY <1>2, <1>3, <1>4

LEMMA FilledLemma ==
    ASSUME NEW e, NEW front, NEW rear, QueueOK(e, front, rear)
    PROVE  /\ Filled(front, rear) \in 0 .. MAX_THREADS
           /\ Filled(front, rear) = 0 <=> NoneThere(front, rear)
           /\ Round(rear + 1) = front <=> Filled(front, rear) = MAX_THREADS
<1>1. CASE NoneThere(front, rear)
  <2>1. Round(rear + 1) = 0
    BY <1>1, RoundLemma DEF NoneThere
  <2> QED
    BY <1>1, <2>1, RoundLemma DEF Filled, NoneThere
<1>2. CASE front \in Cells /\ rear \in Cells
  <2>1. Round(rear + 1) = IF rear + 1 < MAX_THREADS THEN rear + 1 ELSE rear + 1 - MAX_THREADS
    BY <1>2, RoundLemma DEF Cells
  <2> QED
    BY <1>2, <2>1, RoundLemma DEF Filled, NoneThere, Cells
<1> QED
  BY <1>1, <1>2 DEF QueueOK

Putting(e, front, rear, t, e2, f, r) ==
    /\ f = IF NoneThere(front, rear) THEN 0 ELSE front
    /\ r = Round(rear + 1) /\ e2 = [e EXCEPT ![r] = t]
StandsAt(t, e, front, k) == Nth(e, front, k) = t
Taking(front, rear, f, r) ==
    /\ f = IF front = rear THEN -1 ELSE Round(front + 1)
    /\ r = IF front = rear THEN -1 ELSE rear

LEMMA PutLast ==
    ASSUME NEW e, NEW front, NEW rear, QueueOK(e, front, rear), NEW t,
           Filled(front, rear) < MAX_THREADS,
           NEW e2, NEW f, NEW r, Putting(e, front, rear, t, e2, f, r)
    PROVE  /\ QueueOK(e2, f, r) /\ Filled(f, r) = Filled(front, rear) + 1
           /\ \A k \in 0 .. Filled(front, rear) - 1 : Nth(e2, f, k) = Nth(e, front, k)
           /\ StandsAt(t, e2, f, Filled(front, rear))
<1> USE DEF Putting, StandsAt
<1>1. CASE NoneThere(front, rear)
  <2>1. r = 0 /\ f = 0
    BY <1>1, RoundLemma DEF NoneThere
  <2>2. Filled(front, rear) = 0 /\ Filled(f, r) = 1
    BY <1>1, <2>1 DEF Filled, NoneThere
  <2>3. 0 \in Cells
    BY RoundLemma DEF Cells
  <2>4. QueueOK(e2, f, r) /\ e2[0] = t
    BY <2>1, <2>3 DEF QueueOK
  <2>5. Nth(e2, f, 0) = e2[0]
    BY <2>1, RoundLemma DEF Nth
  <2> QED
    BY <2>2, <2>4, <2>5
<1>2. CASE front \in Cells /\ rear \in Cells
  <2>1. r = IF rear + 1 < MAX_THREADS THEN rear + 1 ELSE rear + 1 - MAX_THREADS
    BY <1>2, RoundLemma DEF Cells
  <2>2. f = front /\ r \in Cells
    BY <1>2, <2>1, RoundLemma DEF NoneThere, Cells
  <2>3. r # front
    BY FilledLemma
  <2>4. QueueOK(e2, f, r)
    BY <1>2, <2>2 DEF QueueOK
  <2>5. Filled(f, r) = Filled(front, rear) + 1
    BY <1>2, <2>1, <2>2, <2>3, RoundLemma DEF Filled, Cells
  <2> DEFINE Where(k) == IF front + k < MAX_THREADS THEN front + k ELSE front + k - MAX_THREADS
  <2>6. \A k \in 0 .. Filled(front, rear) - 1 : Where(k) \in Cells /\ Where(k) # r
    BY <1>2, <2>1, <2>2, <2>3, RoundLemma DEF Filled, Cells
  <2>7. Where(Filled(front, rear)) = r
    BY <1>2, <2>1, <2>2, <2>3, RoundLemma DEF Filled, Cells
  <2>8. /\ e2[r] = t
        /\ \A p \in Cells : p # r => e2[p] = e[p]
    BY <2>2 DEF QueueOK
  <2>9. /\ \A k \in 0 .. Filled(front, rear) - 1 : Nth(e2, f, k) = Nth(e, front, k)
        /\ Nth(e2, f, Filled(front, rear)) = t
    <3>1. \A k : Nth(e2, f, k) = e2[Where(k)] /\ Nth(e, front, k) = e[Where(k)]
      BY <2>2 DEF Nth
    <3> HIDE DEF Where
    <3> QED
      BY <2>6, <2>7, <2>8, <3>1
  <2> QED
    BY <2>4, <2>5, <2>9
<1> QED
  BY <1>1, <1>2 DEF QueueOK

LEMMA TakeFirst ==
    ASSUME NEW e, NEW front, NEW rear, QueueOK(e, front, rear), ~NoneThere(front, rear),
           NEW f, NEW r, Taking(front, rear, f, r)
    PROVE  /\ QueueOK(e, f, r) /\ Filled(f, r) = Filled(front, rear) - 1
           /\ e[front] = Nth(e, front, 0)
           /\ \A k \in 0 .. Filled(f, r) - 1 : Nth(e, f, k) = Nth(e, front, k + 1)
<1> USE DEF Taking
<1>1. front \in Cells /\ rear \in Cells
  BY DEF QueueOK
<1>2. Round(front + 1) = IF front + 1 < MAX_THREADS THEN front + 1 ELSE front + 1 - MAX_THREADS
  BY <1>1, RoundLemma DEF Cells
<1>3. e[front] = Nth(e, front, 0)
  <2>1. front + 0 = front /\ front < MAX_THREADS
    BY <1>1, RoundLemma DEF Cells
  <2> QED
    BY <2>1 DEF Nth
<1>4. CASE front = rear
  <2>1. f = -1 /\ r = -1 /\ front # -1
    BY <1>1, <1>4, RoundLemma DEF Cells
  <2>2. Filled(f, r) = 0 /\ Filled(front, rear) = 1
    BY <1>1, <1>4, <2>1, RoundLemma DEF Filled, Cells
  <2>3. QueueOK(e, f, r)
    BY <2>1 DEF QueueOK, NoneThere
  <2> QED
    BY <1>3, <2>2, <2>3
<1>5. CASE front # rear
  <2>1. f \in Cells /\ r = rear
    BY <1>1, <1>2, <1>5, RoundLemma DEF Cells
  <2>2. QueueOK(e, f, r)
    BY <1>1, <2>1 DEF QueueOK
  <2>3. Filled(f, r) = Filled(front, rear) - 1
    BY <1>1, <1>2, <1>5, <2>1, RoundLemma DEF Filled, Cells
  <2> DEFINE Where(n, k) == IF n + k < MAX_THREADS THEN n + k ELSE n + k - MAX_THREADS
  <2>4. \A k \in 0 .. Filled(f, r) - 1 : Where(f, k) = Where(front, k + 1)
    BY <1>1, <1>2, <1>5, <2>1, RoundLemma DEF Filled, Cells
  <2>5. \A n, k : Nth(e, n, k) = e[Where(n, k)]
    BY DEF Nth
  <2> HIDE DEF Where
  <2>6. \A k \in 0 .. Filled(f, r) - 1 : Nth(e, f, k) = Nth(e, front, k + 1)
    BY <2>4, <2>5
  <2> QED
    BY <1>3, <2>2, <2>3, <2>6
<1> QED
  BY <1>4, <1>5

LEMMA QueuedIs ==
    ASSUME QueueOK(mem.elements, mem.front, mem.rear)
    PROVE  Timed!Queued = {Nth(mem.elements, mem.front, k) : k \in 0 .. Filled(mem.front, mem.rear) - 1}
<1> DEFINE e == mem.elements
           f == mem.front
           r == mem.rear
<1>1. CASE NoneThere(f, r)
  BY <1>1 DEF NoneThere, Filled, Timed!Queued, Timed!isEmpty
<1>2. CASE f \in Cells /\ r \in Cells
  <2>1. f # -1
    BY <1>2, RoundLemma DEF Cells
  <2>2. Round(r - f) = Filled(f, r) - 1
    <3>1. CASE r >= f
      <4>1. r - f \in 0 .. 2 * MAX_THREADS - 1 /\ r - f < MAX_THREADS
        BY <1>2, <3>1, RoundLemma DEF Cells
      <4> QED
        BY <1>2, <2>1, <3>1, <4>1, RoundLemma DEF Filled, Cells
    <3>2. CASE r < f
      <4>1. r - f \in -(MAX_THREADS - 1) .. -1
        BY <1>2, <3>2, RoundLemma DEF Cells
      <4> QED
        BY <1>2, <2>1, <3>2, <4>1, RoundLemma DEF Filled, Cells
    <3> QED
      BY <1>2, <3>1, <3>2, RoundLemma DEF Cells
  <2>3. Filled(f, r) - 1 \in 0 .. MAX_THREADS - 1
    BY <1>2, <2>1, RoundLemma DEF Filled, Cells
  <2>4. \A k \in 0 .. Filled(f, r) - 1 : e[Round(f + k)] = Nth(e, f, k)
    <3> TAKE k \in 0 .. Filled(f, r) - 1
    <3>1. f + k \in 0 .. 2 * MAX_THREADS - 1
      BY <1>2, <2>3, RoundLemma DEF Cells
    <3> DEFINE n == f + k
    <3>2. Round(n) = IF n < MAX_THREADS THEN n ELSE n - MAX_THREADS
      <4>1. n \in 0 .. 2 * MAX_THREADS - 1
        BY <3>1
      <4> HIDE DEF n
      <4> QED
        BY <4>1, RoundLemma
    <3>3. CASE f + k < MAX_THREADS
      BY <3>2, <3>3 DEF Nth
    <3>4. CASE ~(f + k < MAX_THREADS)
      <4> DEFINE x == Round(n)
      <4>1. x = f + k - MAX_THREADS
        BY <1>2, <2>3, <3>1, <3>2, <3>4, RoundLemma DEF Cells
      <4>2. Nth(e, f, k) = e[f + k - MAX_THREADS]
        BY <3>4 DEF Nth
      <4> HIDE DEF x, e, f
      <4>3. e[x] = Nth(e, f, k)
        BY <4>1, <4>2
      <4> QED
        BY <4>3 DEF x
    <3> QED
      BY <3>3, <3>4
  <2>5. Timed!Queued = {e[Round(f + k)] : k \in 0 .. Round(r - f)}
    BY <2>1 DEF Timed!Queued, Timed!isEmpty, Round
  <2> DEFINE I == 0 .. Filled(f, r) - 1
             At2(k) == e[Round(f + k)]
             B(k) == Nth(e, f, k)
  <2>6. Timed!Queued = {At2(k) : k \in I} /\ \A k \in I : At2(k) = B(k)
    BY <2>2, <2>4, <2>5
  <2>7. {At2(k) : k \in I} = {B(k) : k \in I}
    <3> HIDE DEF I, At2, B
    <3> QED
      BY <2>6
  <2> QED
    BY <2>6, <2>7
<1> QED
  BY <1>1, <1>2 DEF QueueOK

-----------------------------------------------------------------------------
(* Threads stand in the queue once each, none of those that came there     *)
(* later has had fewer turns, and the one that has, or just had, the       *)
(* processor is not among them.                                            *)
Flows == 1 .. NThreads
Libraries(m) ==
    [elements |-> m.elements, front |-> m.front, rear |-> m.rear, created |-> m.created,
     current |-> m.current, cpu |-> m.cpu, completed |-> m.completed, garbage |-> m.garbage,
     work |-> m.work, uc |-> m.uc, turns |-> m.turns, fresh |-> m.fresh]
ThreadsType(p, m) ==
    /\ DOMAIN p = {0} \cup Flows /\ p[0] \in {"create", "loop", "stop", "end"}
    /\ m = Libraries(m)
    /\ QueueOK(m.elements, m.front, m.rear)
    /\ m.created \in 0 .. NThreads
    /\ DOMAIN m.completed = Flows /\ DOMAIN m.work = Flows /\ DOMAIN m.uc = Flows
    /\ DOMAIN m.turns = Flows /\ \A t \in Flows : m.turns[t] \in Nat
InQueue(m) == 0 .. Filled(m.front, m.rear) - 1
PlaceOf(m, k) == Nth(m.elements, m.front, k)
QueueInv(p, m) ==
    /\ \A k \in InQueue(m) : PlaceOf(m, k) \in 1 .. m.created /\ m.uc[PlaceOf(m, k)] = PlaceOf(m, k)
    /\ \A j, k \in InQueue(m) : j < k => PlaceOf(m, j) # PlaceOf(m, k)
    /\ p[0] = "create" => m.created < NThreads
    /\ p[0] = "stop" =>
         m.current \in 1 .. m.created /\ \A k \in InQueue(m) : PlaceOf(m, k) # m.current
    /\ m.cpu = 0 \/ (m.cpu = m.current /\ p[0] = "stop")
TurnsInv(p, m) ==
    /\ \A j, k \in InQueue(m) : j < k =>
         /\ m.turns[PlaceOf(m, j)] <= m.turns[PlaceOf(m, k)]
         /\ m.turns[PlaceOf(m, k)] <= m.turns[PlaceOf(m, j)] + 1
    /\ p[0] = "stop" => \A k \in InQueue(m) :
         /\ m.turns[PlaceOf(m, k)] <= m.turns[m.current]
         /\ m.turns[m.current] <= m.turns[PlaceOf(m, k)] + 1
    /\ p[0] = "create" => \A t \in Flows : m.turns[t] = 0
FlowInv(rr, p, m) ==
    /\ \A t \in Flows : p[t] # "run" =>
         t <= m.created /\ m.work[t] = 0 /\ (rr => m.completed[t] # 0)
    /\ \A t \in Flows : rr /\ m.completed[t] # 0 => m.garbage[t] # 0 \/ m.work[t] = 0
    /\ \A t \in Flows : m.uc[t] = t \/ (rr /\ p[t] = "gone")
    /\ ~rr /\ p[0] = "stop" /\ m.cpu = 0 => m.work[m.current] = 0
KeptInv(rr, p, m) ==
    \A t \in Flows : t <= m.created /\ (rr => m.garbage[t] = 0) =>
      \/ \E k \in InQueue(m) : PlaceOf(m, k) = t
      \/ m.work[t] = 0
      \/ p[0] = "stop" /\ m.current = t
LibraryInv(rr, p, m) ==
    ThreadsType(p, m) /\ QueueInv(p, m) /\ TurnsInv(p, m) /\ FlowInv(rr, p, m) /\ KeptInv(rr, p, m)

LEMMA FlowNumbers ==
    /\ NThreads \in Nat /\ NThreads > 0 /\ MAX_THREADS \in Nat /\ NThreads <= MAX_THREADS
    /\ Flows \subseteq Nat /\ 0 \notin Flows
<1>1. NThreads \in Nat \ {0} /\ MAX_THREADS \in Nat /\ NThreads <= MAX_THREADS
  BY LibraryAssumption, Zenon
<1> QED
  BY <1>1 DEF Flows

LEMMA LibraryStart ==
    ASSUME NEW rr \in BOOLEAN, Timed!Init
    PROVE  LibraryInv(rr, pc, mem)
<1>1. PICK work, garbage :
        /\ work \in [Flows -> Bursts] /\ garbage \in [Flows -> {0, 1}]
        /\ mem = [elements |-> [k \in Cells |-> 0],
                  front |-> -1, rear |-> -1, created |-> 0, current |-> 0, cpu |-> 0,
                  completed |-> garbage, garbage |-> garbage, work |-> work,
                  uc |-> [t \in Flows |-> t], turns |-> [t \in Flows |-> 0], fresh |-> FALSE]
  BY DEF Timed!Init, Timed!Threads, Timed!main, Flows, Cells
<1>2. pc = [t \in {0} \cup Flows |-> IF t = 0 THEN "create" ELSE "run"]
  BY DEF Timed!Init, Timed!Threads, Timed!main, Flows
<1>3. pc[0] = "create" /\ DOMAIN pc = {0} \cup Flows /\ \A t \in Flows : pc[t] = "run"
  BY <1>2, FlowNumbers
<1>4. /\ mem.front = -1 /\ mem.rear = -1 /\ mem.created = 0 /\ mem.cpu = 0
      /\ DOMAIN mem.elements = Cells /\ mem.completed = garbage /\ mem.garbage = garbage
      /\ mem.work = work /\ mem.uc = [t \in Flows |-> t] /\ mem.turns = [t \in Flows |-> 0]
      /\ mem = Libraries(mem)
  BY <1>1 DEF Libraries
<1>5. Filled(mem.front, mem.rear) = 0 /\ QueueOK(mem.elements, mem.front, mem.rear)
  BY <1>4 DEF Filled, QueueOK, NoneThere
<1>6. InQueue(mem) = {}
  BY <1>5 DEF InQueue
<1>7. ThreadsType(pc, mem)
  BY <1>1, <1>3, <1>4, <1>5, FlowNumbers DEF ThreadsType
<1>8. QueueInv(pc, mem) /\ TurnsInv(pc, mem)
  BY <1>3, <1>4, <1>6, FlowNumbers DEF QueueInv, TurnsInv
<1>9. FlowInv(rr, pc, mem)
  BY <1>3, <1>4 DEF FlowInv
<1>10. KeptInv(rr, pc, mem)
  BY <1>4, FlowNumbers DEF KeptInv
<1> QED
  BY <1>7, <1>8, <1>9, <1>10 DEF LibraryInv

(* A step of a flow touches cpu, completed, work, uc and fresh.            *)
Touched(m, cpu, completed, work, uc, fresh) ==
    [elements |-> m.elements, front |-> m.front, rear |-> m.rear,
     created |-> m.created, current |-> m.current, cpu |-> cpu,
     completed |-> completed, garbage |-> m.garbage, work |-> work,
     uc |-> uc, turns |-> m.turns, fresh |-> fresh]

(* The queue stays as it is: a thread works, ends or is interrupted.       *)
Resting(rr, p, m, p2, cpu, completed, work, uc, fresh, m2) ==
    /\ DOMAIN p2 = DOMAIN p /\ p2[0] = p[0]
    /\ m2 = Touched(m, cpu, completed, work, uc, fresh)
    /\ cpu = 0 \/ (cpu = m.current /\ p[0] = "stop")
    /\ DOMAIN completed = Flows /\ DOMAIN work = Flows /\ DOMAIN uc = Flows
    /\ \A t \in Flows : m.work[t] = 0 => work[t] = 0
    /\ \A t \in Flows : uc[t] = m.uc[t] \/ (p[0] = "stop" /\ t = m.current)
    /\ FlowInv(rr, p2, m2)

LEMMA QueueRests ==
    ASSUME NEW rr \in BOOLEAN, NEW p, NEW m, LibraryInv(rr, p, m), NEW p2,
           NEW cpu, NEW completed, NEW work, NEW uc, NEW fresh, NEW m2,
           Resting(rr, p, m, p2, cpu, completed, work, uc, fresh, m2)
    PROVE  LibraryInv(rr, p2, m2)
<1>0. /\ DOMAIN p2 = DOMAIN p /\ p2[0] = p[0]
      /\ m2 = Touched(m, cpu, completed, work, uc, fresh)
      /\ cpu = 0 \/ (cpu = m.current /\ p[0] = "stop")
      /\ DOMAIN completed = Flows /\ DOMAIN work = Flows /\ DOMAIN uc = Flows
      /\ \A t \in Flows : m.work[t] = 0 => work[t] = 0
      /\ \A t \in Flows : uc[t] = m.uc[t] \/ (p[0] = "stop" /\ t = m.current)
      /\ FlowInv(rr, p2, m2)
  BY DEF Resting
<1> USE <1>0
<1>1. /\ m2.elements = m.elements /\ m2.front = m.front /\ m2.rear = m.rear
      /\ m2.created = m.created /\ m2.current = m.current /\ m2.cpu = cpu
      /\ m2.completed = completed /\ m2.garbage = m.garbage /\ m2.work = work
      /\ m2.uc = uc /\ m2.turns = m.turns
  BY DEF Touched
<1>2. m2 = Libraries(m2)
  BY DEF Libraries, Touched
<1>3. InQueue(m2) = InQueue(m) /\ \A k : PlaceOf(m2, k) = PlaceOf(m, k)
  BY <1>1 DEF InQueue, PlaceOf
<1>4. ThreadsType(p2, m2)
  BY <1>1, <1>2 DEF LibraryInv, ThreadsType
<1>5. QueueInv(p2, m2)
  <2>1. \A k \in InQueue(m) : PlaceOf(m, k) \in Flows
    BY FlowNumbers DEF LibraryInv, ThreadsType, QueueInv, Flows
  <2> QED
    BY <1>1, <1>3, <2>1 DEF LibraryInv, QueueInv
<1>6. TurnsInv(p2, m2)
  <2>1. TurnsInv(p, m)
    BY DEF LibraryInv
  <2> QED
    BY <1>1, <1>3, <2>1, Zenon DEF TurnsInv
<1>7. KeptInv(rr, p2, m2)
  <2>1. KeptInv(rr, p, m)
    BY DEF LibraryInv
  <2> SUFFICES ASSUME NEW t \in Flows, t <= m.created /\ (rr => m.garbage[t] = 0)
               PROVE  \/ \E k \in InQueue(m) : PlaceOf(m, k) = t
                      \/ work[t] = 0
                      \/ p[0] = "stop" /\ m.current = t
    BY <1>1, <1>3 DEF KeptInv
  <2> QED
    BY <2>1 DEF KeptInv
<1> QED
  BY <1>4, <1>5, <1>6, <1>7 DEF LibraryInv

(* A thread that is not in the queue is put behind the others.             *)
LEMMA RoomLeft ==
    ASSUME NEW rr \in BOOLEAN, NEW p, NEW m, LibraryInv(rr, p, m),
           NEW t \in Flows, \A k \in InQueue(m) : PlaceOf(m, k) # t
    PROVE  Filled(m.front, m.rear) < MAX_THREADS
<1> DEFINE n == Filled(m.front, m.rear)
           f == [k \in 0 .. n |-> IF k = n THEN t ELSE PlaceOf(m, k)]
<1>1. n \in Nat /\ n <= MAX_THREADS
  BY FilledLemma, FlowNumbers DEF LibraryInv, ThreadsType
<1>2. InQueue(m) = 0 .. n - 1
  BY DEF InQueue
<1>3. \A k \in 0 .. n - 1 : PlaceOf(m, k) \in Flows
  BY <1>2, FlowNumbers DEF LibraryInv, ThreadsType, QueueInv, Flows
<1>4. \A j, k \in 0 .. n - 1 : j # k => PlaceOf(m, j) # PlaceOf(m, k)
  <2>1. \A j, k \in 0 .. n - 1 : j < k => PlaceOf(m, j) # PlaceOf(m, k)
    BY <1>2 DEF LibraryInv, QueueInv
  <2>2. \A j, k \in 0 .. n - 1 : j # k => j < k \/ k < j
    BY <1>1
  <2> QED
    BY <2>1, <2>2
<1>5. \A k \in 0 .. n - 1 : PlaceOf(m, k) # t
  BY <1>2
<1> HIDE DEF n
<1>6. f \in [0 .. n -> Flows]
  BY <1>1, <1>3
<1>7. \A j, k \in 0 .. n : j # k => f[j] # f[k]
  BY <1>1, <1>4, <1>5
<1>8. IsFiniteSet(0 .. n) /\ Cardinality(0 .. n) = n + 1
  BY <1>1, FS_Interval
<1>9. IsFiniteSet(Flows) /\ Cardinality(Flows) = NThreads
  BY FlowNumbers, FS_Interval DEF Flows
<1> HIDE DEF f
<1>10. ~(NThreads < n + 1)
  BY <1>6, <1>7, <1>8, <1>9, FS_PigeonHole
<1> QED
  BY <1>1, <1>10, FlowNumbers DEF n

Requeuing(p, m, t, p2, e, front, rear, created, current, m2) ==
    /\ t \in Flows /\ t <= m.created + 1 /\ m.uc[t] = t /\ m.cpu = 0
    /\ \A k \in InQueue(m) : /\ PlaceOf(m, k) # t
                             /\ m.turns[PlaceOf(m, k)] <= m.turns[t]
                             /\ m.turns[t] <= m.turns[PlaceOf(m, k)] + 1
    /\ DOMAIN p2 = DOMAIN p /\ \A u \in Flows : p2[u] = p[u]
    /\ p2[0] \in {"create", "loop"} /\ (p2[0] = "create" => p[0] = "create")
    /\ \/ /\ created = m.created /\ created >= t /\ p2[0] = "loop"
          /\ p[0] = "stop" => m.current = t
       \/ created = m.created + 1 /\ t = created /\ p[0] = "create"
    /\ p2[0] = "create" => created < NThreads
    /\ Putting(m.elements, m.front, m.rear, t, e, front, rear)
    /\ m2 = [elements |-> e, front |-> front, rear |-> rear,
             created |-> created, current |-> current, cpu |-> m.cpu,
             completed |-> m.completed, garbage |-> m.garbage, work |-> m.work,
             uc |-> m.uc, turns |-> m.turns, fresh |-> m.fresh]

LEMMA Requeued ==
    ASSUME NEW rr \in BOOLEAN, NEW p, NEW m, LibraryInv(rr, p, m), NEW t, NEW p2,
           NEW e, NEW front, NEW rear, NEW created, NEW current, NEW m2,
           Requeuing(p, m, t, p2, e, front, rear, created, current, m2)
    PROVE  LibraryInv(rr, p2, m2)
<1> DEFINE n == Filled(m.front, m.rear)
<1>1. /\ m2.elements = e /\ m2.front = front /\ m2.rear = rear
      /\ m2.created = created /\ m2.current = current /\ m2.cpu = 0
      /\ m2.completed = m.completed /\ m2.garbage = m.garbage /\ m2.work = m.work
      /\ m2.uc = m.uc /\ m2.turns = m.turns
  BY DEF Requeuing
<1>2. m2 = Libraries(m2)
  BY DEF Libraries, Requeuing
<1>3. n < MAX_THREADS /\ n \in Nat
  <2>1. n \in 0 .. MAX_THREADS
    BY FilledLemma DEF LibraryInv, ThreadsType
  <2>2. n < MAX_THREADS
    BY RoomLeft DEF Requeuing
  <2> QED
    BY <2>1, <2>2, FlowNumbers
<1>4. /\ QueueOK(e, front, rear) /\ Filled(front, rear) = n + 1
      /\ \A k \in 0 .. n - 1 : Nth(e, front, k) = Nth(m.elements, m.front, k)
      /\ Nth(e, front, n) = t
  <2>1. QueueOK(m.elements, m.front, m.rear) /\ Filled(m.front, m.rear) < MAX_THREADS
    BY <1>3 DEF LibraryInv, ThreadsType
  <2>2. Putting(m.elements, m.front, m.rear, t, e, front, rear)
    BY DEF Requeuing
  <2> DEFINE e1 == m.elements
             front1 == m.front
             rear1 == m.rear
  <2>3. /\ QueueOK(e1, front1, rear1) /\ Filled(front1, rear1) < MAX_THREADS
        /\ Putting(e1, front1, rear1, t, e, front, rear)
    BY <2>1, <2>2
  <2> HIDE DEF e1, front1, rear1
  <2>4. QueueOK(e, front, rear) /\ Filled(front, rear) = Filled(front1, rear1) + 1
    BY <2>3, PutLast
  <2>5. \A k \in 0 .. Filled(front1, rear1) - 1 : Nth(e, front, k) = Nth(e1, front1, k)
    BY <2>3, PutLast
  <2>6. StandsAt(t, e, front, Filled(front1, rear1))
    BY <2>3, PutLast
  <2> QED
    BY <2>4, <2>5, <2>6 DEF e1, front1, rear1, StandsAt
<1> USE DEF Requeuing
<1>5. InQueue(m) = 0 .. n - 1 /\ InQueue(m2) = 0 .. n
  BY <1>1, <1>3, <1>4 DEF InQueue
<1>6. /\ \A k \in 0 .. n - 1 : PlaceOf(m2, k) = PlaceOf(m, k)
      /\ PlaceOf(m2, n) = t
  BY <1>1, <1>4 DEF PlaceOf
<1> HIDE DEF n
<1>7. \A k \in 0 .. n : k = n \/ k \in 0 .. n - 1
  BY <1>3
<1>8. created \in 0 .. NThreads /\ t <= created /\ m.created <= created
  BY FlowNumbers DEF LibraryInv, ThreadsType, QueueInv, Flows
<1>9. ThreadsType(p2, m2)
  BY <1>1, <1>2, <1>4, <1>8 DEF LibraryInv, ThreadsType
<1>10. QueueInv(p2, m2)
  <2>1. \A k \in 0 .. n - 1 : PlaceOf(m, k) \in 1 .. m.created /\ m.uc[PlaceOf(m, k)] = PlaceOf(m, k)
    BY <1>5 DEF LibraryInv, QueueInv
  <2>2. \A k \in 0 .. n - 1 : PlaceOf(m, k) \in 1 .. created
    BY <1>8, <2>1, FlowNumbers DEF LibraryInv, ThreadsType
  <2>3. t \in 1 .. created
    BY <1>8, FlowNumbers DEF Flows
  <2>4. \A k \in 0 .. n : PlaceOf(m2, k) \in 1 .. created /\ m.uc[PlaceOf(m2, k)] = PlaceOf(m2, k)
    BY <1>6, <1>7, <2>1, <2>2, <2>3
  <2>5. \A j, k \in 0 .. n : j < k => PlaceOf(m2, j) # PlaceOf(m2, k)
    <3>1. \A j, k \in 0 .. n : j < k => j \in 0 .. n - 1
      BY <1>3
    <3>2. \A j, k \in 0 .. n - 1 : j < k => PlaceOf(m, j) # PlaceOf(m, k)
      BY <1>5 DEF LibraryInv, QueueInv
    <3>3. \A k \in 0 .. n - 1 : PlaceOf(m, k) # t
      BY <1>5
    <3> QED
      BY <1>6, <1>7, <3>1, <3>2, <3>3
  <2>6. /\ p2[0] # "stop" /\ (p2[0] = "create" => m2.created < NThreads) /\ m2.cpu = 0
    BY <1>1
  <2>7. \A k \in InQueue(m2) : /\ PlaceOf(m2, k) \in 1 .. m2.created
                               /\ m2.uc[PlaceOf(m2, k)] = PlaceOf(m2, k)
    BY <1>1, <1>5, <2>4
  <2>8. \A j, k \in InQueue(m2) : j < k => PlaceOf(m2, j) # PlaceOf(m2, k)
    BY <1>5, <2>5
  <2> QED
    BY <2>6, <2>7, <2>8, Zenon DEF QueueInv
<1>11. TurnsInv(p2, m2)
  <2>1. \A j, k \in 0 .. n : j < k =>
          /\ m.turns[PlaceOf(m2, j)] <= m.turns[PlaceOf(m2, k)]
          /\ m.turns[PlaceOf(m2, k)] <= m.turns[PlaceOf(m2, j)] + 1
    <3>1. \A j, k \in 0 .. n : j < k => j \in 0 .. n - 1
      BY <1>3
    <3>2. \A j, k \in 0 .. n - 1 : j < k =>
            /\ m.turns[PlaceOf(m, j)] <= m.turns[PlaceOf(m, k)]
            /\ m.turns[PlaceOf(m, k)] <= m.turns[PlaceOf(m, j)] + 1
      BY <1>5 DEF LibraryInv, TurnsInv
    <3>3. \A k \in 0 .. n - 1 : /\ m.turns[PlaceOf(m, k)] <= m.turns[t]
                                /\ m.turns[t] <= m.turns[PlaceOf(m, k)] + 1
      BY <1>5
    <3> QED
      BY <1>6, <1>7, <3>1, <3>2, <3>3
  <2>2. p2[0] = "create" => \A u \in Flows : m.turns[u] = 0
    BY DEF LibraryInv, TurnsInv
  <2>3. p2[0] # "stop" /\ (p2[0] = "create" => \A u \in Flows : m2.turns[u] = 0)
    BY <1>1, <2>2
  <2>4. \A j, k \in InQueue(m2) : j < k =>
          /\ m2.turns[PlaceOf(m2, j)] <= m2.turns[PlaceOf(m2, k)]
          /\ m2.turns[PlaceOf(m2, k)] <= m2.turns[PlaceOf(m2, j)] + 1
    BY <1>1, <1>5, <2>1
  <2> QED
    BY <2>3, <2>4, Zenon DEF TurnsInv
<1>12. FlowInv(rr, p2, m2)
  <2>1. \A u \in Flows : u <= m.created => u <= created
    BY <1>8, FlowNumbers DEF LibraryInv, ThreadsType, Flows
  <2> QED
    BY <1>1, <2>1 DEF LibraryInv, FlowInv
<1>13. KeptInv(rr, p2, m2)
  <2> SUFFICES ASSUME NEW u \in Flows, u <= created, rr => m.garbage[u] = 0
               PROVE  (\E k \in 0 .. n : PlaceOf(m2, k) = u) \/ m.work[u] = 0
    BY <1>1, <1>5 DEF KeptInv
  <2>1. CASE u = t
    BY <1>3, <1>6, <2>1
  <2>2. CASE u # t
    <3>1. u <= m.created
      BY <1>8, <2>2, FlowNumbers DEF LibraryInv, ThreadsType, Flows
    <3>2. \/ \E k \in 0 .. n - 1 : PlaceOf(m, k) = u
          \/ m.work[u] = 0
      BY <1>5, <2>2, <3>1 DEF LibraryInv, KeptInv
    <3>3. 0 .. n - 1 \subseteq 0 .. n
      BY <1>3
    <3> QED
      BY <1>6, <3>2, <3>3
  <2> QED
    BY <2>1, <2>2
<1> QED
  BY <1>9, <1>10, <1>11, <1>12, <1>13 DEF LibraryInv

(* The first of the queue gets the processor.                              *)
Dispatching(p, m, p2, t, front, rear, turns, fresh, m2) ==
    /\ ~NoneThere(m.front, m.rear) /\ p[0] = "loop"
    /\ DOMAIN p2 = DOMAIN p /\ (\A u \in Flows : p2[u] = p[u]) /\ p2[0] = "stop"
    /\ t = m.elements[m.front] /\ Taking(m.front, m.rear, front, rear)
    /\ turns = [m.turns EXCEPT ![t] = m.turns[t] + 1]
    /\ m2 = [elements |-> m.elements, front |-> front, rear |-> rear,
             created |-> m.created, current |-> t, cpu |-> m.uc[t],
             completed |-> m.completed, garbage |-> m.garbage, work |-> m.work,
             uc |-> m.uc, turns |-> turns, fresh |-> fresh]

LEMMA Dispatched ==
    ASSUME NEW rr \in BOOLEAN, NEW p, NEW m, LibraryInv(rr, p, m), NEW p2, NEW t,
           NEW front, NEW rear, NEW turns, NEW fresh, NEW m2,
           Dispatching(p, m, p2, t, front, rear, turns, fresh, m2)
    PROVE  LibraryInv(rr, p2, m2)
<1>a. /\ m2 = [elements |-> m.elements, front |-> front, rear |-> rear,
               created |-> m.created, current |-> t, cpu |-> m.uc[t],
               completed |-> m.completed, garbage |-> m.garbage, work |-> m.work,
               uc |-> m.uc, turns |-> turns, fresh |-> fresh]
  BY DEF Dispatching
<1>b. /\ ~NoneThere(m.front, m.rear) /\ t = m.elements[m.front]
      /\ Taking(m.front, m.rear, front, rear)
  BY DEF Dispatching
<1>c. /\ p[0] = "loop" /\ DOMAIN p2 = DOMAIN p /\ p2[0] = "stop"
      /\ \A u \in Flows : p2[u] = p[u]
  BY DEF Dispatching
<1>d. turns = [m.turns EXCEPT ![t] = m.turns[t] + 1]
  BY DEF Dispatching
<1> DEFINE n == Filled(m.front, m.rear)
<1>1. /\ m2.elements = m.elements /\ m2.front = front /\ m2.rear = rear
      /\ m2.created = m.created /\ m2.current = t /\ m2.cpu = m.uc[t]
      /\ m2.completed = m.completed /\ m2.garbage = m.garbage /\ m2.work = m.work
      /\ m2.uc = m.uc /\ m2.turns = turns
  BY <1>a
<1>2. m2 = Libraries(m2)
  BY <1>a DEF Libraries
<1>3. QueueOK(m.elements, m.front, m.rear)
  BY DEF LibraryInv, ThreadsType
<1>4. n \in Nat /\ n > 0
  <2>1. n \in 0 .. MAX_THREADS /\ n # 0
    BY <1>3, <1>b, FilledLemma
  <2> QED
    BY <2>1, FlowNumbers
<1>5. /\ QueueOK(m.elements, front, rear) /\ Filled(front, rear) = n - 1
      /\ t = Nth(m.elements, m.front, 0)
      /\ \A k \in 0 .. Filled(front, rear) - 1 :
           Nth(m.elements, front, k) = Nth(m.elements, m.front, k + 1)
  BY <1>3, <1>b, TakeFirst
<1>6. InQueue(m) = 0 .. n - 1 /\ InQueue(m2) = 0 .. n - 2
  BY <1>1, <1>4, <1>5 DEF InQueue
<1>7. /\ \A k \in 0 .. n - 2 : PlaceOf(m2, k) = PlaceOf(m, k + 1)
      /\ PlaceOf(m, 0) = t
  BY <1>1, <1>4, <1>5 DEF PlaceOf
<1> HIDE DEF n
<1>8. 0 \in 0 .. n - 1 /\ \A k \in 0 .. n - 2 : k + 1 \in 0 .. n - 1 /\ 0 < k + 1
  BY <1>4
<1>9. /\ t \in 1 .. m.created /\ m.uc[t] = t
      /\ \A k \in 0 .. n - 2 : PlaceOf(m2, k) \in 1 .. m.created
                               /\ m.uc[PlaceOf(m2, k)] = PlaceOf(m2, k)
      /\ \A k \in 0 .. n - 2 : PlaceOf(m2, k) # t
  <2>1. /\ \A k \in 0 .. n - 1 : PlaceOf(m, k) \in 1 .. m.created
                                 /\ m.uc[PlaceOf(m, k)] = PlaceOf(m, k)
        /\ \A j, k \in 0 .. n - 1 : j < k => PlaceOf(m, j) # PlaceOf(m, k)
    BY <1>6 DEF LibraryInv, QueueInv
  <2> QED
    BY <1>7, <1>8, <2>1
<1>10. t \in Flows /\ (\A k \in 0 .. n - 2 : PlaceOf(m2, k) \in Flows)
  <2>1. 1 .. m.created \subseteq Flows
    BY FlowNumbers DEF LibraryInv, ThreadsType, Flows
  <2> QED
    BY <1>9, <2>1
<1>11. /\ DOMAIN turns = Flows /\ turns[t] = m.turns[t] + 1
       /\ \A u \in Flows : u # t => turns[u] = m.turns[u]
       /\ \A u \in Flows : m.turns[u] \in Nat
  BY <1>10, <1>d DEF LibraryInv, ThreadsType
<1>12. ThreadsType(p2, m2)
  <2>1. \A u \in Flows : turns[u] \in Nat
    BY <1>10, <1>11
  <2> QED
    BY <1>1, <1>2, <1>5, <1>11, <1>c, <2>1 DEF LibraryInv, ThreadsType
<1>13. QueueInv(p2, m2)
  <2>1. \A j, k \in 0 .. n - 2 : j < k => PlaceOf(m2, j) # PlaceOf(m2, k)
    <3>1. \A j, k \in 0 .. n - 2 : j < k => j + 1 < k + 1
      BY <1>4
    <3>2. \A j, k \in 0 .. n - 1 : j < k => PlaceOf(m, j) # PlaceOf(m, k)
      BY <1>6 DEF LibraryInv, QueueInv
    <3> QED
      BY <1>7, <1>8, <3>1, <3>2
  <2>2. /\ p2[0] # "create" /\ p2[0] = "stop" /\ m2.cpu = m2.current
        /\ m2.current \in 1 .. m2.created
    BY <1>1, <1>9, <1>c
  <2>3. \A k \in InQueue(m2) : /\ PlaceOf(m2, k) \in 1 .. m2.created
                               /\ m2.uc[PlaceOf(m2, k)] = PlaceOf(m2, k)
    BY <1>1, <1>6, <1>9
  <2>4. \A j, k \in InQueue(m2) : j < k => PlaceOf(m2, j) # PlaceOf(m2, k)
    BY <1>6, <2>1
  <2>5. \A k \in InQueue(m2) : PlaceOf(m2, k) # m2.current
    BY <1>1, <1>6, <1>9
  <2> QED
    BY <2>2, <2>3, <2>4, <2>5, Zenon DEF QueueInv
<1>14. TurnsInv(p2, m2)
  <2>1. \A j, k \in 0 .. n - 1 : j < k =>
          /\ m.turns[PlaceOf(m, j)] <= m.turns[PlaceOf(m, k)]
          /\ m.turns[PlaceOf(m, k)] <= m.turns[PlaceOf(m, j)] + 1
    BY <1>6 DEF LibraryInv, TurnsInv
  <2>2. \A k \in 0 .. n - 2 : turns[PlaceOf(m2, k)] = m.turns[PlaceOf(m, k + 1)]
    BY <1>7, <1>9, <1>10, <1>11
  <2>3. \A j, k \in 0 .. n - 2 : j < k =>
          /\ turns[PlaceOf(m2, j)] <= turns[PlaceOf(m2, k)]
          /\ turns[PlaceOf(m2, k)] <= turns[PlaceOf(m2, j)] + 1
    <3>1. \A j, k \in 0 .. n - 2 : j < k => j + 1 < k + 1
      BY <1>4
    <3> QED
      BY <1>8, <2>1, <2>2, <3>1
  <2>4. \A k \in 0 .. n - 2 : /\ turns[PlaceOf(m2, k)] <= turns[t]
                              /\ turns[t] <= turns[PlaceOf(m2, k)] + 1
    <3> TAKE k \in 0 .. n - 2
    <3>1. /\ m.turns[t] <= m.turns[PlaceOf(m, k + 1)]
          /\ m.turns[PlaceOf(m, k + 1)] <= m.turns[t] + 1
      BY <1>7, <1>8, <2>1
    <3>2. turns[PlaceOf(m2, k)] = m.turns[PlaceOf(m, k + 1)] /\ turns[PlaceOf(m2, k)] \in Nat
          /\ turns[t] = m.turns[t] + 1 /\ m.turns[t] \in Nat
      <4>1. PlaceOf(m2, k) \in Flows /\ PlaceOf(m2, k) # t
        BY <1>9, <1>10
      <4>2. turns[PlaceOf(m2, k)] \in Nat
        BY <1>11, <4>1
      <4> QED
        BY <1>10, <1>11, <2>2, <4>2
    <3> QED
      BY <3>1, <3>2
  <2>5. p2[0] # "create"
    BY <1>c
  <2>6. \A j, k \in InQueue(m2) : j < k =>
          /\ m2.turns[PlaceOf(m2, j)] <= m2.turns[PlaceOf(m2, k)]
          /\ m2.turns[PlaceOf(m2, k)] <= m2.turns[PlaceOf(m2, j)] + 1
    <3> TAKE j, k \in InQueue(m2)
    <3>1. j \in 0 .. n - 2 /\ k \in 0 .. n - 2
      BY <1>6
    <3>2. j < k => /\ turns[PlaceOf(m2, j)] <= turns[PlaceOf(m2, k)]
                   /\ turns[PlaceOf(m2, k)] <= turns[PlaceOf(m2, j)] + 1
      BY <2>3, <3>1, Zenon
    <3>3. m2.turns = turns
      BY <1>1
    <3> QED
      BY <3>2, <3>3
  <2>7. \A k \in InQueue(m2) : /\ m2.turns[PlaceOf(m2, k)] <= m2.turns[m2.current]
                               /\ m2.turns[m2.current] <= m2.turns[PlaceOf(m2, k)] + 1
    BY <1>1, <1>6, <2>4
  <2> QED
    BY <2>5, <2>6, <2>7, Zenon DEF TurnsInv
<1>15. FlowInv(rr, p2, m2)
  <2>1. m.uc[t] # 0
    BY <1>9, <1>10, FlowNumbers
  <2> QED
    BY <1>1, <1>c, <2>1 DEF LibraryInv, FlowInv
<1>16. KeptInv(rr, p2, m2)
  <2> SUFFICES ASSUME NEW u \in Flows, u <= m.created, rr => m.garbage[u] = 0, u # t
               PROVE  (\E k \in 0 .. n - 2 : PlaceOf(m2, k) = u) \/ m.work[u] = 0
    BY <1>1, <1>6, <1>c DEF KeptInv
  <2>1. \/ \E k \in 0 .. n - 1 : PlaceOf(m, k) = u
        \/ m.work[u] = 0
    BY <1>6, <1>c DEF LibraryInv, KeptInv
  <2>2. ASSUME NEW k \in 0 .. n - 1, PlaceOf(m, k) = u
        PROVE  \E j \in 0 .. n - 2 : PlaceOf(m2, j) = u
    <3>1. k # 0
      BY <1>7, <2>2
    <3>2. k - 1 \in 0 .. n - 2 /\ (k - 1) + 1 = k
      BY <1>4, <3>1
    <3>3. PlaceOf(m2, k - 1) = PlaceOf(m, k)
      BY <1>7, <3>2
    <3> QED
      BY <2>2, <3>2, <3>3
  <2> QED
    BY <2>1, <2>2
<1> QED
  BY <1>12, <1>13, <1>14, <1>15, <1>16 DEF LibraryInv

-----------------------------------------------------------------------------
(* enqueue, on a queue that has room.                                      *)
Enqueued(t) ==
    [elements |-> [mem.elements EXCEPT ![Round(mem.rear + 1)] = t],
     front |-> IF NoneThere(mem.front, mem.rear) THEN 0 ELSE mem.front,
     rear |-> Round(mem.rear + 1), created |-> mem.created,
     current |-> mem.current, cpu |-> mem.cpu, completed |-> mem.completed,
     garbage |-> mem.garbage, work |-> mem.work, uc |-> mem.uc, turns |-> mem.turns,
     fresh |-> mem.fresh]

LEMMA EnqueueWithRoom ==
    ASSUME NEW rr \in BOOLEAN, LibraryInv(rr, pc, mem),
           NEW t \in Flows, \A k \in InQueue(mem) : PlaceOf(mem, k) # t
    PROVE  Timed!enqueue(t) = Enqueued(t)
<1>1. QueueOK(mem.elements, mem.front, mem.rear) /\ mem = Libraries(mem)
  BY DEF LibraryInv, ThreadsType
<1>2. Filled(mem.front, mem.rear) # MAX_THREADS
  <2>1. Filled(mem.front, mem.rear) < MAX_THREADS
    BY RoomLeft
  <2>2. Filled(mem.front, mem.rear) \in 0 .. MAX_THREADS
    BY <1>1, FilledLemma
  <2> QED
    BY <2>1, <2>2, FlowNumbers
<1>3. Round(mem.rear + 1) # mem.front
  BY <1>1, <1>2, FilledLemma
<1>4. ~Timed!isFull
  BY <1>3 DEF Timed!isFull, Round
<1> DEFINE r == Round(mem.rear + 1)
           f == IF NoneThere(mem.front, mem.rear) THEN 0 ELSE mem.front
           e == [mem.elements EXCEPT ![r] = t]
<1>5. Timed!enqueue(t) = [mem EXCEPT !.front = f, !.rear = r, !.elements = e]
  BY <1>4 DEF Timed!enqueue, Timed!isEmpty, NoneThere, Round
<1> HIDE DEF r, f, e
<1>6. [mem EXCEPT !.front = f, !.rear = r, !.elements = e] =
        [elements |-> e, front |-> f, rear |-> r, created |-> mem.created,
         current |-> mem.current, cpu |-> mem.cpu, completed |-> mem.completed,
         garbage |-> mem.garbage, work |-> mem.work, uc |-> mem.uc, turns |-> mem.turns,
         fresh |-> mem.fresh]
  <2> DEFINE k1 == [mem EXCEPT !.front = f]
             k2 == [k1 EXCEPT !.rear = r]
  <2>1. k1 = [Libraries(mem) EXCEPT !.front = f]
    BY <1>1
  <2>2. k1 = [elements |-> mem.elements, front |-> f, rear |-> mem.rear,
              created |-> mem.created, current |-> mem.current, cpu |-> mem.cpu,
              completed |-> mem.completed, garbage |-> mem.garbage, work |-> mem.work,
              uc |-> mem.uc, turns |-> mem.turns, fresh |-> mem.fresh]
    BY <2>1 DEF Libraries
  <2> HIDE DEF k1
  <2>3. k2 = [elements |-> mem.elements, front |-> f, rear |-> r,
              created |-> mem.created, current |-> mem.current, cpu |-> mem.cpu,
              completed |-> mem.completed, garbage |-> mem.garbage, work |-> mem.work,
              uc |-> mem.uc, turns |-> mem.turns, fresh |-> mem.fresh]
    BY <2>2
  <2> HIDE DEF k2
  <2>4. [k2 EXCEPT !.elements = e] =
          [elements |-> e, front |-> f, rear |-> r, created |-> mem.created,
           current |-> mem.current, cpu |-> mem.cpu, completed |-> mem.completed,
           garbage |-> mem.garbage, work |-> mem.work, uc |-> mem.uc, turns |-> mem.turns,
           fresh |-> mem.fresh]
    BY <2>3
  <2> QED
    BY <2>4 DEF k1, k2
<1> QED
  BY <1>5, <1>6 DEF Enqueued, r, f, e

LEMMA CreateStep ==
    ASSUME NEW rr \in BOOLEAN, LibraryInv(rr, pc, mem), Timed!mythread_create
    PROVE  LibraryInv(rr, pc', mem')
<1> DEFINE t == mem.created + 1
           next == IF t = NThreads THEN "loop" ELSE "create"
           r == Round(mem.rear + 1)
           f == IF NoneThere(mem.front, mem.rear) THEN 0 ELSE mem.front
           e == [mem.elements EXCEPT ![r] = t]
           m2 == [elements |-> e, front |-> f, rear |-> r, created |-> t,
                  current |-> t, cpu |-> mem.cpu, completed |-> mem.completed,
                  garbage |-> mem.garbage, work |-> mem.work, uc |-> mem.uc,
                  turns |-> mem.turns, fresh |-> mem.fresh]
<1>1. /\ mem.created < NThreads /\ pc[0] = "create" /\ pc' = [pc EXCEPT ![0] = next]
      /\ mem' = [Timed!enqueue(t) EXCEPT !.created = t, !.current = t]
  BY DEF Timed!mythread_create, Timed!main, Timed!Go
<1>2. mem.created \in 0 .. NThreads /\ t \in Flows
  BY <1>1, FlowNumbers DEF LibraryInv, ThreadsType, Flows
<1>3. \A k \in InQueue(mem) : PlaceOf(mem, k) \in 1 .. mem.created
  BY DEF LibraryInv, QueueInv
<1>4. \A k \in InQueue(mem) : PlaceOf(mem, k) \in Flows /\ PlaceOf(mem, k) # t
  BY <1>2, <1>3, FlowNumbers DEF Flows
<1>5. mem' = m2
  <2>1. Timed!enqueue(t) = Enqueued(t)
    <3> HIDE DEF t
    <3> QED
      BY <1>2, <1>4, EnqueueWithRoom
  <2>2. mem' = [Enqueued(t) EXCEPT !.created = t, !.current = t]
    BY <1>1, <2>1
  <2>3. Enqueued(t) = [elements |-> e, front |-> f, rear |-> r, created |-> mem.created,
                       current |-> mem.current, cpu |-> mem.cpu, completed |-> mem.completed,
                       garbage |-> mem.garbage, work |-> mem.work, uc |-> mem.uc,
                       turns |-> mem.turns, fresh |-> mem.fresh]
    BY DEF Enqueued
  <2> DEFINE k0 == Enqueued(t)
             k1 == [k0 EXCEPT !.created = t]
  <2> HIDE DEF t, r, f, e, k0
  <2>4. k1 = [elements |-> e, front |-> f, rear |-> r, created |-> t,
              current |-> mem.current, cpu |-> mem.cpu, completed |-> mem.completed,
              garbage |-> mem.garbage, work |-> mem.work, uc |-> mem.uc,
              turns |-> mem.turns, fresh |-> mem.fresh]
    BY <2>3 DEF k0
  <2> HIDE DEF k1
  <2>5. [k1 EXCEPT !.current = t] = m2
    BY <2>4
  <2> QED
    BY <2>2, <2>5 DEF k0, k1
<1>6. /\ DOMAIN pc' = DOMAIN pc /\ pc'[0] = next
      /\ \A u \in Flows : pc'[u] = pc[u]
  BY <1>1, FlowNumbers DEF LibraryInv, ThreadsType
<1>7. mem.cpu = 0 /\ mem.uc[t] = t
  <2>1. mem.cpu = 0
    BY <1>1 DEF LibraryInv, QueueInv
  <2>2. ~(t <= mem.created)
    BY <1>2
  <2>4. mem.uc[t] = t \/ pc[t] = "gone"
    BY <1>2 DEF LibraryInv, FlowInv
  <2>5. pc[t] # "run" => t <= mem.created
    BY <1>2 DEF LibraryInv, FlowInv
  <2> QED
    BY <2>1, <2>2, <2>4, <2>5
<1>8. \A k \in InQueue(mem) : /\ PlaceOf(mem, k) # t
                              /\ mem.turns[PlaceOf(mem, k)] <= mem.turns[t]
                              /\ mem.turns[t] <= mem.turns[PlaceOf(mem, k)] + 1
  <2>1. \A u \in Flows : mem.turns[u] = 0
    BY <1>1 DEF LibraryInv, TurnsInv
  <2> QED
    BY <1>2, <1>4, <2>1
<1>9. t <= mem.created + 1 /\ (pc'[0] = "create" => t < NThreads)
  BY <1>1, <1>2, <1>6, FlowNumbers DEF Flows
<1>10. pc'[0] \in {"create", "loop"} /\ (pc'[0] = "create" => pc[0] = "create")
  BY <1>1, <1>6
<1>11. Putting(mem.elements, mem.front, mem.rear, t, e, f, r)
  BY DEF Putting
<1>12. Requeuing(pc, mem, t, pc', e, f, r, t, t, mem')
  BY <1>1, <1>2, <1>5, <1>6, <1>7, <1>8, <1>9, <1>10, <1>11 DEF Requeuing
<1> HIDE DEF t, e, f, r
<1> QED
  BY <1>12, Requeued

LEMMA QueueLoopEnds ==
    ASSUME NEW rr \in BOOLEAN, LibraryInv(rr, pc, mem), pc[0] = "loop",
           DOMAIN pc' = DOMAIN pc, pc'[0] = "end", \A u \in Flows : pc'[u] = pc[u],
           mem' = mem
    PROVE  LibraryInv(rr, pc', mem')
<1>1. ThreadsType(pc', mem')
  BY DEF LibraryInv, ThreadsType
<1>2. QueueInv(pc', mem')
  BY DEF LibraryInv, QueueInv
<1>3. TurnsInv(pc', mem')
  BY DEF LibraryInv, TurnsInv
<1>4. FlowInv(rr, pc', mem')
  BY DEF LibraryInv, FlowInv
<1>5. KeptInv(rr, pc', mem')
  BY DEF LibraryInv, KeptInv
<1> QED
  BY <1>1, <1>2, <1>3, <1>4, <1>5 DEF LibraryInv

LEMMA DispatchRecord ==
    ASSUME NEW e, NEW f, NEW r, NEW created, NEW current, NEW cpu, NEW completed,
           NEW garbage, NEW work, NEW uc, NEW turns, NEW fresh, NEW t, NEW c, NEW yes
    PROVE  [[elements |-> e, front |-> f, rear |-> r, created |-> created,
             current |-> current, cpu |-> cpu, completed |-> completed,
             garbage |-> garbage, work |-> work, uc |-> uc, turns |-> turns,
             fresh |-> fresh] EXCEPT !.current = t, !.cpu = c,
                                     !.turns[t] = @ + 1, !.fresh = yes] =
           [elements |-> e, front |-> f, rear |-> r, created |-> created,
            current |-> t, cpu |-> c, completed |-> completed,
            garbage |-> garbage, work |-> work, uc |-> uc,
            turns |-> [turns EXCEPT ![t] = turns[t] + 1], fresh |-> yes]
<1> DEFINE k0 == [elements |-> e, front |-> f, rear |-> r, created |-> created,
                  current |-> current, cpu |-> cpu, completed |-> completed,
                  garbage |-> garbage, work |-> work, uc |-> uc, turns |-> turns,
                  fresh |-> fresh]
           k1 == [k0 EXCEPT !.current = t]
           k2 == [k1 EXCEPT !.cpu = c]
           k3 == [k2 EXCEPT !.turns[t] = turns[t] + 1]
           tr == [turns EXCEPT ![t] = turns[t] + 1]
<1>1. k1 = [elements |-> e, front |-> f, rear |-> r, created |-> created,
            current |-> t, cpu |-> cpu, completed |-> completed,
            garbage |-> garbage, work |-> work, uc |-> uc, turns |-> turns,
            fresh |-> fresh]
  OBVIOUS
<1> HIDE DEF k1
<1>2. k2 = [elements |-> e, front |-> f, rear |-> r, created |-> created,
            current |-> t, cpu |-> c, completed |-> completed,
            garbage |-> garbage, work |-> work, uc |-> uc, turns |-> turns,
            fresh |-> fresh]
  BY <1>1
<1> HIDE DEF k2
<1>3. k3 = [elements |-> e, front |-> f, rear |-> r, created |-> created,
            current |-> t, cpu |-> c, completed |-> completed,
            garbage |-> garbage, work |-> work, uc |-> uc,
            turns |-> tr, fresh |-> fresh]
  BY <1>2
<1> HIDE DEF k3, tr
<1>4. [k3 EXCEPT !.fresh = yes] =
           [elements |-> e, front |-> f, rear |-> r, created |-> created,
            current |-> t, cpu |-> c, completed |-> completed,
            garbage |-> garbage, work |-> work, uc |-> uc,
            turns |-> tr, fresh |-> yes]
  BY <1>3
<1>5. k0.turns = turns
  OBVIOUS
<1> HIDE DEF k0
<1>6. [k0 EXCEPT !.current = t, !.cpu = c, !.turns[t] = @ + 1, !.fresh = yes]
        = [k3 EXCEPT !.fresh = yes]
  BY <1>5 DEF k1, k2, k3
<1> QED
  BY <1>4, <1>6, Zenon DEF k0, tr

LEMMA DispatchStep ==
    ASSUME NEW rr \in BOOLEAN, LibraryInv(rr, pc, mem), Timed!Dispatch
    PROVE  LibraryInv(rr, pc', mem')
<1>1. CASE Timed!isEmpty
  <2>1. pc[0] = "loop" /\ pc' = [pc EXCEPT ![0] = "end"] /\ mem' = mem
    BY <1>1 DEF Timed!Dispatch, Timed!main, Timed!Go
  <2>2. DOMAIN pc' = DOMAIN pc /\ pc'[0] = "end" /\ \A u \in Flows : pc'[u] = pc[u]
    BY <2>1, FlowNumbers DEF LibraryInv, ThreadsType
  <2> QED
    BY <2>1, <2>2, QueueLoopEnds
<1>2. CASE ~Timed!isEmpty
  <2> DEFINE t == mem.elements[mem.front]
             f == IF mem.front = mem.rear THEN -1 ELSE Round(mem.front + 1)
             r == IF mem.front = mem.rear THEN -1 ELSE mem.rear
             turns == [mem.turns EXCEPT ![t] = mem.turns[t] + 1]
             m2 == [elements |-> mem.elements, front |-> f, rear |-> r,
                    created |-> mem.created, current |-> t, cpu |-> mem.uc[t],
                    completed |-> mem.completed, garbage |-> mem.garbage,
                    work |-> mem.work, uc |-> mem.uc, turns |-> turns, fresh |-> TRUE]
             out == [elements |-> mem.elements, front |-> f, rear |-> r,
                     created |-> mem.created, current |-> mem.current, cpu |-> mem.cpu,
                     completed |-> mem.completed, garbage |-> mem.garbage,
                     work |-> mem.work, uc |-> mem.uc, turns |-> mem.turns,
                     fresh |-> mem.fresh]
  <2>1. /\ pc[0] = "loop" /\ pc' = [pc EXCEPT ![0] = "stop"]
        /\ mem' = [Timed!dequeue EXCEPT !.current = t, !.cpu = mem.uc[t],
                                        !.turns[t] = @ + 1, !.fresh = TRUE]
    BY <1>2 DEF Timed!Dispatch, Timed!main, Timed!Go
  <2>2. mem = Libraries(mem) /\ DOMAIN pc = {0} \cup Flows
    BY DEF LibraryInv, ThreadsType
  <2>3. Timed!dequeue = out
    <3>1. CASE mem.front = mem.rear
      <4>1. Timed!dequeue = [mem EXCEPT !.front = -1, !.rear = -1]
        BY <3>1 DEF Timed!dequeue
      <4> DEFINE k1 == [mem EXCEPT !.front = -1]
      <4>2. k1 = [Libraries(mem) EXCEPT !.front = -1]
        BY <2>2
      <4>3. k1 = [elements |-> mem.elements, front |-> -1, rear |-> mem.rear,
                  created |-> mem.created, current |-> mem.current, cpu |-> mem.cpu,
                  completed |-> mem.completed, garbage |-> mem.garbage,
                  work |-> mem.work, uc |-> mem.uc, turns |-> mem.turns,
                  fresh |-> mem.fresh]
        BY <4>2 DEF Libraries
      <4> HIDE DEF k1
      <4>4. [k1 EXCEPT !.rear = -1] = out
        BY <3>1, <4>3
      <4> QED
        BY <4>1, <4>4 DEF k1
    <3>2. CASE mem.front # mem.rear
      <4>1. Timed!dequeue = [mem EXCEPT !.front = f]
        BY <3>2 DEF Timed!dequeue, Round
      <4>2. r = mem.rear
        BY <3>2
      <4> HIDE DEF f, r
      <4>3. [mem EXCEPT !.front = f] = [Libraries(mem) EXCEPT !.front = f]
        BY <2>2
      <4>4. [Libraries(mem) EXCEPT !.front = f] = out
        BY <4>2 DEF Libraries
      <4> QED
        BY <4>1, <4>3, <4>4
    <3> QED
      BY <3>1, <3>2
  <2>4. mem' = m2
    <3>1. mem' = [out EXCEPT !.current = t, !.cpu = mem.uc[t],
                             !.turns[t] = @ + 1, !.fresh = TRUE]
      BY <2>1, <2>3, Zenon
    <3> HIDE DEF t, f, r
    <3> QED
      BY <3>1, DispatchRecord
  <2>5. /\ DOMAIN pc' = DOMAIN pc /\ pc'[0] = "stop"
        /\ \A u \in Flows : pc'[u] = pc[u]
    BY <2>1, <2>2, FlowNumbers
  <2>6. ~NoneThere(mem.front, mem.rear)
    BY <1>2 DEF Timed!isEmpty, NoneThere
  <2>7. Taking(mem.front, mem.rear, f, r)
    BY DEF Taking
  <2>8. Dispatching(pc, mem, pc', t, f, r, turns, TRUE, mem')
    BY <2>1, <2>4, <2>5, <2>6, <2>7 DEF Dispatching
  <2> HIDE DEF t, f, r, turns
  <2> QED
    BY <2>8, Dispatched
<1> QED
  BY <1>1, <1>2

(* Which thread runs, in all its steps.                                    *)
LEMMA OnlyCurrentRuns ==
    ASSUME NEW rr \in BOOLEAN, NEW p, NEW m, LibraryInv(rr, p, m),
           NEW t \in Flows, m.cpu = t
    PROVE  m.current = t /\ p[0] = "stop" /\ t <= m.created /\ t # 0
<1>1. t # 0 /\ t \in Nat
  BY FlowNumbers
<1>2. m.current = t /\ p[0] = "stop" /\ m.current \in 1 .. m.created
  BY <1>1 DEF LibraryInv, QueueInv
<1>3. m.created \in Nat
  BY FlowNumbers DEF LibraryInv, ThreadsType
<1> QED
  BY <1>1, <1>2, <1>3

LEMMA TouchLemma ==
    ASSUME NEW rr, NEW p, LibraryInv(rr, p, mem), NEW f, NEW x, NEW y
    PROVE  /\ [mem EXCEPT !.work = x, !.fresh = y] = Touched(mem, mem.cpu, mem.completed, x, mem.uc, y)
           /\ [mem EXCEPT !.completed = x, !.fresh = y] = Touched(mem, mem.cpu, x, mem.work, mem.uc, y)
           /\ [mem EXCEPT !.uc = x, !.cpu = y] = Touched(mem, y, mem.completed, mem.work, x, mem.fresh)
           /\ [mem EXCEPT !.uc = x] = Touched(mem, mem.cpu, mem.completed, mem.work, x, mem.fresh)
           /\ [mem EXCEPT !.cpu = y] = Touched(mem, y, mem.completed, mem.work, mem.uc, mem.fresh)
<1>1. mem = Libraries(mem)
  BY DEF LibraryInv, ThreadsType
<1> DEFINE m0 == Touched(mem, mem.cpu, mem.completed, mem.work, mem.uc, mem.fresh)
<1>2. mem = m0
  BY <1>1 DEF Libraries, Touched
<1>3. /\ [m0 EXCEPT !.uc = x] = Touched(mem, mem.cpu, mem.completed, mem.work, x, mem.fresh)
      /\ [m0 EXCEPT !.cpu = y] = Touched(mem, y, mem.completed, mem.work, mem.uc, mem.fresh)
  BY DEF Touched
<1>4. [m0 EXCEPT !.work = x, !.fresh = y] = Touched(mem, mem.cpu, mem.completed, x, mem.uc, y)
  <2> DEFINE k == [m0 EXCEPT !.work = x]
  <2>1. k = Touched(mem, mem.cpu, mem.completed, x, mem.uc, mem.fresh)
    BY DEF Touched
  <2> HIDE DEF k
  <2>2. [k EXCEPT !.fresh = y] = Touched(mem, mem.cpu, mem.completed, x, mem.uc, y)
    BY <2>1 DEF Touched
  <2> HIDE DEF m0
  <2> QED
    BY <2>2 DEF k
<1>5. [m0 EXCEPT !.completed = x, !.fresh = y] = Touched(mem, mem.cpu, x, mem.work, mem.uc, y)
  <2> DEFINE k == [m0 EXCEPT !.completed = x]
  <2>1. k = Touched(mem, mem.cpu, x, mem.work, mem.uc, mem.fresh)
    BY DEF Touched
  <2> HIDE DEF k
  <2>2. [k EXCEPT !.fresh = y] = Touched(mem, mem.cpu, x, mem.work, mem.uc, y)
    BY <2>1 DEF Touched
  <2> HIDE DEF m0
  <2> QED
    BY <2>2 DEF k
<1>6. [m0 EXCEPT !.uc = x, !.cpu = y] = Touched(mem, y, mem.completed, mem.work, x, mem.fresh)
  <2> DEFINE k == [m0 EXCEPT !.uc = x]
  <2>1. k = Touched(mem, mem.cpu, mem.completed, mem.work, x, mem.fresh)
    BY <1>3
  <2> HIDE DEF k
  <2>2. [k EXCEPT !.cpu = y] = Touched(mem, y, mem.completed, mem.work, x, mem.fresh)
    BY <2>1 DEF Touched
  <2> HIDE DEF m0
  <2> QED
    BY <2>2 DEF k
<1> HIDE DEF m0
<1> QED
  BY <1>2, <1>3, <1>4, <1>5, <1>6

LEMMA WorkStep ==
    ASSUME NEW rr \in BOOLEAN, LibraryInv(rr, pc, mem), NEW t \in Flows, Timed!Work(t)
    PROVE  LibraryInv(rr, pc', mem')
<1> DEFINE cpu == mem.cpu
           completed == mem.completed
           work == [mem.work EXCEPT ![t] = @ - 1]
           uc == mem.uc
           fresh == FALSE
<1>1. /\ mem.cpu = t /\ pc[t] = "run" /\ mem.work[t] > 0 /\ pc' = pc
      /\ mem' = [mem EXCEPT !.work = work, !.fresh = fresh]
  BY DEF Timed!Work
<1>2. mem' = Touched(mem, cpu, completed, work, uc, fresh)
  <2> HIDE DEF work, fresh
  <2> QED
    BY <1>1, TouchLemma
<1>3. mem.current = t /\ pc[0] = "stop" /\ t # 0
  BY <1>1, OnlyCurrentRuns
<1>4. /\ DOMAIN completed = Flows /\ DOMAIN work = Flows /\ DOMAIN uc = Flows
      /\ \A u \in Flows : u # t => work[u] = mem.work[u]
  BY DEF LibraryInv, ThreadsType
<1>5. mem.work[t] # 0
  BY <1>1
<1>6. FlowInv(rr, pc', mem')
  <2>1. /\ mem'.created = mem.created /\ mem'.completed = mem.completed
        /\ mem'.garbage = mem.garbage /\ mem'.work = work /\ mem'.uc = mem.uc
        /\ mem'.cpu = t
    BY <1>1, <1>2 DEF Touched
  <2> HIDE DEF work
  <2> QED
    BY <1>1, <1>3, <1>4, <1>5, <2>1 DEF LibraryInv, FlowInv
<1>7. /\ cpu = 0 \/ (cpu = mem.current /\ pc[0] = "stop")
      /\ \A u \in Flows : mem.work[u] = 0 => work[u] = 0
      /\ \A u \in Flows : uc[u] = mem.uc[u] \/ (pc[0] = "stop" /\ u = mem.current)
      /\ DOMAIN pc' = DOMAIN pc /\ pc'[0] = pc[0]
  BY <1>1, <1>3, <1>4, <1>5
<1> HIDE DEF cpu, completed, work, uc, fresh
<1>8. Resting(rr, pc, mem, pc', cpu, completed, work, uc, fresh, mem')
  BY <1>2, <1>4, <1>6, <1>7 DEF Resting
<1> QED
  BY <1>8, QueueRests

LEMMA ExitStep ==
    ASSUME NEW rr \in BOOLEAN, LibraryInv(rr, pc, mem), NEW t \in Flows,
           mem.cpu = t, mem.work[t] = 0, pc[t] = "run", pc' = [pc EXCEPT ![t] = "exited"],
           NEW done, rr => done # 0, NEW fresh,
           mem' = [mem EXCEPT !.completed = [mem.completed EXCEPT ![mem.current] = done],
                              !.fresh = fresh]
    PROVE  LibraryInv(rr, pc', mem')
<1> DEFINE cpu == mem.cpu
           completed == [mem.completed EXCEPT ![mem.current] = done]
           work == mem.work
           uc == mem.uc
<1>2. mem' = Touched(mem, cpu, completed, work, uc, fresh)
  <2>1. mem' = [mem EXCEPT !.completed = completed, !.fresh = fresh]
    BY Zenon
  <2> HIDE DEF completed
  <2> QED
    BY <2>1, TouchLemma
<1>3. mem.current = t /\ pc[0] = "stop" /\ t # 0 /\ t <= mem.created
  BY OnlyCurrentRuns
<1>4. /\ DOMAIN completed = Flows /\ DOMAIN work = Flows /\ DOMAIN uc = Flows
      /\ \A u \in Flows : u # t => completed[u] = mem.completed[u]
      /\ completed[t] = done
  BY <1>3 DEF LibraryInv, ThreadsType
<1>5. /\ DOMAIN pc' = DOMAIN pc /\ pc'[0] = pc[0] /\ pc'[t] = "exited"
      /\ \A u \in Flows : u # t => pc'[u] = pc[u]
  BY <1>3, FlowNumbers DEF LibraryInv, ThreadsType
<1>6. FlowInv(rr, pc', mem')
  <2>1. /\ mem'.created = mem.created /\ mem'.completed = completed
        /\ mem'.garbage = mem.garbage /\ mem'.work = mem.work /\ mem'.uc = mem.uc
        /\ mem'.cpu = t
    BY <1>2 DEF Touched
  <2> HIDE DEF completed
  <2>2. \A u \in Flows : pc'[u] # "run" =>
          u <= mem.created /\ mem.work[u] = 0 /\ (rr => completed[u] # 0)
    BY <1>3, <1>4, <1>5 DEF LibraryInv, FlowInv
  <2>3. \A u \in Flows : rr /\ completed[u] # 0 => mem.garbage[u] # 0 \/ mem.work[u] = 0
    BY <1>4 DEF LibraryInv, FlowInv
  <2>4. \A u \in Flows : mem.uc[u] = u \/ (rr /\ pc'[u] = "gone")
    BY <1>5 DEF LibraryInv, FlowInv
  <2> QED
    BY <1>3, <2>1, <2>2, <2>3, <2>4 DEF FlowInv
<1>7. /\ cpu = 0 \/ (cpu = mem.current /\ pc[0] = "stop")
      /\ \A u \in Flows : mem.work[u] = 0 => work[u] = 0
      /\ \A u \in Flows : uc[u] = mem.uc[u] \/ (pc[0] = "stop" /\ u = mem.current)
  BY <1>3
<1> HIDE DEF cpu, completed, work, uc
<1>8. Resting(rr, pc, mem, pc', cpu, completed, work, uc, fresh, mem')
  BY <1>2, <1>4, <1>5, <1>6, <1>7 DEF Resting
<1> QED
  BY <1>8, QueueRests

LEMMA ReturnStep ==
    ASSUME NEW rr \in BOOLEAN, LibraryInv(rr, pc, mem), NEW t \in Flows, Timed!Return(t)
    PROVE  LibraryInv(rr, pc', mem')
<1> DEFINE cpu == 0
           completed == mem.completed
           work == mem.work
           uc == mem.uc
           fresh == mem.fresh
<1>1. /\ mem.cpu = t /\ pc[t] = "exited" /\ pc' = [pc EXCEPT ![t] = "gone"]
      /\ mem' = [mem EXCEPT !.cpu = cpu]
  BY DEF Timed!Return, Timed!Go, Timed!main
<1>2. mem' = Touched(mem, cpu, completed, work, uc, fresh)
  <2> HIDE DEF cpu
  <2> QED
    BY <1>1, TouchLemma
<1>3. mem.current = t /\ pc[0] = "stop" /\ t # 0
  BY <1>1, OnlyCurrentRuns
<1>4. DOMAIN completed = Flows /\ DOMAIN work = Flows /\ DOMAIN uc = Flows
  BY DEF LibraryInv, ThreadsType
<1>5. /\ DOMAIN pc' = DOMAIN pc /\ pc'[0] = pc[0] /\ pc'[t] = "gone"
      /\ \A u \in Flows : u # t => pc'[u] = pc[u]
  BY <1>1, <1>3, FlowNumbers DEF LibraryInv, ThreadsType
<1>6. FlowInv(rr, pc', mem')
  <2>1. /\ mem'.created = mem.created /\ mem'.completed = mem.completed
        /\ mem'.garbage = mem.garbage /\ mem'.work = mem.work /\ mem'.uc = mem.uc
        /\ mem'.current = t
    BY <1>2, <1>3 DEF Touched
  <2>2. \A u \in Flows : pc'[u] # "run" =>
          u <= mem.created /\ mem.work[u] = 0 /\ (rr => mem.completed[u] # 0)
    BY <1>1, <1>5 DEF LibraryInv, FlowInv
  <2>3. \A u \in Flows : rr /\ mem.completed[u] # 0 => mem.garbage[u] # 0 \/ mem.work[u] = 0
    BY DEF LibraryInv, FlowInv
  <2>4. \A u \in Flows : mem.uc[u] = u \/ (rr /\ pc'[u] = "gone")
    BY <1>1, <1>5 DEF LibraryInv, FlowInv
  <2>5. mem.work[t] = 0
    BY <1>1 DEF LibraryInv, FlowInv
  <2> QED
    BY <2>1, <2>2, <2>3, <2>4, <2>5 DEF FlowInv
<1>7. /\ cpu = 0 \/ (cpu = mem.current /\ pc[0] = "stop")
      /\ \A u \in Flows : mem.work[u] = 0 => work[u] = 0
      /\ \A u \in Flows : uc[u] = mem.uc[u] \/ (pc[0] = "stop" /\ u = mem.current)
  OBVIOUS
<1> HIDE DEF cpu, completed, work, uc, fresh
<1>8. Resting(rr, pc, mem, pc', cpu, completed, work, uc, fresh, mem')
  BY <1>2, <1>4, <1>5, <1>6, <1>7 DEF Resting
<1> QED
  BY <1>8, QueueRests

(* The timer's signal saves a flow as the current thread's: the thread's   *)
(* own, or main's when it comes late.                                      *)
LEMMA SignalStep ==
    ASSUME LibraryInv(TRUE, pc, mem), pc[0] = "stop", mem.current \in Flows, pc' = pc,
           NEW flow, flow = mem.current \/ pc[mem.current] = "gone",
           NEW fresh,
           mem' = Touched(mem, 0, mem.completed, mem.work,
                          [mem.uc EXCEPT ![mem.current] = flow], fresh)
    PROVE  LibraryInv(TRUE, pc', mem')
<1> DEFINE cpu == 0
           completed == mem.completed
           work == mem.work
           uc == [mem.uc EXCEPT ![mem.current] = flow]
<1>2. mem' = Touched(mem, cpu, completed, work, uc, fresh)
  OBVIOUS
<1>4. /\ DOMAIN completed = Flows /\ DOMAIN work = Flows /\ DOMAIN uc = Flows
      /\ uc[mem.current] = flow
      /\ \A u \in Flows : u # mem.current => uc[u] = mem.uc[u]
  BY DEF LibraryInv, ThreadsType
<1>6. FlowInv(TRUE, pc', mem')
  <2>1. /\ mem'.created = mem.created /\ mem'.completed = mem.completed
        /\ mem'.garbage = mem.garbage /\ mem'.work = mem.work /\ mem'.uc = uc
    BY <1>2 DEF Touched
  <2> HIDE DEF uc
  <2>2. \A u \in Flows : uc[u] = u \/ pc[u] = "gone"
    BY <1>4 DEF LibraryInv, FlowInv
  <2> QED
    BY <2>1, <2>2 DEF LibraryInv, FlowInv
<1>7. /\ cpu = 0 \/ (cpu = mem.current /\ pc[0] = "stop")
      /\ \A u \in Flows : mem.work[u] = 0 => work[u] = 0
      /\ \A u \in Flows : uc[u] = mem.uc[u] \/ (pc[0] = "stop" /\ u = mem.current)
      /\ DOMAIN pc' = DOMAIN pc /\ pc'[0] = pc[0]
  BY <1>4
<1> HIDE DEF cpu, completed, work, uc
<1>8. Resting(TRUE, pc, mem, pc', cpu, completed, work, uc, fresh, mem')
  BY <1>2, <1>4, <1>6, <1>7 DEF Resting
<1> QED
  BY <1>8, QueueRests

LEMMA HandlerStep ==
    ASSUME LibraryInv(TRUE, pc, mem), NEW t \in Flows, Timed!sighandler(t)
    PROVE  LibraryInv(TRUE, pc', mem')
<1> DEFINE uc == [mem.uc EXCEPT ![mem.current] = t]
           zero == 0
<1>1. mem.cpu = t /\ pc' = pc /\ mem' = [mem EXCEPT !.uc = uc, !.cpu = zero]
  BY DEF Timed!sighandler, Timed!main
<1>2. mem.current = t /\ pc[0] = "stop"
  BY <1>1, OnlyCurrentRuns
<1>3. mem' = Touched(mem, zero, mem.completed, mem.work, uc, mem.fresh)
  <2> HIDE DEF uc, zero
  <2> QED
    BY <1>1, TouchLemma
<1> QED
  BY <1>1, <1>2, <1>3, SignalStep

LEMMA LateStep ==
    ASSUME LibraryInv(TRUE, pc, mem), Timed!LateSignal
    PROVE  LibraryInv(TRUE, pc', mem')
<1> DEFINE uc == [mem.uc EXCEPT ![mem.current] = 0]
<1>1. /\ mem.cpu = 0 /\ pc[0] = "stop" /\ pc[mem.current] = "gone" /\ pc' = pc
      /\ mem' = [mem EXCEPT !.uc = uc]
  BY DEF Timed!LateSignal, Timed!main
<1>2. mem.current \in Flows
  BY <1>1, FlowNumbers DEF LibraryInv, ThreadsType, QueueInv, Flows
<1>3. mem' = Touched(mem, 0, mem.completed, mem.work, uc, mem.fresh)
  <2>1. mem' = Touched(mem, mem.cpu, mem.completed, mem.work, uc, mem.fresh)
    <3> HIDE DEF uc
    <3> QED
      BY <1>1, TouchLemma
  <2> QED
    BY <1>1, <2>1
<1> QED
  BY <1>1, <1>2, <1>3, SignalStep

(* Behind the others, or out of the queue for good.                        *)
LEMMA RequeueBehind ==
    ASSUME NEW rr \in BOOLEAN, LibraryInv(rr, pc, mem), mem.cpu = 0, pc[0] = "stop",
           pc' = [pc EXCEPT ![0] = "loop"], mem' = Timed!enqueue(mem.current),
           mem.uc[mem.current] = mem.current
    PROVE  LibraryInv(rr, pc', mem')
<1> DEFINE t == mem.current
           r == Round(mem.rear + 1)
           f == IF NoneThere(mem.front, mem.rear) THEN 0 ELSE mem.front
           e == [mem.elements EXCEPT ![r] = t]
<1>1. /\ t \in 1 .. mem.created /\ mem.created \in 0 .. NThreads
      /\ \A k \in InQueue(mem) : PlaceOf(mem, k) # t
  BY DEF LibraryInv, ThreadsType, QueueInv
<1>2. t \in Flows /\ t <= mem.created /\ t <= mem.created + 1
  BY <1>1, FlowNumbers DEF Flows
<1>3. mem' = [elements |-> e, front |-> f, rear |-> r, created |-> mem.created,
              current |-> mem.current, cpu |-> mem.cpu, completed |-> mem.completed,
              garbage |-> mem.garbage, work |-> mem.work, uc |-> mem.uc,
              turns |-> mem.turns, fresh |-> mem.fresh]
  <2>1. Timed!enqueue(t) = Enqueued(t)
    <3> HIDE DEF t
    <3> QED
      BY <1>1, <1>2, EnqueueWithRoom
  <2>2. mem' = Enqueued(t)
    BY <2>1
  <2> QED
    BY <2>2, Zenon DEF Enqueued
<1>4. /\ DOMAIN pc' = DOMAIN pc /\ pc'[0] = "loop"
      /\ \A u \in Flows : pc'[u] = pc[u]
  BY FlowNumbers DEF LibraryInv, ThreadsType
<1>5. \A k \in InQueue(mem) : /\ mem.turns[PlaceOf(mem, k)] <= mem.turns[t]
                              /\ mem.turns[t] <= mem.turns[PlaceOf(mem, k)] + 1
  BY DEF LibraryInv, TurnsInv
<1>6. Putting(mem.elements, mem.front, mem.rear, t, e, f, r)
  BY DEF Putting
<1>7. mem.created >= t
  BY <1>1, FlowNumbers
<1> DEFINE created == mem.created
<1>8. Requeuing(pc, mem, t, pc', e, f, r, created, t, mem')
  <2>1. t \in Flows /\ t <= mem.created + 1 /\ mem.uc[t] = t /\ mem.cpu = 0
    BY <1>2
  <2>2. \A k \in InQueue(mem) : /\ PlaceOf(mem, k) # t
                                /\ mem.turns[PlaceOf(mem, k)] <= mem.turns[t]
                                /\ mem.turns[t] <= mem.turns[PlaceOf(mem, k)] + 1
    BY <1>1, <1>5
  <2>3. created = mem.created /\ created >= t /\ (pc[0] = "stop" => mem.current = t)
    BY <1>7
  <2> HIDE DEF e, f, r
  <2> QED
    BY <1>3, <1>4, <1>6, <2>1, <2>2, <2>3 DEF Requeuing
<1> HIDE DEF t, e, f, r, created
<1> QED
  BY <1>8, Requeued

LEMMA RequeueDrops ==
    ASSUME NEW rr \in BOOLEAN, LibraryInv(rr, pc, mem), mem.cpu = 0, pc[0] = "stop",
           pc' = [pc EXCEPT ![0] = "loop"], mem' = mem,
           rr => mem.completed[mem.current] # 0
    PROVE  LibraryInv(rr, pc', mem')
<1>1. mem.current \in Flows
  BY FlowNumbers DEF LibraryInv, ThreadsType, QueueInv, Flows
<1>2. /\ DOMAIN pc' = DOMAIN pc /\ pc'[0] = "loop"
      /\ \A u \in Flows : pc'[u] = pc[u]
  BY FlowNumbers DEF LibraryInv, ThreadsType
<1>3. ThreadsType(pc', mem')
  BY <1>2 DEF LibraryInv, ThreadsType
<1>4. QueueInv(pc', mem')
  BY <1>2 DEF LibraryInv, QueueInv
<1>5. TurnsInv(pc', mem')
  BY <1>2 DEF LibraryInv, TurnsInv
<1>6. FlowInv(rr, pc', mem')
  BY <1>2 DEF LibraryInv, FlowInv
<1>7. KeptInv(rr, pc', mem')
  <2>1. (rr => mem.garbage[mem.current] = 0) => mem.work[mem.current] = 0
    BY <1>1 DEF LibraryInv, FlowInv
  <2> QED
    BY <1>2, <2>1 DEF LibraryInv, KeptInv
<1> QED
  BY <1>3, <1>4, <1>5, <1>6, <1>7 DEF LibraryInv

-----------------------------------------------------------------------------
TimedInv == LibraryInv(TRUE, pc, mem)
FcfsInv == LibraryInv(FALSE, pc, mem)

LEMMA TimedStep ==
    ASSUME TimedInv, Timed!Next
    PROVE  TimedInv'
<1> SUFFICES LibraryInv(TRUE, pc', mem')
  BY DEF TimedInv
<1>0. LibraryInv(TRUE, pc, mem)
  BY DEF TimedInv
<1>1. CASE Timed!mythread_create
  BY <1>0, <1>1, CreateStep
<1>2. CASE Timed!Dispatch
  BY <1>0, <1>2, DispatchStep
<1>3. CASE Timed!LateSignal
  BY <1>0, <1>3, LateStep
<1>4. CASE Timed!Requeue
  <2>1. mem.cpu = 0 /\ pc[0] = "stop" /\ pc' = [pc EXCEPT ![0] = "loop"]
    BY <1>4 DEF Timed!Requeue, Timed!Go, Timed!main
  <2>2. CASE mem.completed[mem.current] = 0
    <3>1. mem' = Timed!enqueue(mem.current)
      BY <1>4, <2>2 DEF Timed!Requeue
    <3>2. mem.current \in Flows
      BY <1>0, <2>1, FlowNumbers DEF LibraryInv, ThreadsType, QueueInv, Flows
    <3>3. mem.uc[mem.current] = mem.current
      BY <1>0, <2>2, <3>2 DEF LibraryInv, FlowInv
    <3> QED
      BY <1>0, <2>1, <3>1, <3>3, RequeueBehind
  <2>3. CASE mem.completed[mem.current] # 0
    <3>1. mem' = mem
      BY <1>4, <2>3 DEF Timed!Requeue
    <3> QED
      BY <1>0, <2>1, <2>3, <3>1, RequeueDrops
  <2> QED
    BY <2>2, <2>3
<1>5. ASSUME NEW t \in Flows,
             Timed!Work(t) \/ Timed!mythread_exit(t) \/ Timed!Return(t) \/ Timed!sighandler(t)
      PROVE  LibraryInv(TRUE, pc', mem')
  <2>1. CASE Timed!Work(t)
    BY <1>0, <2>1, WorkStep
  <2>2. CASE Timed!mythread_exit(t)
    <3>1. /\ mem.cpu = t /\ mem.work[t] = 0 /\ pc[t] = "run" /\ pc' = [pc EXCEPT ![t] = "exited"]
          /\ mem' = [mem EXCEPT !.completed[mem.current] = 1, !.fresh = FALSE]
      BY <2>2 DEF Timed!mythread_exit, Timed!Go
    <3> DEFINE done == 1
               fresh == FALSE
    <3>2. mem' = [mem EXCEPT !.completed = [mem.completed EXCEPT ![mem.current] = done],
                             !.fresh = fresh]
      BY <3>1
    <3>3. TRUE => done # 0
      OBVIOUS
    <3> HIDE DEF done, fresh
    <3> QED
      BY <1>0, <3>1, <3>2, <3>3, ExitStep
  <2>3. CASE Timed!Return(t)
    BY <1>0, <2>3, ReturnStep
  <2>4. CASE Timed!sighandler(t)
    BY <1>0, <2>4, HandlerStep
  <2> QED
    BY <1>5, <2>1, <2>2, <2>3, <2>4
<1> QED
  BY <1>1, <1>2, <1>3, <1>4, <1>5 DEF Timed!Next, Timed!Threads, Flows

LEMMA FcfsStart ==
    ASSUME Fcfs!Init
    PROVE  FcfsInv
<1>1. Timed!Init
  BY DEF Fcfs!Init, Timed!Init, Fcfs!Threads, Timed!Threads, Fcfs!main, Timed!main
<1> QED
  BY <1>1, LibraryStart DEF FcfsInv

LEMMA FcfsStep ==
    ASSUME FcfsInv, Fcfs!Next
    PROVE  FcfsInv'
<1> SUFFICES LibraryInv(FALSE, pc', mem')
  BY DEF FcfsInv
<1>0. LibraryInv(FALSE, pc, mem)
  BY DEF FcfsInv
<1>1. CASE Fcfs!mythread_create
  <2>1. \A t : Fcfs!enqueue(t) = Timed!enqueue(t)
    BY Zenon DEF Fcfs!enqueue, Timed!enqueue, Fcfs!isFull, Timed!isFull,
       Fcfs!isEmpty, Timed!isEmpty
  <2>2. Timed!mythread_create
    BY <1>1, <2>1, Zenon DEF Fcfs!mythread_create, Timed!mythread_create,
       Fcfs!main, Timed!main, Fcfs!Go, Timed!Go
  <2> QED
    BY <1>0, <2>2, CreateStep
<1>2. CASE Fcfs!Dispatch
  <2>1. Timed!Dispatch
    BY <1>2, Zenon DEF Fcfs!Dispatch, Timed!Dispatch, Fcfs!isEmpty, Timed!isEmpty,
       Fcfs!dequeue, Timed!dequeue, Fcfs!main, Timed!main, Fcfs!Go, Timed!Go
  <2> QED
    BY <1>0, <2>1, DispatchStep
<1>3. ~Fcfs!LateSignal
  BY DEF Fcfs!LateSignal
<1>4. CASE Fcfs!Requeue
  <2>1. mem.cpu = 0 /\ pc[0] = "stop" /\ pc' = [pc EXCEPT ![0] = "loop"] /\ mem' = mem
    BY <1>4 DEF Fcfs!Requeue, Fcfs!Go, Fcfs!main
  <2> QED
    BY <1>0, <2>1, RequeueDrops
<1>5. ASSUME NEW t \in Flows,
             Fcfs!Work(t) \/ Fcfs!mythread_exit(t) \/ Fcfs!Return(t) \/ Fcfs!sighandler(t)
      PROVE  LibraryInv(FALSE, pc', mem')
  <2>1. CASE Fcfs!Work(t)
    <3>1. Timed!Work(t)
      BY <2>1, Zenon DEF Fcfs!Work, Timed!Work
    <3> QED
      BY <1>0, <3>1, WorkStep
  <2>2. CASE Fcfs!mythread_exit(t)
    <3>1. /\ mem.cpu = t /\ mem.work[t] = 0 /\ pc[t] = "run" /\ pc' = [pc EXCEPT ![t] = "exited"]
          /\ mem' = [mem EXCEPT !.completed[mem.current] = @, !.fresh = FALSE]
      BY <2>2 DEF Fcfs!mythread_exit, Fcfs!Go
    <3> DEFINE done == mem.completed[mem.current]
               fresh == FALSE
    <3>2. mem' = [mem EXCEPT !.completed = [mem.completed EXCEPT ![mem.current] = done],
                             !.fresh = fresh]
      BY <3>1
    <3>3. FALSE => done # 0
      OBVIOUS
    <3> HIDE DEF done, fresh
    <3> QED
      BY <1>0, <3>1, <3>2, <3>3, ExitStep
  <2>3. CASE Fcfs!Return(t)
    <3>1. Timed!Return(t)
      BY <2>3, Zenon DEF Fcfs!Return, Timed!Return, Fcfs!Go, Timed!Go, Fcfs!main, Timed!main
    <3> QED
      BY <1>0, <3>1, ReturnStep
  <2>4. ~Fcfs!sighandler(t)
    BY DEF Fcfs!sighandler
  <2> QED
    BY <1>5, <2>1, <2>2, <2>3, <2>4
<1> QED
  BY <1>1, <1>2, <1>3, <1>4, <1>5 DEF Fcfs!Next, Fcfs!Threads, Flows

LEMMA KeptMeansNotDropped ==
    ASSUME NEW rr \in BOOLEAN, LibraryInv(rr, pc, mem)
    PROVE  /\ \A t \in Timed!Queued : mem.uc[t] = t
           /\ \A t \in Flows : t <= mem.created /\ (mem.garbage[t] = 0 \/ ~rr) =>
                t \in Timed!Queued \/ mem.work[t] = 0 \/ (pc[0] = "stop" /\ mem.current = t)
           /\ pc[0] # "create" =>
                \A t, u \in Timed!Queued : mem.turns[t] - mem.turns[u] <= 1
<1>1. Timed!Queued = {PlaceOf(mem, k) : k \in InQueue(mem)}
  <2>1. QueueOK(mem.elements, mem.front, mem.rear)
    BY DEF LibraryInv, ThreadsType
  <2> QED
    BY <2>1, QueuedIs DEF PlaceOf, InQueue
<1>2. \A t \in Timed!Queued : mem.uc[t] = t
  BY <1>1 DEF LibraryInv, QueueInv
<1>3. \A t \in Flows : t <= mem.created /\ (mem.garbage[t] = 0 \/ ~rr) =>
        t \in Timed!Queued \/ mem.work[t] = 0 \/ (pc[0] = "stop" /\ mem.current = t)
  BY <1>1 DEF LibraryInv, KeptInv
<1>4. \A t, u \in Timed!Queued : mem.turns[t] - mem.turns[u] <= 1
  <2>1. \A k \in InQueue(mem) : mem.turns[PlaceOf(mem, k)] \in Nat
    <3>1. \A k \in InQueue(mem) : PlaceOf(mem, k) \in 1 .. mem.created
      BY DEF LibraryInv, QueueInv
    <3>2. 1 .. mem.created \subseteq Flows
      BY FlowNumbers DEF LibraryInv, ThreadsType, Flows
    <3> QED
      BY <3>1, <3>2 DEF LibraryInv, ThreadsType
  <2>2. \A j, k \in InQueue(mem) : mem.turns[PlaceOf(mem, j)] - mem.turns[PlaceOf(mem, k)] <= 1
    <3> TAKE j, k \in InQueue(mem)
    <3> DEFINE a == mem.turns[PlaceOf(mem, j)]
               b == mem.turns[PlaceOf(mem, k)]
    <3>1. a \in Nat /\ b \in Nat
      BY <2>1
    <3>2. j \in Int /\ k \in Int
      BY DEF InQueue
    <3>3. (j < k => a <= b /\ b <= a + 1) /\ (k < j => b <= a /\ a <= b + 1)
      BY DEF LibraryInv, TurnsInv
    <3>4. j = k => a = b
      OBVIOUS
    <3> HIDE DEF a, b
    <3>5. a - b <= 1
      BY <3>1, <3>2, <3>3, <3>4
    <3> QED
      BY <3>5 DEF a, b
  <2> QED
    BY <1>1, <2>2
<1> QED
  BY <1>2, <1>3, <1>4

LEMMA TimedKeeps ==
    ASSUME TimedInv
    PROVE  Timed!NobodyDropped /\ Timed!TurnsEven
  BY KeptMeansNotDropped
     DEF TimedInv, Timed!NobodyDropped, Timed!TurnsEven, Timed!Threads, Timed!main, Flows

LEMMA FcfsKeeps ==
    ASSUME FcfsInv
    PROVE  Fcfs!NobodyDropped
<1>1. Fcfs!Queued = Timed!Queued
  BY Zenon DEF Fcfs!Queued, Timed!Queued, Fcfs!isEmpty, Timed!isEmpty
<1> QED
  BY <1>1, KeptMeansNotDropped DEF FcfsInv, Fcfs!NobodyDropped, Fcfs!Threads, Fcfs!main, Flows

LEMMA TimedStart == Timed!Init => TimedInv
BY LibraryStart DEF TimedInv

LEMMA TimedRests == ASSUME TimedInv, UNCHANGED vars PROVE TimedInv'
BY DEF TimedInv, vars

LEMMA FcfsRests == ASSUME FcfsInv, UNCHANGED vars PROVE FcfsInv'
BY DEF FcfsInv, vars
================================================================================
