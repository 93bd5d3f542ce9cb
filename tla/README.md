# TLA+ models of apptester

The repository collects programs: exercises in operating systems
(`src/OS-master`) and in data mining (`src/dwdm-master`). Most of the first kind
are concurrent: threads, processes, signals, semaphores, pipes. There is no common
library; a component here is one program, or one problem that several programs
solve in different ways. This directory models the programs whose behaviour
is hard to test and proves the most important results for all sizes.

`PROJECT.json` lists every component with the files it covers, the runs, the
faulty variant that each property catches, the lines each definition stands
for, the hazards with their lines, and the theorems.

## 1. Inventory

State, operations, interaction and what makes each program correct.

| Component (files) | State | Operations | What is hard | Correct when |
|---|---|---|---|---|
| Barber shop (`barber.c`, twice in the tree) | 7 counting semaphores, 4 arrays of them, 2 pipes, `chair[]`, `freechairs`, `freefilmfares` | customers, barbers, cash counter, each a thread | tickets posted by barbers, chairs freed by customers; pipes and counts that must agree; barbers shared between hair and cash | nobody on a lap, a chair for each ticket, hair cut of the customer in the chair, receipts for payers, the program ends |
| User thread library (`shishir-sync/sthread.c`) | run queue, `currrent_thread`, `count`, list `running`, one `ucontext_t` per task and one for the end of all threads, SIGPROF timer | `sthread_create`, `schedule`, `kill_thread`, `sthread_wait` | preemption between any two instructions, swaps after signals are unblocked, a queue with a limit whose refusals are ignored | no flow of control is lost short of these two, counts agree |
| Its mutex (`syn.c`) | `lock`, `owner`, waiting list | lock, unlock | hand-over to a waiter that spins | exclusion, no waiter forgotten |
| Its application (`app.c`) | `global_sum` | main creates four threads and waits | lost updates, the end of the last thread against main's wait | the sum is complete, the program ends |
| File system (`FS/rfs.c`) | inode table, blocks, superblock with two caches and two counts, root directory, list of opened directories | `init_FS`, `makeDir`, `removeDir`, `openDir` (`closeDir`; file operations are empty) | "free" is guessed from a block's first byte, entry 0 lies in the block before | no block shared, counts exact, every directory reachable and leading back, opened once |
| Philosophers (`philosopher.c`, `diningPhilosophers.c`, `chopsticks.c`, `philosophers_pthread.c`) | one semaphore per fork, a room; or a monitor with states | take, put | circular waiting, a neighbour made to eat by another's `put` | neighbours apart, nobody forgotten, all finish |
| Readers and writers (`reader-writer.c`, `readerWriter.c`, `readerWriterV.c`) | lock with counts and two conditions; or `reader_count` under two mutexes | read, write, lock, unlock | lost wakeups, a mutex unlocked by another thread, counts per process | writers alone, no increment lost, all finish |
| Smokers (`smoker.c`) | `t`, `m`, `p`, `agnt`, one condition | `putdown`, `pickup` | one condition variable for all | no smoker sleeps through his ingredient |
| Small barbers (`sleeping_barber.c`, `simple-barber.c`, `sleepingBarber.c`) | semaphores; pipes; a mutex as a signal | customer, barber, main | `allDone` read twice; a number passed through a pipe | one customer in the chair, seats counted, everyone served |
| Producer and consumer (`consumer_producer.c`, `producerConsumer.c`, `producerConsumerV.c`, `proca.c`) | ring, or array as a stack; message queue | produce, consume | signalling after unlocking; a queue of the kernel that a killed run leaves behind | nothing lost or doubled |
| Cron (`cmds/cron.c`) | `virtualTime`, `timeRunning`, `clockTime`, signal flags | the main loop, `find_jobs`, `cron_sleep`, the reaper, pokes through a socket | the clock is changed at any time, also while jobs are caught up; children die and users poke between any two steps | fixed-time jobs once, wildcard jobs at every wakeup; no dead child, no job of `at`, no minute forgotten |
| At (`cmds/at.c`) | time, day and year of the job | the checks, `getltim`, `getlday`, the spool file | February 29 and New Year between today and the day asked for | the job is for the first moment that fits |
| Calendar (`cmds/cal.c`) | `info`, the months laid out | `setmonth`, `jan1`, `getdate`, `output` by line of months | centuries, September 1752 | months follow each other day by day |
| Chmod (`cmds/chmod.c`) | modes, the process's umask | `symbolic`, `absolute`, one file after the other | permissions copied from a class, umask asked by setting it, a list that ends at a missing file | each file has the mode asked for |
| Banker's algorithm (`bankers-deadlock-avoid.c` twice, `banker_request.c`, `deadlockdetectBanker.c`) | `Available`, `Allocation`, `Need`, `Work`, `Finish` | request, safety test | a refused request that is not taken back, index slips | safe means that all can end in some order; nothing gets lost |
| CPU schedules (`schedule/*.c`) | burst times, waiting times, a time | one turn of the loop per process or time unit | ties, idle time, the end of the loop in `RR.c` | the times are the times waited; shortest first waits least |
| Small thread libraries (`mythread_rr.c`, `mythread.c`, `ruthread.c`) | circular ready queue, `current`, `completed`, contexts, a profiling timer | create, `roundrobin` or `fcfs`, the signal handler, exit | a signal after a thread has ended, `completed` uninitialised, the queue at its limit | no thread leaves the queue before it has ended; turns are even |
| Frequent itemsets (`DIC.java`, `newalgo.java`, `hashing.java`, `partitioning.java`; `algo.java`, `AssociationRules.java`; `fp`) | candidate lists, counts, a position in the transactions; a list of subsets; a prefix tree | a round of `m` transactions; a level; a partition; the subsets of a set; a conditional tree | DIC counts in rounds that overlap; hash buckets and local minima that must not lose a set; lists compared with their order; a list of subsets that grows at its end; shared nodes counted twice | the reported sets are the frequent ones, the rules are theirs |
| Decision trees (`decisiontree/main.cpp`) | two trees, the examples | `DTL`, `classify`, `testAccuracy` | `classify` asks by depth and adds null subtrees | the tree has learnt its examples |
| Clustering (`k_means.java`) | clusters, the previous clusters, means | a round over all elements | empty clusters have the mean NaN | it ends, with every element at its nearest mean |
| Shell that redirects itself (`OS-ane/shell.c`) | its descriptors, two saved ones | redirect, fork, wait, put back | descriptors are limited and never closed; a fork that fails | commands get their files, the shell its terminal back |
| Shells (`final_shell.c`, `kshell.c`) | the line, the array of arguments, the directory, children and their redirections | read a line, built-in commands, fork, redirect, exec, wait, interrupt | children that stop and go on; arguments left over from earlier lines | a command ends before the next line is read; a command gets its own line |
| Iceberg cube (`BUCK.java`) | the cells found, the calls to be made | `freq`, `run` | pruning | no frequent cell below a pruned one |
| Simplest shell, other commands, signal exercises, statistics, file system template, message queue and FIFO demonstrations | - | one sequential run each, or not complete | - | - |

The programs do not call each other. Interaction is inside each: shared memory
under semaphores and mutexes, pipes as semaphores and as message channels,
condition variables, signals (SIGPROF in the thread library, SIGCHLD in cron),
a spool directory and a socket (from at to cron).
`app.c` on `syn.c` on `sthread.c` is the one stack of layers.

## 2. Modules

| Module | Models | Composition |
|---|---|---|
| `BarberShop` | `OS-master/barber.c` | implements `ShopService` |
| `ShopService` | what the shop promises, without semaphores or barbers | instantiated by `BarberShop` |
| `BarberShopProofs` | theorems about `BarberShop`, its pipes and its counter; the safety part of the refinement | extends it |
| `Sthread` | `sthread.c`: queue, scheduler, end of a thread, contexts | |
| `SthreadMutex` | `syn.c` | extends `Sthread` |
| `SthreadApp` | `app.c`, `sthread_wait`, the lock's spinning | extends `SthreadMutex`; the checked system |
| `SthreadProofs` | theorems about the three, after lemmas on sequences as queues | extends `SthreadApp` |
| `Rfs`, `RfsProofs` | `FS/rfs.c` | |
| `Cron`, `CronProofs` | `cmds/cron.c`, main loop | |
| `CronSleep` | `cmds/cron.c`: `cron_sleep`, SIGCHLD, the reaper, the poke of `at` | instance of `IpcPrograms` |
| `PosixIpc` | semaphores and condition variables as the small programs use them | extended by the modules below |
| `ForkTable` | `philosopher.c` with its Room and without, `diningPhilosophers.c` | instance of `IpcPrograms` |
| `Chopsticks` | `chopsticks.c` | instance of `IpcPrograms` |
| `ReadWriteLock` | `reader-writer.c` | instance of `IpcPrograms` |
| `ReadersCount` | `readerWriter.c`; `readerWriterV.c` with `Shared = FALSE` | instance of `IpcPrograms`; own run |
| `Smokers`, `SleepingBarbers`, `PipeBarber`, `StackBuffer`, `RingBuffer`, `MessageQueue` | `smoker.c`, `sleeping_barber.c`, `simple-barber.c`, `producerConsumer*.c`, `consumer_producer.c`, `proca.c` | instances of `IpcPrograms` |
| `MutexBarber` | `sleepingBarber.c` | instance of `IpcPrograms` |
| `Bankers` | `grant`, `request` and `cal` of the three banker programs (`Variant`) | three instances of `SoloPrograms` |
| `BankersProofs` | lemmas on finite sets (induction by a least counterexample, sums), and about `Bankers`, whichever of the three it is | extends it; three instances of `SoloProofs` |
| `Schedules` | `FCFS.c`, `SJF.c`, `PRIOS.c`, `RR.c`, `SRTF.c` | instance of `Classics` |
| `MyThread` | `mythread_rr.c`; `mythread.c` with `RoundRobin = FALSE` | two instances of `IpcPrograms` |
| `Dic`, `Apriori` | `DIC.java`; `newalgo.java` with `hashing.java` and `partitioning.java` | three instances of `Classics` |
| `FpTree`, `KMeans`, `BUCK` | `tree.java` with `FP.java`; `k_means.java`; `BUCK.java` | instances of `Classics` |
| `Rules`, `DecisionTree` | `algo.java` with `AssociationRules.java`; `decisiontree/main.cpp` | instances of `Classics` |
| `Shell` | `final_shell.c` (`Waits` TRUE), `kshell.c` (FALSE) | two instances of `SoloPrograms` |
| `MyShell` | `OS-ane/shell.c` | instance of `SoloPrograms` |
| `AtJob` | `cmds/at.c` | instance of `SoloPrograms` |
| `Calendar` | `cmds/cal.c` | instance of `SoloPrograms` |
| `Chmod` | `cmds/chmod.c` | instance of `SoloPrograms` |
| `IpcPrograms` | the sizes of the programs with several threads or processes, their assumptions and their instances | extended by `Classics` |
| `IpcProofs` | an invariant for each of these instances, and that it is one | extends `IpcPrograms` |
| `SoloPrograms` | the same as `IpcPrograms` for the shells, the bankers, `at`, `cal` and `chmod` | extended by `Classics` |
| `SoloProofs` | an invariant for each of these instances | extends `SoloPrograms`, instantiates `BankersProofs` |
| `Classics` | chooses one of thirty-two instances and runs it | the checked system; `chmod_alone` too |
| `ClassicsProofs` | theorems about `Classics`, from `IpcProofs` and `SoloProofs` | extends all three |

### How state and actions correspond

*Barber shop.* `cpc`, `bpc`, `kpc` are the places of customers, barbers and
counter in their functions; `sem` holds the counting semaphores by their C
name, the four arrays of semaphores are functions, `pipe1` and `pipe2` are
sequences, `seat`, `call`, `payer` are locals. One action is the code from one
semaphore operation to the next that another thread can notice. `mutex2` is kept,
because the scan for a chair and its occupation are separate statements;
`mutex3`, `mutex4` and `mutexfilmfare` guard sections in which nothing blocks,
which are one step each. That a `read` in such a section does not block is
checked (`ReadsNeverBlock`). Random sleeps and output are left out.

*Thread library.* A task is an entry of the queue, a flow is a thread of
control; `ctx` says which flow is saved in which task's context, `last` whose place or stack the one
context for the end of all threads holds. Code between
`block()` and `unblock()` is one step, everything else can be interrupted by
`Timer`, creation included. `schedule` and `kill_thread` unblock before they call `swapcontext`,
so the swap is a step of its own, and the timer may go off just there: `swaps` holds the swaps a flow
has yet to make. `mishaps` is not in the code: it records that a signal came late (`"late"`) or
that a full queue refused a task (`"full"`), and the model goes on as the code does. `fate` says why it
stops where the code's next step is undefined: a null head or a null task (`"null"`), a context that nobody is
saved in or that two use (`"wild"`), a new task that is refused (`"refused"`), a signal between the two
calls of `block()`, which share one signal set (`"bare"`).
Stacks, `malloc` and the list nodes of `running` are left out.

*File system.* `entry` maps an address (block, position) to a directory entry, so
that entry 0 at position -1 really is in the preceding block; `inode` keeps
`i_blocks[0]` and `i_nlinks`, the caches are sequences from their index on. Each
call is one action (the program has one thread). `open`
is the list `ofo_inode` of opened directories, with the block each copy of an inode
holds; `removed` in it is not in the code, it remembers that the directory was removed
since. Times, sizes, owners are left
out. The model stops before the last block or inode is used up, where
`allocBlock` returns -1 and `makeDir` uses that as a number.

*Cron.* All clocks are minutes. `Tick` and `Changed` move the clock at any time;
a wakeup is one action per case of the `switch`; the catching-up of the medium
case reads the clock after each minute and is one action per minute. The
small case does not read the clock and is one action. `find_jobs` is modelled
by counting, per minute, the runs of its jobs with (`wild`) and without
(`fixed`) a star.

*Cron's sleep.* `CronSleep` is the other half: seconds instead of minutes, a clock
that only goes on, and between any two steps of `main` a child's death with its
signal, a tick, or a step of the user of `at`, who spools first and pokes then.
`tv` is what `select` is given; whether `select` takes off the time slept is left
open, as in POSIX, and `since` is when it was called, which is a little after `t1` was read.

*Small programs.* `pc` holds the place of each thread, `sem` semaphores and
mutexes held over blocking calls, `asleep` the threads in `pthread_cond_wait`,
`mem` globals and locals. A section under a mutex that guards all it touches is
one step. Spurious wakeups are left out: under endless spurious wakeups the
readers of `reader-writer.c` could keep its writer out for ever.

*Sequential programs.* `Bankers`, `Schedules`, `Dic`, `Apriori`, `Rules`, `FpTree`, `KMeans`, `BUCK`,
`DecisionTree`, `Calendar`, `Chmod` and `AtJob` have one thread, `main`, and keep all their variables in `mem`. A step is one turn of the
program's loop: a process the safety test finds, a turn or a time unit of a
schedule, a round of `m` transactions, a level of itemsets, a tree, a round of clustering, a call of `run`, a turn of
`genAllSubsets`, a call of `DTL`, a month, a file. `Init` ranges over all
inputs of the given size: matrices, burst times, arrivals, transactions, examples; or
over the arguments, dates and modes `Classics` lists. `ran` of
`Schedules` and `turns`, `garbage` of `MyThread` are not in the code: properties
compare the program's own figures with them. Itemsets, lists of strings
in the code, are sets of numbers in `Dic`, whose lists are sorted, and lists of numbers in `Apriori`, where
their order decides what is found.

*Shells.* Process 0 is the shell, process k the child forked for the k-th line. A
child's steps (redirection, `execvp`), the shell's and the turns of its `waitpid`
loop interleave with what others do to the child: it ends, is stopped, goes on, or
is interrupted from the terminal together with the shell. `mem.args` of `kshell.c`
is one array for all lines, ended by an empty string instead of NULL, so that
what is behind it (earlier lines, then the stack) belongs to argv. `MyShell` has one
flow: its child gets what `fd` holds when it is forked. `spoiled` is not in the code: it
says that a fork of a redirected command has failed or a descriptor was wanting.

*Small thread libraries.* `uc` says whose flow a thread's `ucontext_t` holds and
`cpu` which flow executes. `sighandler` is a signal in a thread; `LateSignal` is
one that arrives after the thread's end and before `stop_time`, which saves the
main flow into the context of the ended thread.

## 3. Runs

| Run | Instance | States | Shows |
|---|---|---|---|
| `barbershop_safety` | 3 customers, 2 barbers, 2 chairs, 1 magazine, capacity 3 | 2.1 million | six invariants |
| `barbershop_service` | 3 customers, 2 barbers, 1 chair, 1 magazine, capacity 2 | 55 thousand | refinement of `ShopService`, the program ends |
| `barbershop_right_guy` | 2 customers, 2 barbers, 2 chairs | - | finding |
| `sthread_app` | 3 threads and main, queues of 2, 3 and 20, signals anywhere | 213 thousand | five invariants, the program ends |
| `sthread_crash` | 2 threads and main | - | finding |
| `rfs` | 10 blocks (2 reserved), 7 inodes, caches of 3, 5 entries a block, 3 names, 10 links, 2 opened directories | 93 thousand | six invariants |
| `rfs_free_count` | as above, smaller, nothing opened, the first directory removable | - | finding |
| `classics` | 4 and 5 philosophers, 3 readers with 1 and 2 writers, 3 smokers and 4 rounds, 3 and 4 customers, 7 and 6 products, 10 messages and up to 2 older ones; 3 processes with 2 resources or bursts up to 3; 3 threads; 3 or 4 transactions over 3 or 4 items; 5 elements in 3 clusters; 3 transactions over 3 dimensions; 3 examples with 2 attributes; 2 to 4 command lines; modes, calendars and dates as listed in `Classics` and its cfg; 3 minutes of 2 seconds with 2 children | 457 thousand | fifteen invariants, the programs end |
| `reader_writer_v` | 2 readers, 1 writer, processes | - | finding |
| `chmod_alone` | the arguments of `classics` | - | finding |
| `cron` | limits 2 and 4 minutes, clock 0..8, 2 changes | 0.7 million | four invariants |
| `cron_wild` | limits 5 and 10 minutes, 1 change forward | - | finding |

Why the bounds are enough. Barber shop: with more customers than chairs
both ways to a chair (at once, and with a magazine) and both waits (for a
magazine, for a ticket while reading) occur, and two barbers race
for calls and for the counter; one chair in the second run makes customers
queue at every semaphore. Threads: with three of `app.c`'s four the first,
a middle and the last end of a thread differ; a queue of 2 refuses a new thread, one of 3 a preempted one, one of 20, the
code's, none; there are empty, one-element and
longer waiting lists. File system: the caches are refilled up to three times and
the root's links cross from its own block into the boot block (entry 6 to 10,
`MaxLinks = 2 * MAXDIRENTRIES`); beyond that bound entries overwrite each other
(see section 5). Cron: every case of the `switch` is reached from every other, with two
changes before, during and after a catching-up; the limits are scaled so that all
cases fit into nine minutes, and the finding is shown with the real limit of 5.
Small programs: at least three competitors wherever two would hide a case
(a third reader, a neighbour's neighbour); `RingBuffer` has as many places
as products, as in the code, so that its producer never has to wait. Bankers: three
processes are the fewest for which the order in which the test finds them can
matter beyond the first, and all matrices of the size are tried; the requests
bring each program to further states. Schedules: all bursts up to 3 with arrivals or
priorities up to 2 give ties, idle gaps, quanta that divide a burst and quanta that
do not. Thread libraries: with as many threads as the queue has places its ends
meet and it is full. Itemsets: three items give three levels, and lines that name them in another order bring the lists out of order; `m` of 2 and 3
with 4 transactions count with and without remainder. FP tree: four items are the
fewest for which a node with something above it has two leaves. Clustering: five
elements, equal ones included, give empty clusters and several rounds. Shells: a
second line can meet what the first left behind (files, arguments, a child), and a
third what the second did with it; with eight descriptors, five of them free, four
lines come to the point where none is left. Opened directories: two are the fewest that could be
the same one, and three names let one be removed and its inode used for another while
a copy is held. Calendar: years on both sides of every leap rule that changes,
of September 1752, and at the ends. Chmod: each operator with each kind of permission, masked
and not, and two or three names, one of them twice, so that one step meets what another left behind. At: all
four kinds of years, days before, on and after February 29 and New Year. Rules:
four items, the fewest for which the list of subsets goes wrong. Trees: three examples can disagree, be
a majority, be one class, and run out of attributes. `CronSleep`: the second after a minute
begins and the last one before it, two children that die together or apart.

Deadlock is checked in every passing run; where a program stops, the next-state relation has a
stuttering step with an explicit condition (`Exited`, `Ended`, `Finished`, `Stopped`). `Stopped` in `Classics` are the stops
that are not ends: two crashes, the philosophers of the open table with a fork each, the customers of
`sleepingBarber.c` for whom nobody will unlock the mutex, cron with a clock at its bound. `Finishes`
claims nothing for these programs (it accepts the crashes, and says so); and its end is that of all threads or processes but
for three programs: the barber of `simple-barber.c` remains blocked when customers gave up (main leaves after
ten seconds whatever happens), the loop of main in the thread libraries ends although it has dropped threads
(`NobodyDropped` says which), and `kshell.c` waits for another line.

### Properties

Each property has a comment at its definition; section 4 says which are theorems. The deeper ones:
`ChairForTicket` (line 115 of `barber.c`, "This is not possible", is never
reached though tickets and chairs are given back by different threads),
`CutsSeatedCustomer`, `ReceiptForPayer`, `ImplementsService`; `NobodyLost` (each
flow is saved in exactly one task), `Census`; `OwnBlock`, `Reachable`,
`ParentEntry`; `OpenOnce`; `NobodyOversleeps`; `FixedOnce`, `NothingForgotten`, `TerminalBack`. Results against a
definition of their own: `SafeExactly` (the greedy test against all orders),
`WaitsExact` (waiting times against the schedule that was run, and that against the
least waiting of all schedules), `MinedExactly` (what five ways of mining report
against the frequent sets), `RulesExact`, `TrainedExactly`, `ModesAsAsked` (bit by bit against
class by class), `CalendarRunsOn` (the pages against a count of days from the year 1),
`FirstComing` (against all moments of two years).

Properties of one kind are one invariant of `Classics`: `KeptApart`, for one,
says of five programs that nobody disturbs another, each in its module's words
(`NeighboursApart`, `ReadersUndisturbed`, `Apart`, `InTheChair`).

### Findings

1. `barber.c:209`: a barber waits on the chair's semaphore, not on his
   customer's; two barbers waiting on one chair can take each other's post.
2. `sthread.c:226`: `sthread_wait` tests `running` and yields in two steps; when
   the last thread ends in between, `schedule` dereferences a null head.
3. `rfs.c:517`: a block whose first byte is 0 counts as free, also when it is in
   use; after the root's first directory is removed, the root's block is
   handed out again.
4. `readerWriterV.c:99`: `reader_count` is per process; two readers deadlock.
5. `cron.c:218`: a catching-up that is interrupted runs wildcard jobs twice.
6. `chmod.c:81`: `umask(0)` asks for the umask and clears it, so that it spares
   bits of the first file of a list only.

`sleepingBarber.c:59` is close to one: `barberReady` starts unlocked, so that the
first customer does not wait for the barber (line 46 says "wait until barber is ready"), and a customer whose signal merges with
another's waits for ever. Both happen in the run; `SeatsCounted` of `MutexBarber`
says that only one customer is through too early.

### Fairness

*Barber shop* and the small programs: weak fairness of `Next`; every thread
takes finitely many steps, so that "some thread moves while one can" is all
that preemptive scheduling has to give. The readers of `reader-writer.c` and the
smokers go round without end: there each reader and writer, and the agent, has
weak fairness of its own, which also assumes that `mut` is not kept from a thread
for ever.
*Thread library*: strong fairness of each flow's own steps: the timer counts
CPU time (`ITIMER_PROF`), so that a flow that is scheduled again and again does
execute instructions; weak fairness of a pending swap.
`ShopService` has weak fairness of its `Next`, so that the refinement carries
over the shop's progress too.

## 4. What is proved

TLAPS proves, for every value of the constants that satisfies the assumptions
(`ShopAssumption`, `SthreadAssumption`, `RfsAssumption`, `CronAssumption`,
`IpcAssumption`, `LibraryAssumption`, `ShellAssumption`, `BankAssumption`, `AtAssumption`,
`CalAssumption`, `ModeAssumption`, `StringAssumption`):

| Module | Theorems | For |
|---|---|---|
| `BarberShopProofs` | `TypeCorrect`, `NobodysLapAlways`, `ChairForEveryTicket`, `CutsSeatedCustomerAlways` | any customers, barbers, chairs, places and magazines |
| the same | `ReadsNeverBlockAlways`, `ReceiptForPayerAlways`; `KeepsPromise`: `Spec => Service!Promise`, the safety part of `ImplementsService` | the same |
| `SthreadProofs` | `TypeAlways`, `NobodyLostAlways`, `CensusAlways`, `MutualExclusionAlways`, `SumCompleteAlways`; `LateCrashAlways`: the null head of finding 2 is met only when all threads have ended | any number of threads and any `MAX_THREAD`, signals anywhere |
| `RfsProofs` | `TypeAlways`, `OwnBlockAlways`, `FreeCountAlways`, `ReachableAlways`, `ParentEntryAlways`, `OpenOnceAlways` | any device, caches, names and opened directories, under `Kept` |
| `CronProofs` | `TypeCorrect`, `FixedOnceAlways`, `WildNowAlways`, `NeverEarlyAlways` | any limits, horizon and changes of the clock |
| `ClassicsProofs` | `KeptApartAlways`, `NobodyOversleepsAlways`, `NothingLostAlways`, `NothingForgottenAlways` | any number of threads, rounds, places and products of the programs in `IpcPrograms` |
| the same | `NobodyDroppedAlways` | any number of threads with any work, and a queue with a place for each |
| the same | `CommandsApartAlways`, `TerminalBackAlways` | any lines, any number of them, any files, programs and directories, any number of descriptors |
| the same | `SafeExactlyAlways` | any number of processes, kinds of resources, instances and requests |
| the same | `FirstComingAlways` | any minute of the years 1901 to 2098, any time and any pair of numbers as the date |
| the same | `CalendarRunsOnAlways` | any arguments, and any number in `year` where nobody sets it |
| the same | `ModesAsAskedAlways` | any groups of classes and operators, any list of names, also with one twice, any files, modes and umask |

One group has a hypothesis, which is what the code needs and nothing in it ensures:
`Kept` is `KeepFirst = TRUE /\ MaxLinks <= 2 * MAXDIRENTRIES`:
otherwise finding 3 strikes, or entries of the root overwrite each other. The run
`rfs` is an instance.

The theorems about the threads have none. `MutualExclusionAlways` and `SumCompleteAlways` hold whatever goes
wrong; `CensusAlways` until a full queue refuses a task, `NobodyLostAlways` and `LateCrashAlways` until that or a signal
between unblocking and `swapcontext`: the properties say so by `mishaps`, and both mishaps happen in the run.
In the same way `SafeExactly` says of `cal` what is true of its wrong column (with two kinds in the run), `MinedExactly` and
`RulesExact` which sets and lists come out right (in runs where others come out wrong), and `ModesAsAsked` for which arguments.

*Argument for the shop.* `NobodysLap` is not inductive: that a scanned chair is
still free when it is occupied needs `mutex2`. `LapInv` adds `MutexInv` (the
semaphore and the customers in its sections sum to one), `SeatInv` (a customer
about to occupy has a free chair in mind) and `CountInv` (`freechairs` counts
the empty chairs). `ChairForTicket` needs the accounting of tickets: tickets in
the semaphore, with uncut customers and with barbers sum to `totalchairs`, so
that a customer scanning while all chairs are taken would be one too many.
`CutInv` links calls in the pipe, calls read by barbers and customers (`CallInv`,
`StandInv`, `TicketInv`, `FinishInv`): each seated, called customer has exactly one
of the three. Steps of one group of threads leave most parts alone; the
"bystander" lemmas say so once.

*Argument for the counter and the service.* A pipe holds as many messages as its semaphore has
posts, and one more for each thread between its write and its post or its wait and its
read (`PipeInv`); so a thread that reads finds something. A paying customer
is in the queue once, or at the counter, or has his receipt (`PayInv`). For the service, each
action is a step of the phase its customer is in, or none. The guards of the service
about others: places are left because `max_capacity` and the customers inside sum to
`maxcapacity`, and all have paid before the exit because who has posted `done[]` is on his
way out (`DoorInv`); chairs are left by `SeatInv`.

*Argument for the threads.* `QueueInv` has the queue hold main and running threads,
each once, the current one first; `CensusInv` that nobody is missing in it until one is refused.
`ContextInv` says that each flow is saved at most once, in its own task or, after a late signal, in one
from which the swap it has yet to make leads nowhere; `ControlInv` that the flow that executes is
the current one, or owes one `swapcontext`, or two after a late signal, of one of four kinds. `HomeInv` is
what they come to without a mishap: every context is that of its own task. So the flow that executes code of its own is the
one `currrent_thread` names, mishaps or not, which is all that the mutex asks of the library. `PlaceInv` ties `running` to the places of
threads and of main's loop; `WaitInv` has the waiting list of the mutex hold exactly those
who spin or are inside, the owner first, which gives exclusion; `SumInv` counts the threads that
have stored. `IdleInv` and `CrashInv` say when the queue can be empty with the timer on.

*Argument for the file system.* The properties are nearly inductive together: added are
that the root is a directory with its own block and links in one piece (`RootInv`), that the
caches offer nothing twice (`CacheInv`), and that no block in use looks free, which is what
`KeepFirst` buys. A refill sorts what is free; that it lists it without repetition is `CachedLemma`,
by ranking a finite set by the number of greater elements.

*Argument for cron.* `FixedOnce` needs that catching up stops at the minute it
started for (`at = "medium" => virtualTime < timeRunning`), that what was
read has been shown (`timeRunning <= latest`) and that virtual time is never before
the last large change (`since <= virtualTime`).

*Argument for the small programs.* One program runs and leaves the others' invariants
alone (`OneProgramRuns`), so that each has its own, in `IpcProofs`:

| Program | Invariant |
|---|---|
| `philosopher.c` with its Room or not, `diningPhilosophers.c` | a fork is on the table exactly when nobody holds it, and two never hold one (`ForkInv`) |
| `chopsticks.c` | `state` follows the places, no two neighbours eat, who is hungry has a neighbour who eats (`MonitorInv`) |
| `reader-writer.c` | the lock's counts are the threads inside and waiting; who sleeps has a reason (`RwlInv`) |
| `readerWriter.c` | `readers_mutex` excludes counting readers, `reader_count` counts those between `first` and `uncount`, `writers_mutex` is with one writer or all readers (`CountedInv`) |
| `smoker.c` | who sleeps has nothing on the table (`SmokingInv`) |
| `sleeping_barber.c` | one in the chair; one post at most on its way between him and the barber; nobody is left when `allDone` is set (`PillowInv`) |
| `consumer_producer.c` | place k holds product k until it is consumed, each place is used once (`RingOrder`) |
| `producerConsumer.c` | the semaphores count full and empty places but for those a thread has just taken or not yet posted; kept and delivered products are 0 to `made - 1` (`StackInv`) |
| `proca.c` | what was received and what is queued is what was left before, then what was sent, in order (`MailedInv`) |
| `simple-barber.c` | the pipe holds one number, that of the seats but those of customers not counted off, except under the lock (`PipesInv`) |
| `sleepingBarber.c` | `barberReady` exceeds the counted customers by the one post too many it starts with (`ReadyInv`) |
| `cron.c`, its sleep | what `select` waits for, counted from `t1`, is over one second after the minute begins at the latest (`PlanInv`); a dead child has its signal noted or is being reaped, a poke is kept until the spool is read (`DaemonInv`) |
| `mythread_rr.c`, `mythread.c` | threads are in the circular queue once, not the one that has or just had the processor (`QueueInv`), so that there is always room (`RoomLeft`: more threads than there are would be needed to fill it); turns grow from the front to the rear by one at most, and the current thread has had as many as any of them, or one more (`TurnsInv`); a context that is not the thread's own is that of a thread that has ended, and `completed` says so of it (`FlowInv`); who has work left is queued or current (`KeptInv`) |

and those in `SoloProofs`:

| Program | Invariant |
|---|---|
| `OS-ane/shell.c` | while nothing is spoiled, the terminal is in descriptors 0 and 1 but for what the line redirects, and what is saved of it in another (`FilesInv`) |
| `final_shell.c` | only the child of the last line is there, `waitpid` is not left before it has ended, and its line is cut off where it has redirected (`OneChild`, `JobOK`) |
| `kshell.c` | when a line is executed, `args` begins with its tokens (`QueryInv`); a child keeps the terminal and the array it was forked with, which begins with its line (`AskedInv`) |

*Argument for the banker's algorithm.* The definition of a safe state (`Safe`) asks for an order
in which all processes can end. The test keeps, as part of `BankInv`, that `Work` is what is
available and what the processes found so far hold, and that those can end in the order they
were found in (`Tested`; `OneMoreFound`). When it finds nobody more although some are left,
there is no such order: the first process of one that has not been found would need no more than
`Work`, since all before it have been found and nobody holds less than nothing (`GreedyIsEnough`).
Between requests `wasSafe` is right because a safe state stays safe when a request is taken
back, in the same order (`SafeWithout`): so what the first test of `banker_request.c` said holds
also after a request was granted or undone. `cal` gives back one column for all: if that is the least of what each
process holds, `Work` is never more than it should be, if the greatest never less, and each bound gives one half of
`SafeExactly` (`SumGrows`). Sums over sets of processes go by
`SumRemove` and `SumMoved`, which come from a least counterexample
among the subsets of a finite set (`LeastSet`), the induction the provers can do.

*Argument for `at`.* What is proved is arithmetic: `FirstComing` counts the days of a date from
the lengths of the months before it, the code has them in a table of a leap year and takes one off from
March on (`MonthsAdded`, `DayMeans`). `AtInv` says what the arguments were found to mean. That the moment
chosen is the first has one case for today or tomorrow (`SoonIsFirst`) and one for each
kind of year, the one before a leap year among them (`OnDateIsFirst`).

*Argument for `cal`.* The code has a formula for the weekday of January 1; `CalendarRunsOn` counts
leap years one by one. The number of leap years before a year has a closed form
(`LeapsCounted`, from the least year for which it would not), in which it differs from the code's formula by
whole weeks (`YearBegins`). From it follows how far January 1 moves (`JanuaryMoves`), so that the code takes
the right year for a leap year and 1752 for the one that lost eleven days (`DaysOfMonth`), and with the
months before added, that a month begins where its first date belongs (`MonthBegins`). `CalInv`
says that whatever is laid out or printed is the page of some month of some year.

*Argument for `chmod`.* The code applies an operator to one class after the other, each time with
the set-id bits of all; `ModesAsAsked` says for each bit what the operator makes of it.
`OperateBits` compares the two, by the kind of the bit. An argument is then a sequence of groups
of operators, and a file a sequence of names: what both sides do step by step is the same, since
a function is followed from a state to one end only (`StepsEnd`, `Reached`, `EndNext`, by the first step at which
it would not be). `ModeInv` says that each file is where its names among those already seen to lead, with the umask the code
has then; that this is the one it started with, where it matters, is `ModesMeant`.

In `StackInv` and `RingOrder` no product is lost or doubled because as many are kept as
numbers there are, and all the numbers are there.

Model-checked only:

* all liveness (`AllServed`, `Ends`, `Finishes`), and the fairness part of
  `ImplementsService`: fairness and ENABLED are beyond the prover;
* properties whose definitions fold over data, which need induction over it:
  `WaitsExact`, `MinedExactly`, `RulesExact`, `TrainedExactly`.

## 5. Assumptions

* Threads: at most one signal is taken inside another's window between unblocking and `swapcontext`, and none
  in schedule between a refused requeueing (line 103 unblocks) and line 205; in `block()` the model stops. `Ends` says nothing once a
  mishap has happened: a flow that is lost may be the one everybody waits for.
* `KeepFirst = TRUE` in `rfs`: the user keeps the root's first directory; without
  it finding 3 strikes.
* `MaxLinks = 2 * MAXDIRENTRIES` in `rfs`; blocks and inodes are not exhausted.
* `AllServed` needs `maxcapacity <= totalchairs` or at least one magazine;
  without, customers who must read wait for a magazine that does not exist.
* One writer in `ReadWriteLock`, as in its `main`: `writeunlock` wakes only readers, so that
  with two writers one could sleep for ever. `OneWriter` is that writer in `IpcPrograms`.
* The POSIX objects work as specified; unlocking a mutex from another thread
  (`readerWriter.c:48`) or twice (`sleepingBarber.c:28`) works as in glibc's
  default mutex.
* `finish` in `banker_request.c` (line 62) is allocated and not set: it is taken as 0.
* `deadlockdetectBanker.c`: line 106 adds the last column to all others. With two resources its answers are wrong
  both ways, in the run too; `SafeExactly` says when they are right.
* `bankers-deadlock-avoid.c` does not undo a request it refuses: `GrantedIsSafe` says that the state is then as unsafe as the test
  found it, and no more than that.
* `completed` in `mythread_rr.c` is set by nobody before a thread ends. It
  starts with any value, and `NobodyDropped` speaks of the threads where it
  starts with 0. The timer (50 ms of CPU time) does not expire before a
  dispatched thread did something; there are at most `MAX_THREADS` threads.
* `RR.c` can leave its loop early (line 27), `SRTF.c` stops at an idle gap:
  `WaitsExact` speaks of processes that are through.
* Items of a transaction are sorted in `Dic` and `FpTree`. In `Apriori` they are in any order: by hashing, frequent sets of
  three get lost when pairs are first met out of order (line 79 of `newalgo.java` appends, line 100 compares lists), and also
  pairs of lines that are not in order; `FrequentFound` claims the rest. If the
  size of a partition does not divide the number of transactions, line 32 of
  `partitioning.java` rounds down and the local minimum is too high: then only "nothing infrequent is reported" is claimed. In `DIC.java`
  with `m` not dividing it, only "no frequent set is missing" is.
* The minimum support in `FpTree` is 2, which line 21 of `FP.java` sets: line 192 of `tree.java` counts a
  shared node once per leaf, which would show from 3 on.
* `Shell`: tokens fit the buffers, and the lines of `kshell.c` its ten places of
  `args`; input does not end before `exit`; each child is stopped at most once,
  one interrupt comes, and who stopped a child lets it go on (otherwise
  `final_shell.c` waits for ever). Files can be opened if they are there, and made.
* `BUCK` visits cells that fix the first dimensions and leave the others open, and
  never those with all dimensions fixed (line 72 returns before line 80);
  `IcebergExact` speaks of the visited cells.
* `RulesExact`: `genAllSubsets` adds to the end
  of a list it has lengthened itself (line 156 of `algo.java`), which is the right place
  only up to three items. With four, as in the run, lists are wrong; the property says that all rules have the
  confidence of their sets, and that those of up to three items are complete.
* `TrainedExactly` says of `classify` what holds for the tree of the information gain,
  where every attribute gains the same and nodes are split in the order of their
  numbers; the random tree is classified wrongly (line 179 of `main.cpp`). There
  are fewer than 256 examples, as the loops count in eight bits. A test file that ends with
  a newline crashes the program, which `Finishes` accepts beside its end.
* `TerminalBack` does not speak of what follows a failed fork of a redirected
  command (line 50 of `shell.c`) or a lack of descriptors (lines 32 to 64): it fails there.
  Lines fit `argv` and the buffers.
* `OpenOnce` does not speak of removed directories: nothing leaves `ofo_inode` (line
  342 of `rfs.c`), so that a reused inode number finds the old copy.
* `ModesAsAsked` takes the umask as what the user set, for every file; of a mode that names no class it speaks of
  the first file only, as finding 6 has it. A class that is copied brings its set-id bit with it: "u-g" also
  clears the set-group-id bit, and `ModesAsAsked` says so.
* `at` is started in the years 1901 to 2098: in them, and in the year that follows, every fourth year is a
  leap year, as its code has it (`AtAssumption`); its arguments are numbers. In `cal`
  without a year, `year` is not set: `AnyYear` stands for what it holds.
* `CronSleep`: `got_sighup` is treated like `got_sigchld` and left out; a job
  of `at` is ripe as soon as it is spooled: it runs when cron is poked, or in the minute
  after one in which the directory was scanned.
* `MessageQueue`: `fork` succeeds (otherwise the father waits for ever), and the kernel's
  queue has room for ten messages.
* `KMeans` computes with exact fractions instead of doubles, so that a tie that rounding decides in the code may fall differently. `Settled`
  speaks of runs that end with no cluster empty.
* `ShellAssumption`: a line is a sequence of strings, a process has at least three
  descriptors, and `"no file"`, which no token can be, is no file's name. `StringAssumption` lists three
  literals as strings, which the provers do not see by themselves; both are evaluated
  by `classics`.
* The bounds of cron, and the sizes of the programs in `IpcPrograms` and `SoloPrograms`, are constants in
  the cfg files; those of the other programs are in `Classics`.

## 6. Not modelled

`closeDir` of `rfs.c` (it uses an in-core inode that is never filled
in); what happens when blocks or inodes run out; the memory of freed list nodes
in `sthread.c`; `philosophers_pthread.c` (it writes beyond its arrays);
`proa.c` (one process sends itself one message); `got_sighup`, the options and the start of cron, and its job functions, which are not
in the repository; programs that do not compile
(`ruthread.c`, `chat/server.c`, the two `deadlock-detection.c`); the simplest shell (`wait` writes
through a pointer that is never set), the other commands, whose behaviour is in the
kernel or in the layout of their output; exercises of single calls; the statistics, which
are numerical and partly need classes that are not there; the templates.
`PROJECT.json` has the reason for each.

## 7. Plan

Done: all modules of section 2, their runs, and the proofs of section 4.

Next, most important first:

1. Abstract specifications: an atomic mutex for `SthreadMutex`, a readers-writers service
   for both readers-writers programs, a set of names for `Rfs` (`makeDir` adds,
   `removeDir` removes), a bounded bag for the buffers, and that they are implemented.
