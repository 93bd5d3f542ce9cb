-------------------------------- MODULE Classics --------------------------------
(***************************************************************************)
(* The small programs of the repository, each an instance of its module.   *)
(* They have nothing to do with each other: program says which one runs.   *)
(* Those whose size is a parameter are declared in IpcPrograms and in      *)
(* SoloPrograms.                                                           *)
(***************************************************************************)
EXTENDS IpcPrograms, SoloPrograms, FiniteSetsExt

VARIABLE program

allVars == <<vars, program>>

Cpu     == INSTANCE Schedules WITH NPROC <- 3, BurstUpTo <- 3, LateUpTo <- 2

(* What customers buy: enough for three items to be frequent together.     *)
Baskets == {{3}, {1, 2}, {1, 3}, {2, 3}, {1, 2, 3}}
Bundles == {{1, 2}, {1, 2, 3}, {1, 2, 4}, {1, 3, 4}, {2, 3, 4}}
Even    == INSTANCE Dic WITH
             Items <- 1 .. 3, NTransactions <- 4, m <- 2, minimumSupport <- 2
Uneven  == INSTANCE Dic WITH
             Items <- 1 .. 3, NTransactions <- 4, m <- 3, minimumSupport <- 2
Lines   == {<<1, 2>>, <<1, 3>>, <<3, 1>>, <<2, 3>>, <<1, 2, 3>>}
Levels  == INSTANCE Apriori WITH
             Baskets <- Lines, NTransactions <- 4, minimum_support <- 3, PartitionSizes <- {2, 3}
Paths   == INSTANCE FpTree WITH
             Items <- 1 .. 4, Baskets <- Bundles, NTransactions <- 4
Shelves == {{3}, {1, 2}, {2, 3}, {1, 2, 3}, {1, 2, 3, 4}}
Ruling  == INSTANCE Rules WITH
             Items <- 1 .. 4, Baskets <- Shelves, NTransactions <- 3, minimum_support <- 2
Means   == INSTANCE KMeans WITH n <- 5, p <- 3, Values <- {1, 2, 4, 7}
Cube    == INSTANCE BUCK WITH NDims <- 3, Values <- {1, 2}, NTransactions <- 3, minimum_support <- 2

(* What is typed: the built-in commands, redirections to and from files    *)
(* that are there or not, a name that is no program.                       *)
TypedLines ==
    {<<>>, <<"help">>, <<"cd", "d">>, <<"cd", "nodir">>, <<"nosuch">>,
     <<"cat">>, <<"cat", "<", "f">>, <<"cat", "a", "<", "g", ">", "f">>,
     <<"cat", ">", "h", "a", "<">>, <<">", "g">>}
QueriedLines == {<<"">>, <<"cat">>, <<"nosuch", "a">>, <<"cat", "b", "c">>}
RedirectedLines ==
    {<<"">>, <<"cat", "<", "f">>, <<"cat", ">", "g">>, <<"ls", ">", "d/x">>,
     <<"cat", "<", "no">>, <<"cat", "<", "f", ">", "h", "a">>, <<"cat", "<">>, <<"exit">>,
     <<"cat", "<", "">>, <<"cat", ">", "">>}

(* cal: years with and without a leap day in all centuries that differ,    *)
(* the months around September 1752, years that are months.                *)
A(val, len) == [val |-> val, len |-> len]
Calendars ==
    {<<A(y, 4)>> : y \in {1, 4, 5, 99, 100, 101, 400, 1699, 1700, 1701, 1751, 1752, 1753, 1800,
                          1801, 1900, 1901, 1999, 2000, 2001, 2014, 2100, 2101, 9999, 10000, 0}}
      \cup {<<>>, <<A(7, 1)>>, <<A(82, 2)>>, <<A(9, 1), A(1752, 4)>>, <<A(1752, 4), A(13, 2)>>,
            <<A(82, 2), A(2, 1)>>}

(* chmod: arguments of every form, among them u+s, g=u, a=r,u+w, o=g, u-g, *)
(* +t-x and g=sr, a bad one (u+go) and ones with something behind them.    *)
Asked(groups, junk) == [absolute |-> FALSE, bits |-> {}, groups |-> groups, junk |-> junk]
Octal(bits, junk)   == [absolute |-> TRUE, bits |-> bits, groups |-> <<>>, junk |-> junk]
Group(who, ops) == [who |-> who, ops |-> ops]
Op(op, perms)   == [op |-> op, perms |-> perms]
Symbolic ==
    {<<Group({}, <<Op("+", {"w"})>>)>>, <<Group({"u"}, <<Op("+", {"s"})>>)>>,
     <<Group({"g"}, <<Op("=", {"u"})>>)>>, <<Group({"o"}, <<Op("=", {"g"})>>)>>,
     <<Group({"a"}, <<Op("=", {"r"})>>), Group({"u"}, <<Op("+", {"w"})>>)>>,
     <<Group({}, <<Op("=", {"r", "w"})>>)>>, <<Group({}, <<Op("+", {"t"}), Op("-", {"x"})>>)>>,
     <<Group({"u", "g"}, <<Op("+", {"x"}), Op("-", {"w"})>>)>>,
     <<Group({"u"}, <<Op("=", {"r", "w", "x"})>>), Group({"g", "o"}, <<Op("=", {})>>)>>,
     <<Group({"g"}, <<Op("=", {"s", "r"})>>)>>,
     <<Group({"u"}, <<Op("=", {"g"}), Op("=", {"o"})>>)>>, <<Group({"u"}, <<Op("-", {"g"})>>)>>,
     <<Group({"u"}, <<Op("+", {"g", "o"})>>)>>}
W(classes, perms) == classes \X perms
ModesAsked ==
    {Asked(g, FALSE) : g \in Symbolic}
      \cup {Asked(<<Group({"u"}, <<Op("+", {"r"})>>)>>, TRUE), Octal({}, TRUE),
            Octal({<<"u", "r">>, <<"x", "g">>}, FALSE)}
ModesFound ==
    {{}, W({"u", "g"}, {"r", "x"}) \cup {<<"x", "g">>},
     W({"u"}, {"r", "w", "x"}) \cup {<<"o", "r">>, <<"x", "u">>},
     W({"u", "g"}, {"w"}) \cup {<<"o", "x">>, <<"x", "t">>}}
UsersMasks  == {{}, {<<"g", "w">>} \cup W({"o"}, {"r", "w", "x"})}
FilesListed == {<<>>, <<"f">>, <<"f", "g">>, <<"f", "f">>, <<"g", "gone", "f">>}

(* at: around February 29 and New Year, and what is no date at all.        *)
DatesAsked ==
    {<<1, 1>>, <<2, 28>>, <<2, 29>>, <<3, 1>>, <<12, 31>>, <<13, 1>>, <<4, 31>>, <<5, 0>>}

Trees   == INSTANCE DecisionTree WITH NAttributes <- 2, NExamples <- 3

Runs(p, Step) == program = p /\ Step /\ UNCHANGED program

Init ==
    \/ program = "table" /\ Table!Init
    \/ program = "monitor" /\ Monitor!Init
    \/ program = "rwl" /\ Rwl!Init
    \/ program = "counted" /\ Counted!Init
    \/ program = "smoking" /\ Smoking!Init
    \/ program = "pillow" /\ Pillow!Init
    \/ program = "pipes" /\ Pipes!Init
    \/ program = "stack" /\ Stack!Init
    \/ program = "ring" /\ Ring!Init
    \/ program = "mailed" /\ Mailed!Init
    \/ program = "grant" /\ Grant!Init
    \/ program = "undone" /\ Undone!Init
    \/ program = "detect" /\ Detect!Init
    \/ program = "cpu" /\ Cpu!Init
    \/ program = "timed" /\ Timed!Init
    \/ program = "fcfs" /\ Fcfs!Init
    \/ program = "even" /\ Even!Init
    \/ program = "uneven" /\ Uneven!Init
    \/ program = "levels" /\ Levels!Init
    \/ program = "paths" /\ Paths!Init
    \/ program = "means" /\ Means!Init
    \/ program = "cube" /\ Cube!Init
    \/ program = "waiting" /\ Waiting!Init
    \/ program = "asking" /\ Asking!Init
    \/ program = "ready" /\ Ready!Init
    \/ program = "ruling" /\ Ruling!Init
    \/ program = "saving" /\ Saving!Init
    \/ program = "cal" /\ Cal!Init
    \/ program = "mode" /\ Mode!Init
    \/ program = "later" /\ Later!Init
    \/ program = "trees" /\ Trees!Init
    \/ program = "daemon" /\ Daemon!Init

Finished ==
    CASE program = "table" -> Table!Finished
      [] program = "monitor" -> Monitor!Finished
      [] program = "rwl" -> Rwl!Finished
      [] program = "counted" -> Counted!Finished
      [] program = "smoking" -> Smoking!Finished
      [] program = "pillow" -> Pillow!Finished
      [] program = "pipes" -> Pipes!Finished
      [] program = "stack" -> Stack!Finished
      [] program = "ring" -> Ring!Finished
      [] program = "mailed" -> Mailed!Finished
      [] program = "grant" -> Grant!Finished
      [] program = "undone" -> Undone!Finished
      [] program = "detect" -> Detect!Finished
      [] program = "cpu" -> Cpu!Finished
      [] program = "timed" -> Timed!Finished
      [] program = "fcfs" -> Fcfs!Finished
      [] program = "even" -> Even!Finished
      [] program = "uneven" -> Uneven!Finished
      [] program = "levels" -> Levels!Finished
      [] program = "paths" -> Paths!Finished
      [] program = "means" -> Means!Finished
      [] program = "cube" -> Cube!Finished
      [] program = "waiting" -> Waiting!Finished
      [] program = "asking" -> Asking!Finished
      [] program = "ruling" -> Ruling!Finished
      [] program = "saving" -> Saving!Finished
      [] program = "cal" -> Cal!Finished
      [] program = "mode" -> Mode!Finished
      [] program = "later" -> Later!Finished
      [] program = "trees" -> Trees!Finished
      [] OTHER -> FALSE

(* Where a program stops without having come to its end: some crash, the   *)
(* philosophers in the open room deadlock, sleepingBarber.c and cron have  *)
(* no end.                                                                 *)
Crashed ==
    \/ program = "saving" /\ Saving!Crashed
    \/ program = "trees" /\ Trees!Crashed
Endless ==
    \/ program = "table" /\ mem.table = "open"
    \/ program \in {"ready", "daemon"}
Stopped ==
    \/ Crashed
    \/ program = "table" /\ Table!Deadlocked
    \/ program = "ready" /\ Ready!NobodyMoves
    \/ program = "daemon" /\ Daemon!ClockStands

Next ==
    \/ Runs("table", Table!Next)
    \/ Runs("monitor", Monitor!Next)
    \/ Runs("rwl", Rwl!Next)
    \/ Runs("counted", Counted!Next)
    \/ Runs("smoking", Smoking!Next)
    \/ Runs("pillow", Pillow!Next)
    \/ Runs("pipes", Pipes!Next)
    \/ Runs("stack", Stack!Next)
    \/ Runs("ring", Ring!Next)
    \/ Runs("mailed", Mailed!Next)
    \/ Runs("grant", Grant!Next)
    \/ Runs("undone", Undone!Next)
    \/ Runs("detect", Detect!Next)
    \/ Runs("cpu", Cpu!Next)
    \/ Runs("timed", Timed!Next)
    \/ Runs("fcfs", Fcfs!Next)
    \/ Runs("even", Even!Next)
    \/ Runs("uneven", Uneven!Next)
    \/ Runs("levels", Levels!Next)
    \/ Runs("paths", Paths!Next)
    \/ Runs("means", Means!Next)
    \/ Runs("cube", Cube!Next)
    \/ Runs("waiting", Waiting!Next)
    \/ Runs("asking", Asking!Next)
    \/ Runs("ready", Ready!Next)
    \/ Runs("ruling", Ruling!Next)
    \/ Runs("saving", Saving!Next)
    \/ Runs("cal", Cal!Next)
    \/ Runs("mode", Mode!Next)
    \/ Runs("later", Later!Next)
    \/ Runs("trees", Trees!Next)
    \/ Runs("daemon", Daemon!Next)
    \/ (Finished \/ Stopped) /\ UNCHANGED allVars

(* The threads are scheduled by the operating system.  The readers and the *)
(* smokers go round for ever if nobody else moves, so that there each      *)
(* thread needs its turn; the other programs take finitely many steps.     *)
FairSpec ==
    /\ Init /\ [][Next]_allVars
    /\ WF_allVars(Next)
    /\ \A t \in Readers : WF_allVars(Runs("rwl", Rwl!Reader(t)))
    /\ WF_allVars(Runs("rwl", Rwl!Writer(OneWriter)))
    /\ WF_allVars(Runs("smoking", Smoking!putdown))

-----------------------------------------------------------------------------
(* Neighbours never eat together (philosopher.c, diningPhilosophers.c,     *)
(* chopsticks.c); readers and writers do not disturb each other            *)
(* (reader-writer.c, readerWriter.c); the barber cuts the hair of the one  *)
(* customer in his chair (sleeping_barber.c).                              *)
KeptApart ==
    /\ program = "table" => Table!NeighboursApart
    /\ program = "monitor" => Monitor!NeighboursApart
    /\ program = "rwl" => Rwl!ReadersUndisturbed
    /\ program = "counted" => Counted!Apart
    /\ program = "pillow" => Pillow!InTheChair

(* No wakeup is lost: who sleeps will be looked after (chopsticks.c lines  *)
(* 52-62, reader-writer.c lines 151-195, smoker.c lines 123-177,           *)
(* consumer_producer.c lines 15-44).                                       *)
NobodyOversleeps ==
    /\ program = "monitor" => Monitor!NobodyForgotten
    /\ program = "rwl" => Rwl!NobodyOversleeps
    /\ program = "smoking" => Smoking!NobodyOversleeps
    /\ program = "ring" => Ring!NobodyOversleeps

(* Every product is delivered once (producerConsumer.c,                    *)
(* consumer_producer.c, proca.c); free seats are counted right             *)
(* (simple-barber.c, sleepingBarber.c).                                    *)
NothingLost ==
    /\ program = "stack" => Stack!NothingLost
    /\ program = "ring" => Ring!InOrder
    /\ program = "mailed" => Mailed!NothingLost
    /\ program = "pipes" => Pipes!SeatsCounted
    /\ program = "ready" => Ready!SeatsCounted

(* The safety test says safe exactly when all processes can end in some    *)
(* order (safe, safety), and cal's, which returns what an ended process had*)
(* to one kind only, as far as that allows; between requests the state is  *)
(* as safe as the last test said, and no resource gets lost in a request   *)
(* (grant, request).                                                       *)
SafeExactly ==
    /\ program = "grant" => Grant!SafeExactly /\ Grant!GrantedIsSafe /\ Grant!NothingLost
    /\ program = "undone" => Undone!SafeExactly /\ Undone!GrantedIsSafe /\ Undone!NothingLost
    /\ program = "detect" => Detect!SafeExactly

(* The waiting times of the five simulations are the times waited, and     *)
(* nothing waits less than SJF.c and SRTF.c let the processes wait.        *)
WaitsExact == program = "cpu" => Cpu!WaitsExact /\ Cpu!LeastWaiting

(* No thread gets out of the queue before it has ended (mythread_rr.c,     *)
(* mythread.c), and of two queued threads none has had two turns more      *)
(* (roundrobin).                                                           *)
NobodyDropped ==
    /\ program = "timed" => Timed!NobodyDropped /\ Timed!TurnsEven
    /\ program = "fcfs" => Fcfs!NobodyDropped

(* The itemsets that are reported are the frequent ones (DIC.java,         *)
(* newalgo.java, partitioning.java, tree.java); the cells of the iceberg   *)
(* are the frequent ones it looks at (BUCK.java); the clusters             *)
(* k_means.java ends with are those their own means give.                  *)
MinedExactly ==
    /\ program = "even" => Even!FrequentConfirmed
    /\ program = "uneven" => Uneven!FrequentConfirmed
    /\ program = "levels" => Levels!FrequentFound
    /\ program = "paths" => Paths!FrequentFound
    /\ program = "cube" => Cube!IcebergExact
    /\ program = "means" => Means!Settled

(* The rules of algo.java and AssociationRules.java are those of the       *)
(* frequent itemsets, with their confidence.                               *)
RulesExact == program = "ruling" => Ruling!RulesExact

(* Decision trees (main.cpp) have learnt their training data.              *)
TrainedExactly == program = "trees" => Trees!TrainedExactly

(* Commands in the foreground run one at a time, and each gets its own     *)
(* line (final_shell.c lines 105-156, kshell.c lines 43-68 and 156-218).   *)
CommandsApart ==
    /\ program = "waiting" => Waiting!CommandsApart
    /\ program = "asking" => Asking!CommandsApart

(* Commands get the files they were given, and the shell its terminal back *)
(* (OS-ane/shell.c lines 31-70).                                           *)
TerminalBack == program = "saving" => Saving!TerminalBack

(* The printed months follow each other day by day (cal.c).                *)
CalendarRunsOn == program = "cal" => Cal!CalendarRunsOn

(* Files get the modes that were asked for, with what was in the umask     *)
(* when chmod was started left alone; later files only if the mode is      *)
(* absolute or names its classes (chmod.c).                                *)
ModesAsAsked == program = "mode" => Mode!ModesAsAsked

(* A job of at is for the first moment that fits (at.c lines 54-88).       *)
FirstComing == program = "later" => Later!FirstComing

(* A dead child and a job of at are not forgotten by cron, and from when   *)
(* it asks for the time it does not sleep past the next minute's first     *)
(* second (cron.c lines 356-481).                                          *)
NothingForgotten == program = "daemon" => Daemon!NothingForgotten

(* No deadlock and no endless loop: every program comes to its end, or     *)
(* crashes (OS-ane/shell.c on "cat >", main.cpp on an empty last line of   *)
(* its test data), but for those that need not end: philosopher.c with its *)
(* Room off, whose comment says that it deadlocks, sleepingBarber.c, some  *)
(* of whose customers can be stuck for ever, and cron.  The end is that of *)
(* all threads or processes, with three exceptions.  The barber of simple- *)
(* barber.c may wait on for customers who gave up; in the thread libraries *)
(* it is the loop of main that ends, which has dropped some threads;       *)
(* kshell.c waits for one more line.                                       *)
Finishes == ~Endless => <>(Finished \/ Crashed)

(* chmod.c line 33, "Apply the mode to all files listed", and line 81,     *)
(* "get the umasked bits": each file gets the mode it would get if it were *)
(* the only one (symbolic).                                                *)
EachAsIfAlone == program = "mode" => Mode!EachAsIfAlone
=================================================================================
