---------------------------- MODULE ClassicsProofs ----------------------------
(***************************************************************************)
(* Theorems about Classics, put together from what IpcProofs, SoloProofs   *)
(* and BankersProofs show of each program: while one program runs no other *)
(* takes a step.                                                           *)
(***************************************************************************)
EXTENDS Classics, IpcProofs, SoloProofs

-----------------------------------------------------------------------------
(* All programs together.                                                  *)
ClassicsInv ==
    /\ program = "table" => TableInv
    /\ program = "monitor" => MonitorInv
    /\ program = "rwl" => RwlInv
    /\ program = "counted" => CountedInv
    /\ program = "pillow" => PillowInv
    /\ program = "smoking" => SmokingInv
    /\ program = "ring" => RingInv /\ RingOrder
    /\ program = "stack" => StackInv
    /\ program = "mailed" => MailedInv
    /\ program = "pipes" => PipesInv
    /\ program = "ready" => ReadyInv
    /\ program = "daemon" => DaemonInv
    /\ program = "waiting" => WaitingInv
    /\ program = "asking" => AskingInv
    /\ program = "saving" => SavingInv
    /\ program = "timed" => TimedInv
    /\ program = "fcfs" => FcfsInv
    /\ program = "grant" => GrantProofs!BankInv
    /\ program = "undone" => UndoneProofs!BankInv
    /\ program = "detect" => DetectProofs!BankInv
    /\ program = "later" => AtInv
    /\ program = "cal" => CalInv
    /\ program = "mode" => ModeInv

LEMMA ClassicsStart == Init => ClassicsInv
BY TableStart, MonitorStart, RwlStart, CountedStart, PillowStart, SmokingStart, RingStart,
   StackStart, MailedStart, PipesStart, ReadyStart, DaemonStart, RingOrderStart,
   WaitingStart, AskingStart, SavingStart, TimedStart, FcfsStart,
   GrantBegins, UndoneBegins, DetectBegins, AtBegins, CalBegins, ModeBegins
   DEF Init, ClassicsInv

(* A step is one of the program that runs, or leaves its variables alone.  *)
LEMMA OneProgramRuns ==
    ASSUME [Next]_allVars
    PROVE  /\ program' = program
           /\ program = "table" => Table!Next \/ UNCHANGED vars
           /\ program = "monitor" => Monitor!Next \/ UNCHANGED vars
           /\ program = "rwl" => Rwl!Next \/ UNCHANGED vars
           /\ program = "counted" => Counted!Next \/ UNCHANGED vars
           /\ program = "pillow" => Pillow!Next \/ UNCHANGED vars
           /\ program = "smoking" => Smoking!Next \/ UNCHANGED vars
           /\ program = "ring" => Ring!Next \/ UNCHANGED vars
           /\ program = "stack" => Stack!Next \/ UNCHANGED vars
           /\ program = "mailed" => Mailed!Next \/ UNCHANGED vars
           /\ program = "pipes" => Pipes!Next \/ UNCHANGED vars
           /\ program = "ready" => Ready!Next \/ UNCHANGED vars
           /\ program = "daemon" => Daemon!Next \/ UNCHANGED vars
           /\ program = "waiting" => Waiting!Next \/ UNCHANGED vars
           /\ program = "asking" => Asking!Next \/ UNCHANGED vars
           /\ program = "saving" => Saving!Next \/ UNCHANGED vars
           /\ program = "timed" => Timed!Next \/ UNCHANGED vars
           /\ program = "fcfs" => Fcfs!Next \/ UNCHANGED vars
           /\ program = "grant" => Grant!Next \/ UNCHANGED vars
           /\ program = "undone" => Undone!Next \/ UNCHANGED vars
           /\ program = "detect" => Detect!Next \/ UNCHANGED vars
           /\ program = "later" => Later!Next \/ UNCHANGED vars
           /\ program = "cal" => Cal!Next \/ UNCHANGED vars
           /\ program = "mode" => Mode!Next \/ UNCHANGED vars
BY DEF Next, Runs, allVars

LEMMA ClassicsStep == ClassicsInv /\ [Next]_allVars => ClassicsInv'
<1> SUFFICES ASSUME ClassicsInv, [Next]_allVars PROVE ClassicsInv'
  OBVIOUS
<1>1. program = "table" => TableInv'
  BY OneProgramRuns, TableStep, TableRests DEF ClassicsInv
<1>2. program = "monitor" => MonitorInv'
  BY OneProgramRuns, MonitorStep, MonitorRests DEF ClassicsInv
<1>3. program = "rwl" => RwlInv'
  BY OneProgramRuns, RwlStep, RwlRests DEF ClassicsInv
<1>4. program = "counted" => CountedInv'
  BY OneProgramRuns, CountedStep, CountedRests DEF ClassicsInv
<1>5. program = "pillow" => PillowInv'
  BY OneProgramRuns, PillowStep, PillowRests DEF ClassicsInv
<1>6. program = "smoking" => SmokingInv'
  BY OneProgramRuns, SmokingStep, SmokingRests DEF ClassicsInv
<1>7. program = "ring" => RingInv' /\ RingOrder'
  BY OneProgramRuns, RingStep, RingRests, RingOrderStep, RingOrderRests DEF ClassicsInv
<1>8. program = "stack" => StackInv'
  BY OneProgramRuns, StackStep, StackRests DEF ClassicsInv
<1>9. program = "mailed" => MailedInv'
  BY OneProgramRuns, MailedStep, MailedRests DEF ClassicsInv
<1>10. program = "pipes" => PipesInv'
  BY OneProgramRuns, PipesStep, PipesRests DEF ClassicsInv
<1>11. program = "ready" => ReadyInv'
  BY OneProgramRuns, ReadyStep, ReadyRests DEF ClassicsInv
<1>12. program = "daemon" => DaemonInv'
  BY OneProgramRuns, DaemonStep, DaemonRests DEF ClassicsInv
<1>13. program = "waiting" => WaitingInv'
  BY OneProgramRuns, WaitingStep, WaitingRests DEF ClassicsInv
<1>14. program = "asking" => AskingInv'
  BY OneProgramRuns, AskingStep, AskingRests DEF ClassicsInv
<1>15. program = "saving" => SavingInv'
  BY OneProgramRuns, SavingStep, SavingRests DEF ClassicsInv
<1>16. program = "timed" => TimedInv'
  BY OneProgramRuns, TimedStep, TimedRests DEF ClassicsInv
<1>17. program = "fcfs" => FcfsInv'
  BY OneProgramRuns, FcfsStep, FcfsRests DEF ClassicsInv
<1>18. program = "grant" => GrantProofs!BankInv'
  BY OneProgramRuns, GrantSteps DEF ClassicsInv
<1>19. program = "undone" => UndoneProofs!BankInv'
  BY OneProgramRuns, UndoneSteps DEF ClassicsInv
<1>20. program = "detect" => DetectProofs!BankInv'
  BY OneProgramRuns, DetectSteps DEF ClassicsInv
<1>21. program = "later" => AtInv'
  BY OneProgramRuns, AtGoesOn DEF ClassicsInv
<1>22. program = "cal" => CalInv'
  BY OneProgramRuns, CalStep DEF ClassicsInv
<1>23. program = "mode" => ModeInv'
  BY OneProgramRuns, ModeStep DEF ClassicsInv
<1> QED
  BY OneProgramRuns, <1>1, <1>2, <1>3, <1>4, <1>5, <1>6, <1>7, <1>8, <1>9, <1>10, <1>11, <1>12,
     <1>13, <1>14, <1>15, <1>16, <1>17, <1>18, <1>19, <1>20, <1>21, <1>22, <1>23
     DEF ClassicsInv

LEMMA ClassicsAlways == FairSpec => []ClassicsInv
<1>1. FairSpec => Init /\ [][Next]_allVars
  BY PTL DEF FairSpec
<1> QED
  BY <1>1, ClassicsStart, ClassicsStep, PTL

(* Neighbours never eat together, readers and writers leave each other     *)
(* alone, and one customer is in the barber's chair, in philosopher.c with *)
(* its Room or without, diningPhilosophers.c, chopsticks.c,                *)
(* reader-writer.c, readerWriter.c and sleeping_barber.c, whatever the     *)
(* number of threads.                                                      *)
THEOREM KeptApartAlways == FairSpec => []KeptApart
<1>1. ClassicsInv => KeptApart
  BY TableApart, MonitorApart, RwlApart, CountedApart, PillowChair DEF ClassicsInv, KeptApart
<1> QED
  BY <1>1, ClassicsAlways, PTL

(* Nobody sleeps in pthread_cond_wait but for a reason: somebody is there  *)
(* who will wake him, in chopsticks.c, reader-writer.c, smoker.c and       *)
(* consumer_producer.c, whatever the number of threads.                    *)
THEOREM NobodyOversleepsAlways == FairSpec => []NobodyOversleeps
<1>1. RingInv => Ring!NobodyOversleeps
  BY DEF RingInv
<1>2. ClassicsInv => NobodyOversleeps
  BY <1>1, MonitorApart, RwlApart, SmokingAwake DEF ClassicsInv, NobodyOversleeps
<1> QED
  BY <1>2, ClassicsAlways, PTL

(* Every product is delivered once and in order, from the stack of         *)
(* producerConsumer.c, the ring of consumer_producer.c and the queue of    *)
(* proca.c, whatever their size; the free seats of simple-barber.c and     *)
(* sleepingBarber.c are counted right, whatever the number of customers.   *)
THEOREM NothingLostAlways == FairSpec => []NothingLost
<1>1. ClassicsInv => NothingLost
  BY StackLosesNothing, RingInOrder, MailedLosesNothing, PipesSeats, ReadySeats
     DEF ClassicsInv, NothingLost
<1> QED
  BY <1>1, ClassicsAlways, PTL

(* cron sees to every dead child and every job of at, and what it sleeps,  *)
(* counted from when it last asked for the time, does not go past the      *)
(* first second of the next minute (cron_sleep, cron.c lines 356-481),     *)
(* however long a minute is and whenever the clock ticks.                  *)
THEOREM NothingForgottenAlways == FairSpec => []NothingForgotten
<1>1. ClassicsInv => NothingForgotten
  BY DaemonForgetsNothing DEF ClassicsInv, NothingForgotten
<1> QED
  BY <1>1, ClassicsAlways, PTL

(* final_shell.c reads no line before the last command has been reaped,    *)
(* and in it and in kshell.c a command gets its own line (final_shell.c    *)
(* lines 105-156, kshell.c lines 43-68 and 156-218), whatever is typed,    *)
(* for any number of lines.                                                *)
THEOREM CommandsApartAlways == FairSpec => []CommandsApart
<1>1. ClassicsInv => CommandsApart
  BY CommandsWait, QueriesApart DEF ClassicsInv, CommandsApart
<1> QED
  BY <1>1, ClassicsAlways, PTL

(* While no fork failed and no descriptor was wanting, a command of        *)
(* OS-ane/shell.c gets the files its line names and the shell its terminal *)
(* back (lines 31-70), whatever is typed and however many descriptors      *)
(* there are.                                                              *)
THEOREM TerminalBackAlways == FairSpec => []TerminalBack
<1>1. ClassicsInv => TerminalBack
  BY TerminalReturns DEF ClassicsInv, TerminalBack
<1> QED
  BY <1>1, ClassicsAlways, PTL

(* No thread of mythread_rr.c whose completed was 0 at first, and none of  *)
(* mythread.c, leaves the run queue before it has done its work, and the   *)
(* turns of two queued threads differ by one at most, for any number of    *)
(* threads, any work and any queue that has a place for each of them.      *)
THEOREM NobodyDroppedAlways == FairSpec => []NobodyDropped
<1>1. ClassicsInv => NobodyDropped
  BY TimedKeeps, FcfsKeeps DEF ClassicsInv, NobodyDropped
<1> QED
  BY <1>1, ClassicsAlways, PTL

(* The safety test of bankers-deadlock-avoid.c and banker_request.c says   *)
(* safe exactly when all processes can end in some order.  That of         *)
(* deadlockdetectBanker.c, which returns all to one column, says so only   *)
(* if they can when nobody holds more of the last kind than of another,    *)
(* and always when they can if nobody holds less of it.  Between requests  *)
(* the state is as safe as the last test said, what banker_request.c       *)
(* refuses leaves no trace, and no resource gets lost in a request: for    *)
(* any number of processes, kinds of resources and requests, and any       *)
(* number of each kind.                                                    *)
THEOREM SafeExactlyAlways == FairSpec => []SafeExactly
<1>1. ClassicsInv => SafeExactly
  BY GrantRight, UndoneRight, DetectRight DEF ClassicsInv, SafeExactly
<1> QED
  BY <1>1, ClassicsAlways, PTL

(* A job of at is for the first moment after now that has the time asked   *)
(* for, and the date if there is one (at.c lines 54-88), from any minute   *)
(* of 1901 to 2098 and for any time and date.                              *)
THEOREM FirstComingAlways == FairSpec => []FirstComing
<1>1. ClassicsInv => FirstComing
  BY DEF ClassicsInv, FirstComing, AtInv
<1> QED
  BY <1>1, ClassicsAlways, PTL

(* Every month cal prints has the dates that month had and no others, in   *)
(* order, and its first one stands under the day of the week that follows  *)
(* the last one of the month before, back to January 1 of the year 1: for  *)
(* every year and month and any arguments (cal.c lines 135-280).           *)
THEOREM CalendarRunsOnAlways == FairSpec => []CalendarRunsOn
<1>1. ClassicsInv => CalendarRunsOn
  BY CalGoesOn DEF ClassicsInv, CalendarRunsOn
<1> QED
  BY <1>1, ClassicsAlways, PTL

(* chmod leaves every file with the mode that the argument asks for bit by *)
(* bit of those seen to, also when it stops at one that is not there or    *)
(* may not be changed: what the umask held when it started is left alone   *)
(* where no class is named.  That is shown for all files if the mode is    *)
(* absolute or names its classes everywhere, and else for a file that is   *)
(* not listed after the first place (chmod.c lines 22-57 and 67-197): for  *)
(* any argument, any files, modes and umask.                               *)
THEOREM ModesAsAskedAlways == FairSpec => []ModesAsAsked
<1>1. ClassicsInv => ModesAsAsked
  BY ModesMeant DEF ClassicsInv, ModesAsAsked
<1> QED
  BY <1>1, ClassicsAlways, PTL
=============================================================================
