------------------------------- MODULE CronSleep -------------------------------
(***************************************************************************)
(* The other half of the main loop of sudh/cmds/cron.c: cron_sleep with    *)
(* its select, got_sigchld with its handler, the reaper, the poke of the   *)
(* at command.  Cron has the clocks and the jobs that are due; here a      *)
(* minute has SECONDS seconds, the clock only goes on, and the jobs are    *)
(* those of one minute.  A child dies, and its signal sets the flag,       *)
(* between any two steps of main; in select it ends the sleep.  got_sighup *)
(* is treated alike and left out, and so are pokes of the crontab command. *)
(***************************************************************************)
EXTENDS PosixIpc

CONSTANTS
    SECONDS,       \* 60
    Horizon,       \* bound: the clock goes up to here
    Children       \* bound: the jobs' children

main == "main"
at == "at"
Minute(seconds) == seconds \div SECONDS

Init ==
    /\ pc = [t \in {main, at} |-> IF t = main THEN "sleep" ELSE "idle"]
    /\ sem = <<>> /\ asleep = {}
    /\ mem = [now |-> 0, timeRunning |-> 0, t1 |-> 0, tv |-> 0, since |-> 0,
              got_sigchld |-> FALSE, unborn |-> 1 .. Children, alive |-> {}, zombies |-> {},
              back |-> "adjust", pokes |-> 0, spooled |-> FALSE, known |-> FALSE]

(* The world: time, children that end, a user of at.                      *)
Tick == mem.now < Horizon /\ mem' = [mem EXCEPT !.now = @ + 1] /\ UNCHANGED <<pc, sem, asleep>>

(* What select may leave of its time when it is cut short: on some systems *)
(* what is not over yet, on others all of it.                              *)
Expired == mem.now >= mem.since + mem.tv
Slept == {mem.tv, IF Expired THEN 0 ELSE mem.since + mem.tv - mem.now}
Left == IF pc[main] = "select" THEN Slept ELSE {mem.tv}

Interrupt == IF pc[main] = "select" THEN Go(main, "select", "signals") ELSE UNCHANGED pc
sigchld_handler ==
    /\ \E c \in mem.alive, left \in Left :
         mem' = [mem EXCEPT !.alive = @ \ {c}, !.zombies = @ \cup {c}, !.got_sigchld = TRUE,
                            !.tv = left]
    /\ Interrupt /\ UNCHANGED <<sem, asleep>>

(* The job is there before the poke.  The byte that says what is new, or   *)
(* its absence, makes cron look at the jobs of at.                         *)
Spool ==
    /\ Go(at, "idle", "spooled")
    /\ mem' = [mem EXCEPT !.spooled = TRUE]
    /\ UNCHANGED <<sem, asleep>>
Poke ==
    /\ Go(at, "spooled", "poked")
    /\ mem' = [mem EXCEPT !.pokes = @ + 1]
    /\ UNCHANGED <<sem, asleep>>

-----------------------------------------------------------------------------
(* cron_sleep: one second more than the next minute is away.  For a time   *)
(* in the past, select fails at once.                                      *)
Sleep ==
    /\ Go(main, "sleep", "loop")
    /\ mem' = [mem EXCEPT !.t1 = mem.now,
                          !.tv = (mem.timeRunning + 1) * SECONDS - mem.now + 1]
    /\ UNCHANGED <<sem, asleep>>
Loop ==
    /\ Go(main, "loop", IF mem.tv <= 0 THEN "clock" ELSE "select")
    /\ mem' = [mem EXCEPT !.since = mem.now]
    /\ UNCHANGED <<sem, asleep>>

(* select returns when its time is over, counted from its call, or when    *)
(* somebody has connected.                                                 *)
TimedOut ==
    /\ Expired /\ Go(main, "select", "clock")
    /\ UNCHANGED <<sem, asleep, mem>>
Accept ==
    /\ mem.pokes > 0 /\ Go(main, "select", "adjust")
    /\ \E left \in Left :
         mem' = [mem EXCEPT !.pokes = @ - 1, !.spooled = FALSE, !.known = FALSE, !.tv = left]
    /\ UNCHANGED <<sem, asleep>>

(* The flags, after a signal and once in every minute.                     *)
Flags(from, to) ==
    /\ Go(main, from, IF mem.got_sigchld THEN "reap" ELSE to)
    /\ mem' = [mem EXCEPT !.got_sigchld = FALSE, !.back = to]
    /\ UNCHANGED <<sem, asleep>>
SeeSignals == Flags("signals", "adjust")
SeeFlags == Flags("flags", "load")

(* sigchld_reaper: waitpid until there is no dead child.                   *)
ReapOne ==                                                       \* faulty
    /\ Go(main, "reap", mem.back)
    /\ \E c \in mem.zombies : mem' = [mem EXCEPT !.zombies = @ \ {c}]
    /\ UNCHANGED <<sem, asleep>>
Reap ==
    /\ IF mem.zombies = {} THEN Go(main, "reap", mem.back) /\ UNCHANGED mem
       ELSE /\ pc[main] = "reap" /\ UNCHANGED pc
            /\ \E c \in mem.zombies : mem' = [mem EXCEPT !.zombies = @ \ {c}]
    /\ UNCHANGED <<sem, asleep>>

(* The time since t1 is taken off tv, though select may have done so.      *)
Adjust ==
    /\ Go(main, "adjust", "loop")
    /\ LET rest == mem.tv - (mem.now - mem.t1)
       IN  mem' = [mem EXCEPT !.tv = IF rest < 0 THEN 0 ELSE rest, !.t1 = mem.now]
    /\ UNCHANGED <<sem, asleep>>

(* Back in main: set_time, and to sleep again if it is the same minute.    *)
SetTime ==
    /\ Go(main, "clock", IF Minute(mem.now) = mem.timeRunning THEN "sleep" ELSE "jobs")
    /\ mem' = [mem EXCEPT !.timeRunning = Minute(mem.now)]
    /\ UNCHANGED <<sem, asleep>>
RunJobs ==
    /\ Go(main, "jobs", "flags")
    /\ mem' = [mem EXCEPT !.unborn = {}, !.alive = @ \cup mem.unborn,
                          !.spooled = @ /\ ~mem.known, !.known = FALSE]
    /\ UNCHANGED <<sem, asleep>>
Load ==
    /\ Go(main, "load", "sleep")
    /\ mem' = [mem EXCEPT !.known = mem.spooled]
    /\ UNCHANGED <<sem, asleep>>

Next ==
    \/ Tick \/ sigchld_handler \/ Spool \/ Poke
    \/ Sleep \/ Loop \/ TimedOut \/ Accept \/ SeeSignals \/ SeeFlags \/ Reap \/ Adjust
    \/ SetTime \/ RunJobs \/ Load

(* Cron never ends: it waits for a clock that has come to its bound.       *)
ClockStands ==
    /\ mem.now = Horizon /\ pc[main] = "select" /\ ~Expired
    /\ mem.pokes = 0 /\ ~mem.spooled /\ pc[at] = "poked"

-----------------------------------------------------------------------------
(* Nothing that has happened is forgotten.  A dead child has its flag set, *)
(* or the reaper still finds it; a job of at that cron was poked for does  *)
(* not wait for the next minute; and what cron sleeps, counted from when   *)
(* it last asked for the time, never goes past the first second of the     *)
(* next minute, however often signals and pokes have cut it short.         *)
NothingForgotten ==
    /\ mem.zombies # {} => mem.got_sigchld \/ pc[main] = "reap"
    /\ pc[main] = "select" /\ mem.pokes = 0 /\ pc[at] = "poked" => ~mem.spooled
    /\ pc[main] = "select" =>
         mem.t1 + mem.tv <= (mem.timeRunning + 1) * SECONDS + 1
===============================================================================
