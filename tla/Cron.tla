---------------------------------- MODULE Cron ----------------------------------
(***************************************************************************)
(* The main loop of sudh/cmds/cron.c under a clock that people and the     *)
(* summer time change.  Clocks count minutes.  find_jobs for a minute is   *)
(* modelled by counting how often the jobs of that minute have been run:   *)
(* those with a star in minute or hour (wild) and those without (fixed);   *)
(* a large change of the clock starts the counts afresh.  Running jobs     *)
(* takes time, and so does sleeping: the clock may move between any two    *)
(* steps.                                                                  *)
(***************************************************************************)
EXTENDS Integers

CONSTANTS
    Small,        \* 5: more minutes than this are a jump
    Large,        \* 3*MINUTE_COUNT: more minutes than this are a new time
    Horizon,      \* bound: the clock shows 0 .. Horizon
    Start,        \* what it shows when cron starts
    MaxJumps,     \* bound: how often the clock is changed
    Back          \* may it be put back?

ASSUME CronAssumption ==
    /\ Small \in Nat /\ Large \in Nat /\ 1 <= Small /\ Small < Large
    /\ Horizon \in Nat /\ Start \in 0 .. Horizon /\ MaxJumps \in Nat
    /\ Back \in BOOLEAN

VARIABLES
    clock,                                 \* what set_time would read
    latest, jumps,                         \* the latest time it has shown
    timeRunning, virtualTime, clockTime,
    at,                                    \* where main is
    wild, fixed,                           \* since the last large change
    since                                  \* the minute before they began

clockVars == <<clock, latest, jumps>>
vars == <<clockVars, timeRunning, virtualTime, clockTime, at, wild, fixed, since>>

Minutes == 0 .. Horizon

Init ==
    /\ clock = Start /\ latest = Start /\ jumps = 0
    /\ timeRunning = Start /\ virtualTime = Start /\ clockTime = Start
    /\ at = "top"
    /\ wild = [m \in Minutes |-> 0] /\ fixed = [m \in Minutes |-> 0]
    /\ since = Start

-----------------------------------------------------------------------------
(* The clock, outside cron.                                                *)
Shows(t) ==
    /\ clock' = t
    /\ latest' = IF t > latest THEN t ELSE latest
    /\ UNCHANGED <<timeRunning, virtualTime, clockTime, at, wild, fixed, since>>
Tick == clock < Horizon /\ Shows(clock + 1) /\ UNCHANGED jumps
Changed ==
    /\ jumps < MaxJumps /\ jumps' = jumps + 1
    /\ \E t \in Minutes : (Back \/ t > clock) /\ Shows(t)

-----------------------------------------------------------------------------
(* find_jobs for the minutes of a set, each once.                          *)
RunWild(M)  == wild' = [m \in Minutes |-> IF m \in M THEN wild[m] + 1 ELSE wild[m]]
RunFixed(M) == fixed' = [m \in Minutes |-> IF m \in M THEN fixed[m] + 1 ELSE fixed[m]]

(* The top of the loop: sleep until the clock shows another minute.        *)
timeDiff == clock - virtualTime
Wake ==
    /\ at = "top" /\ clock # timeRunning
    /\ clockTime' = clock /\ timeRunning' = clock
    /\ UNCHANGED clockVars

Skipped == virtualTime + 1 .. clock
JumpToNow ==                                                 \* faulty variant
    /\ Wake /\ timeDiff \in 1 .. Small
    /\ virtualTime' = clock
    /\ RunWild({clock}) /\ RunFixed({clock})
    /\ UNCHANGED <<at, since>>
OnTime ==
    /\ Wake /\ timeDiff \in 1 .. Small
    /\ virtualTime' = clock
    /\ RunWild(Skipped) /\ RunFixed(Skipped)
    /\ UNCHANGED <<at, since>>

LateWild ==                                                  \* faulty variant
    /\ Wake /\ timeDiff \in Small + 1 .. Large
    /\ at' = "medium"
    /\ UNCHANGED <<virtualTime, wild, fixed, since>>
MediumJump ==
    /\ Wake /\ timeDiff \in Small + 1 .. Large
    /\ at' = "medium"
    /\ RunWild({clock})
    /\ UNCHANGED <<virtualTime, fixed, since>>

RepeatAll ==                                                 \* faulty variant
    /\ Wake /\ timeDiff \in -Large .. 0
    /\ RunWild({clock}) /\ RunFixed({clock})
    /\ UNCHANGED <<virtualTime, at, since>>
Negative ==
    /\ Wake /\ timeDiff \in -Large .. 0
    /\ RunWild({clock})
    /\ UNCHANGED <<virtualTime, fixed, at, since>>

LargeJump ==
    /\ Wake /\ timeDiff \notin -Large .. Large
    /\ virtualTime' = clock
    /\ wild' = [m \in Minutes |-> IF m = clock THEN 1 ELSE 0]
    /\ fixed' = [m \in Minutes |-> IF m = clock THEN 1 ELSE 0]
    /\ since' = clock - 1
    /\ UNCHANGED at

(* The fixed-time jobs of one missed minute; the loop is left as soon as   *)
(* the clock shows another minute.                                         *)
NoStop ==                                                    \* faulty variant
    /\ at = "medium"
    /\ virtualTime' = virtualTime + 1
    /\ RunFixed({virtualTime'})
    /\ clockTime' = clock
    /\ at' = IF clock = timeRunning THEN "medium" ELSE "top"
    /\ UNCHANGED <<clockVars, timeRunning, wild, since>>
CatchUp ==
    /\ at = "medium"
    /\ virtualTime' = virtualTime + 1
    /\ RunFixed({virtualTime'})
    /\ clockTime' = clock
    /\ at' = IF virtualTime' < timeRunning /\ clock = timeRunning
             THEN "medium" ELSE "top"
    /\ UNCHANGED <<clockVars, timeRunning, wild, since>>

Ended == clock = Horizon /\ at = "top" /\ clock = timeRunning /\ UNCHANGED vars

Next ==
    \/ Tick \/ Changed
    \/ OnTime \/ MediumJump \/ Negative \/ LargeJump \/ CatchUp
    \/ Ended

Spec == Init /\ [][Next]_vars

-----------------------------------------------------------------------------
(* Type invariant; virtual time never leaves what clocks have shown.       *)
TypeOK ==
    /\ clock \in Minutes /\ clockTime \in Minutes /\ timeRunning \in Minutes
    /\ virtualTime \in Minutes /\ latest \in Minutes /\ jumps \in Nat
    /\ since \in -1 .. Horizon
    /\ at \in {"top", "medium"}
    /\ wild \in [Minutes -> Nat] /\ fixed \in [Minutes -> Nat]

(* Lines 136-139, 194-203 and 223-229: since the start or the last large   *)
(* change, the fixed-time jobs of every minute up to virtualTime have run  *)
(* exactly once, however the clock was changed, and no others.             *)
FixedOnce ==
    \A m \in Minutes :
       fixed[m] = IF m \in since + 1 .. virtualTime THEN 1 ELSE 0

(* Lines 201-202, "so that wildcard jobs have a chance to run": whenever   *)
(* cron has woken up, the wildcard jobs of the present minute have run.    *)
WildNow == timeRunning # Start => wild[timeRunning] > 0

(* No job runs before a clock has shown its minute, and virtual time lags  *)
(* behind the time of the last wakeup only by a catching-up left early.    *)
NeverEarly ==
    /\ \A m \in Minutes : wild[m] + fixed[m] > 0 => m <= latest
    /\ virtualTime < timeRunning =>
         at = "medium" \/ clockTime # timeRunning

(* Lines 197-198, "run wildcard jobs once": as long as the clock is never  *)
(* put back, the wildcard jobs of no minute run twice.                     *)
WildOnce == \A m \in Minutes : wild[m] <= 1
=================================================================================
