------------------------------- MODULE CronProofs -------------------------------
(***************************************************************************)
(* Type correctness of Cron, that no fixed-time job is skipped or repeated *)
(* short of a large change of the clock, that wildcard jobs run at every   *)
(* wakeup and that nothing runs early, for all limits, horizons and        *)
(* numbers of changes.                                                     *)
(***************************************************************************)
EXTENDS Cron, TLAPS

(* FixedOnce is not inductive alone: catching up must stop at the time it  *)
(* was started for, and that time must have been shown.                    *)
Bounds ==
    /\ clock <= latest /\ timeRunning <= latest /\ virtualTime <= latest
    /\ since <= virtualTime
    /\ at = "medium" => virtualTime < timeRunning

IInv == TypeOK /\ Bounds /\ FixedOnce

LEMMA InitIInv == Init => IInv
  BY CronAssumption DEF Init, IInv, TypeOK, Bounds, FixedOnce, Minutes

LEMMA ShowsStep ==
    ASSUME IInv, NEW t \in Minutes, Shows(t), jumps' \in Nat
    PROVE  IInv'
  BY CronAssumption DEF IInv, TypeOK, Bounds, FixedOnce, Minutes, Shows

LEMMA OnTimeStep == ASSUME IInv, OnTime PROVE IInv'
  <1>1. TypeOK'
    <2>1. wild' \in [Minutes -> Nat] /\ fixed' \in [Minutes -> Nat]
      BY DEF IInv, TypeOK, OnTime, RunWild, RunFixed
    <2> QED
      BY <2>1 DEF IInv, TypeOK, OnTime, Wake, clockVars
  <1>2. Bounds'
    BY CronAssumption
    DEF IInv, TypeOK, Bounds, Minutes, OnTime, Wake, clockVars, timeDiff
  <1>3. FixedOnce'
    BY CronAssumption
    DEF IInv, TypeOK, Bounds, FixedOnce, Minutes, OnTime, Wake, clockVars,
        timeDiff, RunFixed, Skipped
  <1> QED BY <1>1, <1>2, <1>3 DEF IInv

LEMMA MediumStep == ASSUME IInv, MediumJump PROVE IInv'
  BY CronAssumption
  DEF IInv, TypeOK, Bounds, FixedOnce, Minutes, MediumJump, Wake, clockVars,
      timeDiff, RunWild

LEMMA NegativeStep == ASSUME IInv, Negative PROVE IInv'
  <1>1. at' = "top" /\ virtualTime' = virtualTime
    BY DEF Negative, Wake
  <1>2. TypeOK' /\ FixedOnce'
    BY CronAssumption
    DEF IInv, TypeOK, FixedOnce, Minutes, Negative, Wake, clockVars, RunWild
  <1>3. Bounds'
    BY <1>1 DEF IInv, Bounds, Negative, Wake, clockVars
  <1> QED BY <1>2, <1>3 DEF IInv

LEMMA LargeStep == ASSUME IInv, LargeJump PROVE IInv'
  BY CronAssumption
  DEF IInv, TypeOK, Bounds, FixedOnce, Minutes, LargeJump, Wake, clockVars

LEMMA CatchUpStep == ASSUME IInv, CatchUp PROVE IInv'
  <1>1. virtualTime' = virtualTime + 1 /\ virtualTime' <= timeRunning
    BY CronAssumption DEF IInv, TypeOK, Bounds, Minutes, CatchUp
  <1>2. TypeOK'
    BY <1>1, CronAssumption
    DEF IInv, TypeOK, Bounds, Minutes, CatchUp, clockVars, RunFixed
  <1>3. Bounds'
    BY <1>1, CronAssumption
    DEF IInv, TypeOK, Bounds, Minutes, CatchUp, clockVars
  <1>4. FixedOnce'
    BY <1>1, CronAssumption
    DEF IInv, TypeOK, Bounds, FixedOnce, Minutes, CatchUp, clockVars, RunFixed
  <1> QED BY <1>2, <1>3, <1>4 DEF IInv

LEMMA NextIInv == IInv /\ [Next]_vars => IInv'
  <1> SUFFICES ASSUME IInv, [Next]_vars PROVE IInv'
    OBVIOUS
  <1>1. CASE Tick
    <2>1. clock + 1 \in Minutes /\ Shows(clock + 1) /\ jumps' \in Nat
      BY <1>1, CronAssumption DEF Tick, IInv, TypeOK, Minutes
    <2> QED BY <2>1, ShowsStep
  <1>2. CASE Changed
    <2>1. PICK t \in Minutes : Shows(t)
      BY <1>2 DEF Changed
    <2>2. jumps' \in Nat
      BY <1>2 DEF Changed, IInv, TypeOK
    <2> QED BY <2>1, <2>2, ShowsStep
  <1>3. CASE OnTime
    BY <1>3, OnTimeStep
  <1>4. CASE MediumJump
    BY <1>4, MediumStep
  <1>5. CASE Negative
    BY <1>5, NegativeStep
  <1>6. CASE LargeJump
    BY <1>6, LargeStep
  <1>7. CASE CatchUp
    BY <1>7, CatchUpStep
  <1>8. CASE UNCHANGED vars
    BY <1>8 DEF IInv, TypeOK, Bounds, FixedOnce, vars, clockVars
  <1> QED
    BY <1>1, <1>2, <1>3, <1>4, <1>5, <1>6, <1>7, <1>8 DEF Next, Ended

(* Cron's variables stay within their types, and virtual time within what  *)
(* the clock can show (set_time, lines 335-351).                           *)
THEOREM TypeCorrect == Spec => []TypeOK
  <1>1. IInv => TypeOK
    BY DEF IInv
  <1> QED BY <1>1, InitIInv, NextIInv, PTL DEF Spec

(* The main loop of cron.c, lines 143-245: short of a large change of the  *)
(* clock, the fixed-time jobs of every minute of virtual time have run     *)
(* exactly once and no later ones have.                                    *)
THEOREM FixedOnceAlways == Spec => []FixedOnce
  <1>1. IInv => FixedOnce
    BY DEF IInv
  <1> QED BY <1>1, InitIInv, NextIInv, PTL DEF Spec
-----------------------------------------------------------------------------
LEMMA NextWildNow == IInv /\ WildNow /\ [Next]_vars => WildNow'
  <1> SUFFICES ASSUME IInv, WildNow, [Next]_vars PROVE WildNow'
    OBVIOUS
  <1> USE CronAssumption DEF WildNow, IInv, TypeOK, Minutes
  <1>1. CASE Tick
    BY <1>1 DEF Tick, Shows
  <1>2. CASE Changed
    BY <1>2 DEF Changed, Shows
  <1>3. CASE OnTime
    BY <1>3 DEF OnTime, Wake, clockVars, timeDiff, Skipped, RunWild
  <1>4. CASE MediumJump
    BY <1>4 DEF MediumJump, Wake, RunWild
  <1>5. CASE Negative
    BY <1>5 DEF Negative, Wake, RunWild
  <1>6. CASE LargeJump
    BY <1>6 DEF LargeJump, Wake
  <1>7. CASE CatchUp
    BY <1>7 DEF CatchUp
  <1>8. CASE UNCHANGED vars
    BY <1>8 DEF vars
  <1> QED
    BY <1>1, <1>2, <1>3, <1>4, <1>5, <1>6, <1>7, <1>8 DEF Next, Ended

(* The jobs of a minute run when the clock shows it or has shown a later   *)
(* one; virtual time is behind only in or after a catching-up.             *)
LEMMA NextNeverEarly == IInv /\ NeverEarly /\ [Next]_vars => NeverEarly'
  <1> SUFFICES ASSUME IInv, NeverEarly, [Next]_vars PROVE NeverEarly'
    OBVIOUS
  <1> USE CronAssumption DEF NeverEarly, IInv, TypeOK, Bounds, Minutes
  <1>1. ASSUME NEW t \in Minutes, Shows(t) PROVE NeverEarly'
    BY <1>1 DEF Shows
  <1>2. CASE OnTime
    BY <1>2 DEF OnTime, Wake, clockVars, timeDiff, Skipped, RunWild, RunFixed
  <1>3. CASE MediumJump
    BY <1>3 DEF MediumJump, Wake, clockVars, timeDiff, RunWild
  <1>4. CASE Negative
    BY <1>4 DEF Negative, Wake, clockVars, timeDiff, RunWild
  <1>5. CASE LargeJump
    BY <1>5 DEF LargeJump, Wake, clockVars
  <1>6. CASE CatchUp
    BY <1>6 DEF CatchUp, clockVars, RunFixed
  <1>7. CASE UNCHANGED vars
    BY <1>7 DEF vars, clockVars
  <1>8. CASE Tick
    BY <1>1, <1>8 DEF Tick
  <1>9. CASE Changed
    BY <1>1, <1>9 DEF Changed
  <1> QED
    BY <1>2, <1>3, <1>4, <1>5, <1>6, <1>7, <1>8, <1>9 DEF Next, Ended

(* Lines 201-202 of cron.c: whenever cron has woken up, the wildcard jobs  *)
(* of the present minute have run.                                         *)
THEOREM WildNowAlways == Spec => []WildNow
  <1>1. Init => WildNow
    BY DEF Init, WildNow
  <1> QED BY <1>1, InitIInv, NextIInv, NextWildNow, PTL DEF Spec

(* No job runs before a clock has shown its minute, and virtual time lags  *)
(* behind only by a catching-up that goes on or was left early.            *)
THEOREM NeverEarlyAlways == Spec => []NeverEarly
  <1>1. Init => NeverEarly
    BY CronAssumption DEF Init, NeverEarly, Minutes
  <1> QED BY <1>1, InitIInv, NextIInv, NextNeverEarly, PTL DEF Spec
=================================================================================
