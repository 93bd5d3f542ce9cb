--------------------------------- MODULE AtJob ---------------------------------
(***************************************************************************)
(* OS-master/sudh/cmds/at.c: the checks of the arguments, the choice of    *)
(* year and day, and the job in the spool directory.  Years count from     *)
(* 1900, days of the year from 0, and a time is hour * 100 + minute.  A    *)
(* month or a day that is not a name of a month or a number is 0.          *)
(***************************************************************************)
EXTENDS PosixIpc, Functions, FiniteSetsExt

CONSTANTS
    Years, Days, Now,       \* when the program may be started
    Times, Dates            \* what it may be asked for: times, <<month, day>>

main == 0
LEAPDAY == 59
MAXDAYNR == 365
NODAY == -2
NoDate == <<0, -1>>

getltim(t) == IF t \div 100 <= 23 /\ t % 100 <= 59 THEN t ELSE -1

cumday == <<0, 31, 60, 91, 121, 152, 182, 213, 244, 274, 305, 335>>
dcnt == <<31, 29, 31, 30, 31, 30, 31, 31, 30, 31, 30, 31>>
getlday(m, d) ==
    IF m \in 1 .. 12 /\ d > 0 /\ d <= dcnt[m] THEN d - 1 + cumday[m] ELSE -1

Init ==
    /\ pc = [t \in {main} |-> "args"]
    /\ sem = <<>> /\ asleep = {}
    /\ \E year \in Years, yday \in Days, now \in Now, t \in Times, date \in Dates \cup {NoDate} :
         /\ year % 4 # 0 => yday < MAXDAYNR
         /\ mem = [year |-> year, yday |-> yday, now |-> now, time |-> t, date |-> date,
                   ltim |-> -1, lday |-> NODAY, job |-> <<>>, status |-> -1]

(* It also gives up when the file of commands is not there, or the pipe    *)
(* from pwd cannot be opened.                                              *)
Arguments ==
    LET lday == getlday(mem.date[1], mem.date[2])
    IN  /\ pc[main] = "args"
        /\ \/ /\ getltim(mem.time) # -1 /\ (mem.date = NoDate \/ lday # -1)
              /\ Go(main, "args", "time")
              /\ mem' = [mem EXCEPT !.ltim = getltim(mem.time),
                                    !.lday = IF mem.date = NoDate THEN NODAY ELSE lday]
           \/ Go(main, "args", "end") /\ mem' = [mem EXCEPT !.status = 1]
        /\ UNCHANGED <<sem, asleep>>

(* No date was given: today or tomorrow.                                   *)
NewYear(lday) == (lday = MAXDAYNR /\ mem.year % 4 # 0) \/ lday = MAXDAYNR + 1
Soon ==
    IF mem.ltim > mem.now THEN <<mem.year, mem.yday>>
    ELSE IF NewYear(mem.yday + 1) THEN <<mem.year + 1, 0>>
    ELSE <<mem.year, mem.yday + 1>>

(* lday counts February 29, the days of years without one do not.          *)
Past(lday, yday) == lday < yday \/ (lday = yday /\ mem.ltim <= mem.now)
ShortFrom(lday) == IF lday >= LEAPDAY THEN lday - 1 ELSE lday     \* faulty
Short(lday) == IF lday > LEAPDAY THEN lday - 1 ELSE lday
OnDate(lday) ==
    CASE mem.year % 4 = 0 ->
           IF Past(lday, mem.yday) THEN <<mem.year + 1, Short(lday)>> ELSE <<mem.year, lday>>
      [] mem.year % 4 \in {1, 2} ->
           <<IF Past(Short(lday), mem.yday) THEN mem.year + 1 ELSE mem.year, Short(lday)>>
      [] mem.year % 4 = 3 ->
           IF Past(lday, IF lday > LEAPDAY THEN mem.yday + 1 ELSE mem.yday)
           THEN <<mem.year + 1, lday>> ELSE <<mem.year, Short(lday)>>

Write ==
    /\ Go(main, "time", "end")
    /\ mem' = [mem EXCEPT !.status = 0,
                          !.job = (IF mem.lday = NODAY THEN Soon ELSE OnDate(mem.lday)) \o <<mem.ltim>>]
    /\ UNCHANGED <<sem, asleep>>

(* The file of the job cannot be created.                                  *)
Refused ==
    /\ Go(main, "time", "end")
    /\ mem' = [mem EXCEPT !.status = 1]
    /\ UNCHANGED <<sem, asleep>>

Next == Arguments \/ Write \/ Refused
Finished == pc[main] = "end"

-----------------------------------------------------------------------------
(* Between 1901 and 2099 every fourth year is a leap year.                 *)
InYear(y) == 0 .. IF y % 4 = 0 THEN 365 ELSE 364
Length(y, month) ==
    CASE month = 2 -> (IF y % 4 = 0 THEN 29 ELSE 28)
      [] month \in {4, 6, 9, 11} -> 30
      [] OTHER -> 31
DayOf(y, month, day) == SumFunction([n \in 1 .. month - 1 |-> Length(y, n)]) + day - 1
Later(a, b) == \E k \in DOMAIN a : a[k] > b[k] /\ \A j \in 1 .. k - 1 : a[j] = b[j]

(* The job is for the first moment after now that has the time, and the    *)
(* date if one was given; where there is no February 29, it is March 1.    *)
FirstComing ==
    mem.job # <<>> =>
      LET now == <<mem.year, mem.yday, mem.now>>
          Fits(y, d) == mem.date = NoDate \/ d = DayOf(y, mem.date[1], mem.date[2])
          coming == {m \in UNION {{y} \X InYear(y) \X {mem.time} : y \in mem.year .. mem.year + 1} :
                       Fits(m[1], m[2]) /\ Later(m, now)}
      IN  mem.job \in coming /\ \A m \in coming : m = mem.job \/ Later(m, mem.job)
===============================================================================
