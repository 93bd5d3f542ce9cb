------------------------------- MODULE Calendar -------------------------------
(***************************************************************************)
(* OS-master/sudh/cmds/cal.c.  A step is a call of calendar, which lays    *)
(* out one month; output, which prints the months laid out, belongs to the *)
(* last one.  The page of a month says which date stands in which column   *)
(* (weekday, Sunday is 0) of which line (week).                            *)
(***************************************************************************)
EXTENDS PosixIpc, Functions

CONSTANTS
    Commands,    \* what is typed: sequences of arguments [val, len]
    AnyYear      \* what the register year can hold in main: nobody sets it

main == 0
MONTHS_PER_LINE == 3

(* The day of the week of January 1.                                       *)
EveryCentury(year) ==                                            \* faulty
    (year + 4 + (year + 3) \div 4 + (IF year > 1800 THEN -((year - 1701) \div 100) ELSE 0)
       + (IF year > 1752 THEN 3 ELSE 0)) % 7
Jan1(year) ==
    (year + 4 + (year + 3) \div 4
       + (IF year > 1800 THEN (year - 1601) \div 400 - (year - 1701) \div 100 ELSE 0)
       + (IF year > 1752 THEN 3 ELSE 0)) % 7

(* How far January 1 moves tells what year it is.                          *)
day_month == <<31, 28, 31, 30, 31, 30, 31, 31, 30, 31, 30, 31>>
lengths(year) ==
    LET moved == (Jan1(year + 1) + 7 - Jan1(year)) % 7
    IN  [day_month EXCEPT ![2] = IF moved = 1 THEN 28 ELSE 29,
                          ![9] = IF moved \in {1, 2} THEN 30 ELSE 19]
setmonth(year, month) ==
    LET days == lengths(year)
    IN  [this_month |-> month, sept |-> days[9], days_in_month |-> days[month],
         dow_first |-> (Jan1(year) + SumFunctionOnSet(days, 1 .. month - 1)) % 7]

getdate(info, week, wday) ==
    LET today == week * 7 + wday - info.dow_first + 1
    IN  IF today <= 0 \/ today > info.days_in_month THEN 0
        ELSE IF info.sept = 19 /\ info.this_month = 9 /\ today >= 3 THEN today + 11
        ELSE today
calendar(year, month) ==
    LET info == setmonth(year, month)
    IN  [year |-> year, month |-> month,
         page |-> [week \in 0 .. 5 |-> [wday \in 0 .. 6 |-> getdate(info, week, wday)]]]

Init ==
    /\ pc = [t \in {main} |-> "args"]
    /\ sem = <<>> /\ asleep = {}
    /\ \E argv \in Commands :
         mem = [argv |-> argv, year |-> 0, next |-> 0, last |-> 0,
                layout |-> <<>>, printed |-> <<>>, status |-> -1]

Exit(status) ==
    /\ Go(main, pc[main], "end")
    /\ mem' = [mem EXCEPT !.status = status]
Show(year, first, last) ==
    /\ Go(main, "args", "month")
    /\ mem' = [mem EXCEPT !.year = year, !.next = first, !.last = last]
doyear(year) == IF year < 1 \/ year > 9999 THEN Exit(1) ELSE Show(year, 1, 12)
domonth(year, month) ==
    IF year < 1 \/ year > 9999 \/ month <= 0 \/ month > 12 THEN Exit(1)
    ELSE Show(year, month, month)

Arguments ==
    /\ pc[main] = "args"
    /\ CASE Len(mem.argv) = 0 -> Exit(1)
         [] Len(mem.argv) = 1 ->
              IF mem.argv[1].len <= 2 /\ mem.argv[1].val <= 12
              THEN \E year \in AnyYear : domonth(year, mem.argv[1].val)
              ELSE doyear(mem.argv[1].val)
         [] OTHER ->
              IF mem.argv[1].len > 2 THEN domonth(mem.argv[1].val, mem.argv[2].val)
              ELSE domonth(mem.argv[2].val, mem.argv[1].val)
    /\ UNCHANGED <<sem, asleep>>

(* A year comes three months a line, a month alone.                        *)
LineDone == mem.next = mem.last \/ mem.next % MONTHS_PER_LINE = 0
Month ==
    /\ pc[main] = "month"
    /\ LET laid == Append(mem.layout, calendar(mem.year, mem.next))
       IN  mem' = [mem EXCEPT !.layout = IF LineDone THEN <<>> ELSE laid,
                              !.printed = IF LineDone THEN @ \o laid ELSE @,
                              !.next = @ + 1,
                              !.status = IF mem.next = mem.last THEN 0 ELSE @]
    /\ IF mem.next = mem.last THEN Go(main, "month", "end") ELSE UNCHANGED pc
    /\ UNCHANGED <<sem, asleep>>

Next == Arguments \/ Month
Finished == pc[main] = "end"

-----------------------------------------------------------------------------
(* The dates a month has.  Up to 1752 every fourth year was a leap year,   *)
(* after it not the centuries that 400 does not divide; September 2, 1752  *)
(* was followed by September 14.                                           *)
Leap(y) == y % 4 = 0 /\ (y > 1752 /\ y % 100 = 0 => y % 400 = 0)
DatesOf(y, month) ==
    (1 .. CASE month \in {4, 6, 9, 11} -> 30 [] month = 2 -> (IF Leap(y) THEN 29 ELSE 28) [] OTHER -> 31)
      \ (IF y = 1752 /\ month = 9 THEN 3 .. 13 ELSE {})
(* How many days had passed since January 1 of the year 1, a Saturday.     *)
DaysBefore(y, month) ==
    365 * (y - 1) + Cardinality({z \in 1 .. y - 1 : Leap(z)}) - (IF y > 1752 THEN 11 ELSE 0)
      + SumFunction([n \in 1 .. month - 1 |-> Cardinality(DatesOf(y, n))])

(* A printed month has all its dates and no other, in order; its first one *)
(* is the day of the week after the last one of the month before, back to  *)
(* the beginning of the calendar.                                          *)
CalendarRunsOn ==
    \A k \in DOMAIN mem.printed :
      LET m == mem.printed[k]
          first == (DaysBefore(m.year, m.month) + 6) % 7
          shown == {n \in 0 .. 41 : m.page[n \div 7][n % 7] # 0}
          dates == DatesOf(m.year, m.month)
      IN  /\ shown = first .. first + Cardinality(dates) - 1
          /\ \A n \in shown :
               /\ m.page[n \div 7][n % 7] \in dates
               /\ Cardinality({d \in dates : d < m.page[n \div 7][n % 7]}) = n - first
===============================================================================
