------------------------------ MODULE SoloPrograms ------------------------------
(***************************************************************************)
(* Programs of which one process is followed: the shells with the children *)
(* they wait for, the banker's algorithm, at, cal and chmod, each an       *)
(* instance of its module, for any number of lines, processes and          *)
(* resources, for any date, year, mode and umask.                          *)
(***************************************************************************)
EXTENDS PosixIpc

CONSTANTS
    Typed, MaxTyped,            \* final_shell.c: what is typed, and how many lines
    Queried, MaxQueried,        \* kshell.c: the same
    Redirected, MaxRedirected,  \* OS-ane/shell.c: the same
    MAXFDS, Writable,
    Programs, Dirs, Files,      \* what the shells find
    Borrowers, Kinds,           \* the banker's algorithm: processes, kinds of resources
    Units, Copies, NeedUpTo,    \* how many of a kind, for cal, and wanted
    Grants, Trials,             \* requests of bankers-deadlock-avoid.c, banker_request.c
    Years, Days, Now,           \* at.c: when it starts,
    Times, Dates,               \* and what it is asked for
    Commands, AnyYear,          \* cal.c: its arguments, and what it finds in year
    ModeArguments, Lists,       \* chmod.c: its arguments,
    ModeFiles, Modes, Umasks    \* the files that are there, what they and umask may be

ASSUME ShellAssumption ==
    /\ Typed \subseteq Seq(STRING) /\ Queried \subseteq Seq(STRING)
    /\ MaxTyped \in Nat /\ MaxQueried \in Nat
    /\ MAXFDS \in Nat \ {0, 1, 2} /\ "no file" \notin Files \cup Writable

ASSUME BankAssumption ==
    /\ Borrowers \in Nat /\ Kinds \in Nat
    /\ Units \in Nat /\ Copies \in Nat /\ NeedUpTo \in Nat
    /\ Grants \in Nat /\ Trials \in Nat

(* The years are those in which every fourth one is a leap year.           *)
ASSUME AtAssumption ==
    /\ Years \subseteq 1 .. 198 /\ Days \subseteq 0 .. 365 /\ Now \subseteq Nat
    /\ Times \subseteq Nat /\ Dates \subseteq Nat \X Nat

ASSUME CalAssumption ==
    /\ Commands \subseteq Seq([val : Int, len : Nat]) /\ AnyYear \subseteq Int

(* What the code compares a line's words with: the provers are not told    *)
(* that these literals are strings.                                        *)
ASSUME StringAssumption == {"", "?", "exit"} \subseteq STRING

Waiting == INSTANCE Shell WITH Waits <- TRUE, Lines <- Typed, MaxLines <- MaxTyped
Asking  == INSTANCE Shell WITH Waits <- FALSE, Lines <- Queried, MaxLines <- MaxQueried
Saving  == INSTANCE MyShell WITH Lines <- Redirected, MaxLines <- MaxRedirected
Grant   == INSTANCE Bankers WITH
             Variant <- "grant", NPROC <- Borrowers, NRES <- Kinds, Requests <- Grants
Undone  == INSTANCE Bankers WITH
             Variant <- "request", NPROC <- Borrowers, NRES <- Kinds, Requests <- Trials
Detect  == INSTANCE Bankers WITH
             Variant <- "cal", NPROC <- Borrowers, NRES <- Kinds, Units <- Copies, Requests <- 0
Later   == INSTANCE AtJob
Cal     == INSTANCE Calendar
Mode    == INSTANCE Chmod WITH Arguments <- ModeArguments, Files <- ModeFiles

(* What chmod's symbolic argument may have behind its classes.             *)
ModeOps == Seq([op : {"+", "-", "="}, perms : SUBSET {"r", "w", "x", "s", "t", "u", "g", "o"}])
ASSUME ModeAssumption ==
    /\ Modes \subseteq SUBSET Mode!Bits /\ Umasks \subseteq SUBSET Mode!Bits
    /\ ModeArguments \subseteq
         [absolute : BOOLEAN, bits : SUBSET Mode!Bits, junk : BOOLEAN,
          groups : Seq([who : SUBSET {"u", "g", "o", "a"}, ops : ModeOps])]
    /\ Lists \subseteq Seq(STRING)
=================================================================================
