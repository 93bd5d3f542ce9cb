-------------------------------- MODULE MyShell --------------------------------
(***************************************************************************)
(* OS-master/OS-ane/shell.c.  It redirects its own descriptors before it   *)
(* forks, and puts the saved ones back when the child has ended.  fd says  *)
(* what each descriptor refers to; nobody closes the saved ones, nor what  *)
(* creat returns, and there are only so many.  A line is its tokens, and   *)
(* no more of them than argv and the buffers have room for; one before     *)
(* the newline may be empty, and then names no file.                       *)
(***************************************************************************)
EXTENDS PosixIpc, SequencesExt, FiniteSetsExt

CONSTANTS
    Lines,         \* what is typed
    Files,         \* the files that are there at first
    Writable,      \* the names that can be written to, made if need be
    MAXFDS,        \* descriptors of a process
    MaxLines       \* bound: lines read

main == 0

(* What no token is, for a line is split at its blanks.                    *)
none == "no file"
terminal == "the terminal"

(* strtok: the token behind ">" or "<" is a file name, whatever it is.     *)
Token(got, token) ==
    CASE got.after = ">" -> [got EXCEPT !.outfile = token, !.after = none]
      [] got.after = "<" -> [got EXCEPT !.infile = token, !.after = none]
      [] got.after = none /\ token \in {"<", ">"} -> [got EXCEPT !.after = token]
      [] OTHER -> [got EXCEPT !.argv = Append(@, token)]
Parsed(line) ==
    FoldLeft(Token, [argv |-> <<Head(line)>>, infile |-> none, outfile |-> none, after |-> none],
             Tail(line))

(* The lowest free descriptor, or -1.                                      *)
Free(fd) == LET closed == {n \in DOMAIN fd : fd[n] = none}
            IN  IF closed = {} THEN -1 ELSE Min(closed)
dup(fd, n) == IF fd[n] = none THEN -1 ELSE Free(fd)
Copied(fd, to, n) == IF to = -1 THEN fd ELSE [fd EXCEPT ![to] = fd[n]]

(* open, dup2 to n, close.  An open that returned n closes n in the end.   *)
Onto(fd, n, file) == IF Free(fd) \in {-1, n} THEN fd ELSE [fd EXCEPT ![n] = file]

Init ==
    /\ pc = [t \in {main} |-> "prompt"]
    /\ sem = <<>> /\ asleep = {}
    /\ mem = [fd |-> [n \in 0 .. MAXFDS - 1 |-> IF n <= 2 THEN terminal ELSE none],
              files |-> Files, lines |-> 0, got |-> Parsed(<<"">>),
              saved_in |-> -1, saved_out |-> -1, spoiled |-> FALSE]

(* The end of input, or "exit", or a line; one that ends in a redirection  *)
(* makes trim read through NULL.                                           *)
Prompt ==
    /\ \/ Go(main, "prompt", "end") /\ UNCHANGED mem
       \/ \E line \in Lines :
            /\ mem.lines < MaxLines /\ mem.fd[0] # none
            /\ mem' = [mem EXCEPT !.lines = @ + 1, !.got = Parsed(line)]
            /\ Go(main, "prompt",
                  CASE line[1] = "exit" -> "end"
                    [] line[1] # "exit" /\ Parsed(line).after # none -> "crashed"
                    [] OTHER -> "input")
    /\ UNCHANGED <<sem, asleep>>

Input ==
    LET infile == mem.got.infile
        saved_in == dup(mem.fd, 0)
        kept == Copied(mem.fd, saved_in, 0)
    IN  /\ Go(main, "input", "output")
        /\ mem' = IF infile = none THEN mem
                  ELSE [mem EXCEPT !.saved_in = saved_in,
                                   !.fd = IF infile \in mem.files THEN Onto(kept, 0, infile) ELSE kept,
                                   !.spoiled = @ \/ Free(kept) = -1]
        /\ UNCHANGED <<sem, asleep>>

(* A file that is not there is made by creat, which keeps it open, and     *)
(* then opened.                                                            *)
LateSaved ==                                                     \* faulty
    LET outfile == mem.got.outfile
        saved_out == dup(mem.fd, 1)
        moved == Onto(mem.fd, 1, outfile)
    IN  /\ Go(main, "output", "fork")
        /\ mem' = IF outfile \notin mem.files THEN mem
                  ELSE [mem EXCEPT !.saved_out = saved_out, !.fd = Copied(moved, saved_out, 1)]
        /\ UNCHANGED <<sem, asleep>>
Output ==
    LET outfile == mem.got.outfile
        saved_out == dup(mem.fd, 1)
        kept == Copied(mem.fd, saved_out, 1)
        made == outfile \in Writable \ mem.files /\ Free(kept) # -1
        opened == IF made THEN [kept EXCEPT ![Free(kept)] = outfile] ELSE kept
    IN  /\ Go(main, "output", "fork")
        /\ mem' = IF outfile = none THEN mem
                  ELSE [mem EXCEPT
                          !.saved_out = saved_out,
                          !.files = IF made THEN @ \cup {outfile} ELSE @,
                          !.fd = IF made \/ outfile \in Writable \cap mem.files
                                 THEN Onto(opened, 1, outfile) ELSE kept,
                          !.spoiled = @ \/ Free(opened) = -1]
        /\ UNCHANGED <<sem, asleep>>

(* The child runs with what the shell has at 0 and 1.  When there is no    *)
(* child, nothing is put back.                                             *)
Fork ==
    /\ \/ Go(main, "fork", "wait") /\ UNCHANGED mem
       \/ /\ Go(main, "fork", "prompt")
          /\ mem' = [mem EXCEPT !.spoiled = @ \/ mem.got.infile # none \/ mem.got.outfile # none]
    /\ UNCHANGED <<sem, asleep>>

Back(fd, n, saved) == Copied([fd EXCEPT ![n] = none], IF saved = -1 THEN -1 ELSE n, saved)
Wait ==
    LET in == IF mem.got.infile = none THEN mem.fd ELSE Back(mem.fd, 0, mem.saved_in)
        out == IF mem.got.outfile = none THEN in ELSE Back(in, 1, mem.saved_out)
    IN  /\ Go(main, "wait", "prompt")
        /\ mem' = [mem EXCEPT !.fd = out, !.saved_in = -1, !.saved_out = -1]
        /\ UNCHANGED <<sem, asleep>>

Next == Prompt \/ Input \/ Output \/ Fork \/ Wait
Finished == pc[main] = "end"
Crashed == pc[main] = "crashed"

-----------------------------------------------------------------------------
(* As long as no fork failed and no descriptor was wanting, a command has  *)
(* the files it was given and the terminal for the rest, whatever earlier  *)
(* commands were given, and the shell reads from and writes to the         *)
(* terminal again when it has ended.                                       *)
TerminalBack ==
    ~mem.spoiled =>
      /\ pc[main] = "prompt" => mem.fd[0] = terminal /\ mem.fd[1] = terminal
      /\ pc[main] = "wait" =>
           /\ mem.fd[0] \in {terminal, mem.got.infile}
           /\ mem.got.infile \in Files => mem.fd[0] = mem.got.infile
           /\ mem.fd[1] = IF mem.got.outfile \in Writable THEN mem.got.outfile ELSE terminal
================================================================================
