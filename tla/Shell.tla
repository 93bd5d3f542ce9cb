---------------------------------- MODULE Shell ----------------------------------
(***************************************************************************)
(* The two shells: final_shell.c, which waits for each command, and        *)
(* kshell.c, where is_background always says yes.  The shell is process 0; *)
(* the child made for the k-th line is process k.  A line is a sequence of *)
(* tokens, all of them shorter than the buffers, and in kshell.c fewer     *)
(* than the ten places of args.  Signals to the processes and the programs *)
(* themselves are the environment.                                         *)
(***************************************************************************)
EXTENDS PosixIpc, SequencesExt

CONSTANTS
    Waits,       \* TRUE in final_shell.c, FALSE in kshell.c
    Lines,       \* what is typed
    Programs,    \* what execvp finds
    Dirs,        \* what chdir finds
    Files,       \* what can be opened at first
    MaxLines     \* the lines typed before the last exit (bound)

shell == 0
Jobs  == 1 .. MaxLines
None  == "none"
Current == mem.typed

(* What a child is given: its line, its directory, argv, and where its     *)
(* standard input and output come from and go (None: the terminal).        *)
Job(l, args) == [line |-> l, dir |-> mem.cwd, args |-> args,
                 in |-> None, out |-> None, told |-> FALSE, stopped |-> FALSE]

Init ==
    /\ pc = [t \in {shell} \cup Jobs |-> IF t = shell THEN "prompt" ELSE None]
    /\ sem = <<>> /\ asleep = {}
    /\ mem = [typed |-> 0, line |-> <<>>, args |-> <<>>, cwd |-> "home", files |-> Files,
              interrupted |-> FALSE, job |-> <<>>]

(* kshell's args is one array for all lines.  A line ends with an empty    *)
(* token, not with NULL, and what earlier lines left behind it stays.      *)
Overwrite(l) ==
    LET new == Append(l, "")
    IN  new \o SubSeq(mem.args, Len(new) + 1, Len(mem.args))

read_line(l) ==
    /\ Go(shell, "prompt", "execute")
    /\ IF Current < MaxLines THEN l \in Lines ELSE Waits /\ l = <<"exit">>
    /\ mem' = [mem EXCEPT !.typed = @ + 1, !.line = l,
                          !.args = IF Waits THEN l ELSE Overwrite(l)]
    /\ UNCHANGED <<sem, asleep>>

Builtins == {"cd", "help", "exit"}
IsBuiltin(args) == Waits /\ args # <<>> /\ Head(args) \in Builtins

(* execute: an empty line, and the three commands of the shell itself.     *)
Nothing ==
    /\ Go(shell, "execute", "prompt")
    /\ mem.args = <<>>
    /\ UNCHANGED <<sem, asleep, mem>>

Builtin ==
    /\ IsBuiltin(mem.args)
    /\ Go(shell, "execute", IF Head(mem.args) = "exit" THEN "end" ELSE "prompt")
    /\ mem' = [mem EXCEPT !.cwd =
                 IF Head(mem.args) = "cd" /\ Len(mem.args) > 1 /\ mem.args[2] \in Dirs
                 THEN mem.args[2] ELSE @]
    /\ UNCHANGED <<sem, asleep>>

Fork(next) ==
    /\ pc[shell] = "execute"
    /\ mem.args # <<>> /\ ~IsBuiltin(mem.args)
    /\ pc' = [pc EXCEPT ![shell] = next, ![Current] = "forked"]
    /\ mem' = [mem EXCEPT !.job = [c \in DOMAIN @ \cup {Current} |->
                                     IF c = Current THEN Job(mem.line, mem.args) ELSE @[c]]]
    /\ UNCHANGED <<sem, asleep>>

ForkFails ==
    /\ mem.args # <<>> /\ ~IsBuiltin(mem.args)
    /\ Go(shell, "execute", "prompt")
    /\ UNCHANGED <<sem, asleep, mem>>

lsh_launch == Waits /\ Fork("wait")
exec_child == ~Waits /\ Fork("prompt")

(* The token after the first op, if there is one.                          *)
After(args, op) ==
    LET i == SelectInSeq(args, LAMBDA t : t = op)
    IN  IF i = 0 \/ i = Len(args) THEN None ELSE args[i + 1]

(* args is cut off at the first redirection.                               *)
ioredirect_remove_tokens(args) ==
    LET i == SelectInSeq(args, LAMBDA t : t \in {"<", ">"})
    IN  IF i = 0 THEN args ELSE SubSeq(args, 1, i - 1)

(* The child of final_shell: what cannot be opened leaves it the terminal, *)
(* an output (made if it is not there) for whatever reason.                *)
Redirect(c) ==
    /\ Waits /\ Go(c, "forked", "exec")
    /\ LET args == mem.job[c].args
           in   == After(args, "<")
       IN  \E out \in {After(args, ">"), None} :
             mem' = [mem EXCEPT
               !.files = IF out = None THEN @ ELSE @ \cup {out},
               !.job[c].in = IF in \in mem.files THEN in ELSE None,
               !.job[c].out = out,
               !.job[c].args = ioredirect_remove_tokens(args)]
    /\ UNCHANGED <<sem, asleep>>

execvp(c) ==
    /\ Waits
    /\ pc[c] = "exec"
    /\ LET args == mem.job[c].args
       IN  Go(c, "exec", IF args # <<>> /\ Head(args) \in Programs THEN "running" ELSE "zombie")
    /\ UNCHANGED <<sem, asleep, mem>>

(* In kshell nothing ends argv but what the stack holds behind it: no more *)
(* arguments, some, or no addresses, which execvp refuses.                 *)
execvpUnended(c) ==
    /\ ~Waits
    /\ \/ /\ Go(c, "forked", "running")
          /\ Head(mem.job[c].args) \in Programs
          /\ \E rest \in {<<>>, <<"?">>} :
               mem' = [mem EXCEPT !.job[c].args = @ \o rest]
       \/ Go(c, "forked", "zombie") /\ UNCHANGED mem
    /\ UNCHANGED <<sem, asleep>>

(* The program ends, or is stopped once (bound) and goes on later.         *)
Ends(c) == Go(c, "running", "zombie") /\ UNCHANGED <<sem, asleep, mem>>
Stops(c) ==
    /\ Go(c, "running", "stopped") /\ ~mem.job[c].stopped
    /\ mem' = [mem EXCEPT !.job[c].stopped = TRUE]
    /\ UNCHANGED <<sem, asleep>>
Continues(c) ==
    /\ Go(c, "stopped", "running") \/ Go(c, "doomed", "zombie")
    /\ UNCHANGED <<sem, asleep, mem>>

(* One turn of the waitpid loop.  WUNTRACED reports a stop too, once, and  *)
(* the loop waits again.                                                   *)
Reap ==
    /\ pc[shell] = "wait" /\ pc[Current] = "zombie"
    /\ pc' = [pc EXCEPT ![shell] = "prompt", ![Current] = "reaped"]
    /\ UNCHANGED <<sem, asleep, mem>>

StopIsEnd ==                                                            \* faulty
    /\ Go(shell, "wait", "prompt") /\ pc[Current] = "stopped"
    /\ UNCHANGED <<sem, asleep, mem>>

ToldOfStop ==
    /\ pc[shell] = "wait" /\ pc[Current] = "stopped" /\ ~mem.job[Current].told
    /\ mem' = [mem EXCEPT !.job[Current].told = TRUE]
    /\ UNCHANGED <<pc, sem, asleep>>

(* ^C reaches the shell and all its children, once (bound), and kills what *)
(* has no handler, the stopped when they go on.  kshell has one, and a     *)
(* child of kshell until execvp.                                           *)
Interrupt ==
    /\ ~mem.interrupted /\ pc[shell] # "end"
    /\ LET dies == At(Jobs, IF Waits THEN {"forked", "exec", "running"} ELSE {"running"})
       IN  pc' = [t \in DOMAIN pc |->
                    CASE t \in dies -> "zombie"
                      [] t \in At(Jobs, {"stopped"}) -> "doomed"
                      [] t = shell /\ Waits -> "end"
                      [] OTHER -> pc[t]]
    /\ mem' = [mem EXCEPT !.interrupted = TRUE]
    /\ UNCHANGED <<sem, asleep>>

Child(c) ==
    \/ Redirect(c) \/ execvp(c) \/ execvpUnended(c)
    \/ Ends(c) \/ Stops(c) \/ Continues(c)

Next ==
    \/ \E l \in Lines \cup {<<"exit">>} : read_line(l)
    \/ Nothing \/ Builtin \/ ForkFails
    \/ lsh_launch \/ exec_child
    \/ Reap \/ ToldOfStop
    \/ \E c \in Jobs : Child(c)
    \/ Interrupt

Finished ==
    /\ pc[shell] = "end" \/ (~Waits /\ pc[shell] = "prompt" /\ Current = MaxLines)
    /\ At(Jobs, {"forked", "exec", "running", "stopped", "doomed"}) = {}

-----------------------------------------------------------------------------
(* A new line is not read before the command of the last one has ended and *)
(* been reaped, however often that is stopped and continued: no two        *)
(* commands of final_shell.c have the terminal (lsh_launch).               *)
OneAtATime ==
    Waits /\ ~mem.interrupted /\ pc[shell] # "wait" =>
      \A c \in Jobs : pc[c] \in {None, "reaped"}

(* Whatever args still holds of other lines, the arguments of a command    *)
(* begin with its own line up to the redirections, and its output goes     *)
(* to no file that line does not name (kshell.c, final_shell.c).           *)
OwnLine ==
    \A c \in At(Jobs, {"running", "stopped"}) :
      LET j == mem.job[c]
      IN  /\ IF Waits THEN j.args = ioredirect_remove_tokens(j.line) ELSE IsPrefix(j.line, j.args)
          /\ \A f \in {j.in, j.out} \ {None} : f \in mem.files /\ Contains(j.line, f)

CommandsApart == OneAtATime /\ OwnLine
==================================================================================
