--------------------------------- MODULE Chmod ---------------------------------
(***************************************************************************)
(* OS-master/sudh/cmds/chmod.c.  A mode is a set of bits <<class, perm>>,  *)
(* with the class "x" for set-user-id, set-group-id and the sticky bit.    *)
(* A step is one file of the list; umask(0) changes what the process's     *)
(* next umask(0) returns.  A symbolic argument is a sequence of groups,    *)
(* each with a set of classes ("who") and a sequence of operators with     *)
(* their permissions; an absolute one is the set of bits it stands for.    *)
(***************************************************************************)
EXTENDS PosixIpc

CONSTANTS
    Arguments,      \* [absolute, bits, groups, junk]
    Files,          \* the files that are there
    Modes,          \* what a file may have before
    Umasks,         \* what the user's umask may be
    Lists           \* sequences of file names, there or not

main == 0
Suid == <<"x", "u">>
Sgid == <<"x", "g">>
Sticky == <<"x", "t">>
RWX == {"r", "w", "x"}
Bits == ({"u", "g", "o"} \X RWX) \cup {Suid, Sgid, Sticky}

(* U_MSK, G_MSK and O_MSK.                                                 *)
Msk(class) ==
    ({class} \X RWX) \cup CASE class = "u" -> {Suid} [] class = "g" -> {Sgid} [] OTHER -> {}

Unmasked(mode, op, bits, emask, msk) ==                          \* faulty
    CASE op = "+" -> mode \cup (bits \cap emask)
      [] op = "-" -> mode \ (bits \cap emask)
      [] op = "=" -> (mode \cup (bits \cap emask)) \ (msk \ bits)
applyop(mode, op, bits, emask, msk) ==
    CASE op = "+" -> mode \cup (bits \cap emask)
      [] op = "-" -> mode \ (bits \cap emask)
      [] op = "=" -> (mode \cup (bits \cap emask)) \ ((msk \ bits) \cap emask)

(* What is written behind an operator: r, w and x, one class whose own     *)
(* permissions are copied, s for the classes named, t.                     *)
partial(mode, perms) ==
    {p \in RWX : p \in perms \/ \E c \in perms \cap {"u", "g", "o"} : <<c, p>> \in mode}
other(mode, perms, who) ==
    {b \in {Suid, Sgid} : b[2] \in perms /\ b \in mode}
      \cup {b \in {Suid, Sgid} : "s" \in perms /\ b[2] \in who}
      \cup (IF "t" \in perms THEN {Sticky} ELSE {})

Who(group) ==
    IF group.who \cap {"a"} # {} \/ group.who = {} THEN {"u", "g", "o"} ELSE group.who
Operate(mode, op, perms, who, emask) ==
    LET bits(class) == other(mode, perms, who) \cup ({class} \X partial(mode, perms))
        To(m, class) == IF class \in who THEN applyop(m, op, bits(class), emask, Msk(class)) ELSE m
    IN  To(To(To(mode, "u"), "g"), "o")

pgroup(mode, g, u_mask) ==
    LET emask == IF g.who = {} THEN Bits \ u_mask ELSE Bits
        after[j \in 0 .. Len(g.ops)] ==
          IF j = 0 THEN mode
          ELSE Operate(after[j - 1], g.ops[j].op, g.ops[j].perms, Who(g), emask)
    IN  after[Len(g.ops)]
symbolic(mode, groups, u_mask) ==
    LET after[i \in 0 .. Len(groups)] ==
          IF i = 0 THEN mode ELSE pgroup(after[i - 1], groups[i], u_mask)
    IN  after[Len(groups)]

(* Arguments that are refused: something behind them, two copied classes.  *)
badmode(arg) ==
    \/ arg.junk
    \/ ~arg.absolute /\ \E i \in DOMAIN arg.groups : \E j \in DOMAIN arg.groups[i].ops :
                          Cardinality(arg.groups[i].ops[j].perms \cap {"u", "g", "o"}) > 1

Init ==
    /\ pc = [t \in {main} |-> "args"]
    /\ sem = <<>> /\ asleep = {}
    /\ \E arg \in Arguments, before \in [Files -> Modes], umask \in Umasks, list \in Lists :
         mem = [arg |-> arg, list |-> list, before |-> before, mode |-> before,
                umask0 |-> umask, umask |-> umask, i |-> 1, status |-> -1]

Exit(status) ==
    /\ pc' = [pc EXCEPT ![main] = "end"]
    /\ mem' = [mem EXCEPT !.status = status]
Main ==
    /\ pc[main] = "args"
    /\ IF Len(mem.list) = 0 \/ (mem.arg.absolute /\ badmode(mem.arg)) THEN Exit(1)
       ELSE Go(main, "args", "file") /\ UNCHANGED mem
    /\ UNCHANGED <<sem, asleep>>

(* stat; then the new mode, for which umask is asked and set to 0; then    *)
(* chmod, which may be refused.                                            *)
Found == mem.list[mem.i] \in Files
Change ==
    /\ mem' = [mem EXCEPT
         !.mode[mem.list[mem.i]] =
            IF mem.arg.absolute THEN mem.arg.bits ELSE symbolic(@, mem.arg.groups, mem.umask),
         !.umask = IF mem.arg.absolute THEN @ ELSE {},
         !.i = @ + 1]
    /\ UNCHANGED pc
File ==
    /\ pc[main] = "file"
    /\ CASE mem.i > Len(mem.list) -> Exit(0)
         [] mem.i <= Len(mem.list) /\ (~Found \/ badmode(mem.arg)) -> Exit(1)
         [] OTHER -> Exit(1) \/ Change
    /\ UNCHANGED <<sem, asleep>>

Next == Main \/ File
Finished == pc[main] = "end"

-----------------------------------------------------------------------------
(* Bit by bit: what an operator is about, for the classes who and given    *)
(* the mode before it (a copied class brings its set-id bit with it, also  *)
(* to "-", whoever it is copied to); what "=" decides, wanted or not; and  *)
(* what may be changed: nothing in the umask, unless the classes are named.*)
Wanted(perms, who, b, before) ==
    CASE b = Sticky -> "t" \in perms
      [] b \in {Suid, Sgid} -> ("s" \in perms /\ b[2] \in who) \/ (b[2] \in perms /\ b \in before)
      [] OTHER -> b[1] \in who /\ (b[2] \in perms \/ \E c \in perms : <<c, b[2]>> \in before)
Decides(op, who, b) == op = "=" /\ (b[1] \in who \/ (b \in {Suid, Sgid} /\ b[2] \in who))
On(op, perms, who, b, before) ==
    IF Wanted(perms, who, b, before) \/ Decides(op, who, b)
    THEN op # "-" /\ Wanted(perms, who, b, before)
    ELSE b \in before
Spared(g, u_mask) == IF g.who = {} THEN u_mask ELSE {}

GroupAsAsked(g, u_mask, before) ==
    LET after[j \in 0 .. Len(g.ops)] ==
          IF j = 0 THEN before
          ELSE {b \in Bits : IF b \in Spared(g, u_mask) THEN b \in after[j - 1]
                             ELSE On(g.ops[j].op, g.ops[j].perms, Who(g), b, after[j - 1])}
    IN  after[Len(g.ops)]
AsAsked(groups, u_mask, before) ==
    LET after[i \in 0 .. Len(groups)] ==
          IF i = 0 THEN before ELSE GroupAsAsked(groups[i], u_mask, after[i - 1])
    IN  after[Len(groups)]

(* The mode that was asked for when the first n of the list were seen to:  *)
(* each time the file is listed, what the argument makes of the mode it    *)
(* had, with the bits of the user's umask spared where no class is named.  *)
ModeAfter(f, n) ==
    LET after[k \in 0 .. n] ==
          IF k = 0 THEN mem.before[f]
          ELSE IF mem.list[k] # f THEN after[k - 1]
          ELSE IF mem.arg.absolute THEN mem.arg.bits
          ELSE AsAsked(mem.arg.groups, mem.umask0, after[k - 1])
    IN  after[n]

(* Every file has the mode that was asked for by the files seen to so far, *)
(* whatever it and the others had: also when the program stops at a file   *)
(* that is not there, or may not be changed (main, symbolic).  That is so  *)
(* of the absolute modes, of those that name their classes, and of the     *)
(* first file.  Of the rest it is not: line 81's umask(0) finds nothing    *)
(* left to spare, and EachAsIfAlone below is what the code then breaks.    *)
Meant(f) ==
    \/ mem.arg.absolute
    \/ \A g \in DOMAIN mem.arg.groups : mem.arg.groups[g].who # {}
    \/ \A k \in 2 .. mem.i - 1 : mem.list[k] # f
ModesAsAsked == \A f \in Files : Meant(f) => mem.mode[f] = ModeAfter(f, mem.i - 1)

(* Line 33, "Apply the mode to all files listed", line 81, "get the        *)
(* umasked bits": each file gets what it would get if it were listed alone.*)
EachAsIfAlone ==
    ~mem.arg.absolute =>
      \A k \in 1 .. mem.i - 1 :
        mem.mode[mem.list[k]] = symbolic(mem.before[mem.list[k]], mem.arg.groups, mem.umask0)
================================================================================
