------------------------------ MODULE SoloProofs ------------------------------
(***************************************************************************)
(* The programs of SoloPrograms: the shells keep commands apart and get    *)
(* their terminal back, whatever is typed; chmod does what its operators   *)
(* ask for, for any argument and any modes; at finds the first moment that *)
(* fits, for any date; cal knows all days of all years; and the safety     *)
(* tests of the bankers are right, for any number of processes and         *)
(* resources.  A section has the invariant of a program and then its       *)
(* lemmas.                                                                 *)
(***************************************************************************)
EXTENDS SoloPrograms, FiniteSetTheorems, SequenceTheorems, WellFoundedInduction, TLAPS

(* A set of numbers that is not empty has a least element.                 *)
LEMMA FirstOf ==
    ASSUME NEW F \in SUBSET Nat, F # {}
    PROVE  \E l \in F : \A m \in F : l <= m
  <1>1. IsWellFoundedOn(OpToRel(<, Nat), Nat)
    BY NatLessThanWellFounded, Zenon
  <1>2. PICK l \in F : \A m \in F : ~(<<m, l>> \in OpToRel(<, Nat))
    BY <1>1, WFMin, Zenon
  <1>3. \A m \in F : ~(m < l)
    BY <1>2, Zenon DEF OpToRel
  <1> QED BY <1>3

-----------------------------------------------------------------------------
(* OS-ane/shell.c: while no descriptor was wanting, the terminal is in the *)
(* first two of them, but for what the line redirects; what is saved of it *)
(* is in a third.                                                          *)
Slots == 0 .. MAXFDS - 1
Row(fd) == fd = [n \in Slots |-> fd[n]]
Put(fd, n, x) == [fd EXCEPT ![n] = x]
Spare(fd, saved) == saved \in Slots \ {0, 1} /\ fd[saved] = Saving!terminal
InputDone(fd, got, saved) ==
    /\ fd[0] \in {Saving!terminal, got.infile}
    /\ got.infile \in Files => fd[0] = got.infile
    /\ got.infile = Saving!none => fd[0] = Saving!terminal
    /\ got.infile # Saving!none => Spare(fd, saved)
OutputDone(fd, got, saved) ==
    /\ fd[1] = IF got.outfile \in Writable THEN got.outfile ELSE Saving!terminal
    /\ got.outfile # Saving!none => Spare(fd, saved)
SavingType ==
    /\ DOMAIN pc = {0}
    /\ mem = [fd |-> mem.fd, files |-> mem.files, lines |-> mem.lines, got |-> mem.got,
              saved_in |-> mem.saved_in, saved_out |-> mem.saved_out, spoiled |-> mem.spoiled]
    /\ Row(mem.fd)
    /\ Files \subseteq mem.files /\ Saving!none \notin mem.files
FilesInv ==
    ~mem.spoiled =>
      /\ pc[0] \in {"prompt", "input"} => mem.fd[0] = Saving!terminal /\ mem.fd[1] = Saving!terminal
      /\ pc[0] = "output" =>
           /\ InputDone(mem.fd, mem.got, mem.saved_in)
           /\ mem.fd[0] # Saving!none /\ mem.fd[1] = Saving!terminal
      /\ pc[0] \in {"fork", "wait"} =>
           /\ InputDone(mem.fd, mem.got, mem.saved_in)
           /\ OutputDone(mem.fd, mem.got, mem.saved_out)
SavingInv == SavingType /\ FilesInv

-----------------------------------------------------------------------------
(* Descriptors.                                                            *)
LEMMA SlotsLemma ==
    MAXFDS - 1 \in Nat /\ 0 \in Slots /\ 1 \in Slots /\ 2 \in Slots /\ -1 \notin Slots
<1>1. MAXFDS \in Nat /\ MAXFDS # 0 /\ MAXFDS # 1 /\ MAXFDS # 2
  BY ShellAssumption, Zenon
<1> QED
  BY <1>1 DEF Slots

LEMMA LowestFree ==
    ASSUME NEW fd, Row(fd), Saving!Free(fd) # -1
    PROVE  Saving!Free(fd) \in Slots /\ fd[Saving!Free(fd)] = Saving!none
<1> DEFINE closed == {n \in DOMAIN fd : fd[n] = Saving!none}
<1>1. closed # {} /\ Saving!Free(fd) = Saving!Min(closed)
  BY DEF Saving!Free
<1>2. MAXFDS - 1 \in Nat /\ closed \in SUBSET (0 .. MAXFDS - 1)
  BY SlotsLemma DEF Slots, Row
<1>3. \E l \in closed : \A m \in closed : l <= m
  BY <1>1, <1>2, FirstOf
<1>4. Saving!Min(closed) \in closed
  BY <1>3 DEF Saving!Min
<1> QED
  BY <1>1, <1>2, <1>4 DEF Slots

LEMMA PutLemma ==
    ASSUME NEW fd, Row(fd), NEW n \in Slots, NEW x
    PROVE  /\ Row(Put(fd, n, x)) /\ Put(fd, n, x)[n] = x
           /\ \A m \in Slots \ {n} : Put(fd, n, x)[m] = fd[m]
BY DEF Row, Put

LEMMA NoneLemma ==
    /\ Saving!none # Saving!terminal
    /\ Saving!none \notin Files /\ Saving!none \notin Writable
BY ShellAssumption DEF Saving!none, Saving!terminal

(* A copy of an open descriptor is another one, if there is one left.      *)
LEMMA CopyLemma ==
    ASSUME NEW fd, Row(fd), NEW n \in Slots, fd[n] # Saving!none,
           Saving!Free(fd) # -1
    PROVE  LET saved == Saving!dup(fd, n)
               kept == Saving!Copied(fd, saved, n)
           IN  /\ saved \in Slots /\ fd[saved] = Saving!none /\ kept[saved] = fd[n]
               /\ Row(kept)
               /\ \A m \in Slots : fd[m] # Saving!none => kept[m] = fd[m] /\ m # saved
<1>1. Saving!dup(fd, n) = Saving!Free(fd)
  BY DEF Saving!dup
<1>2. Saving!Free(fd) \in Slots /\ fd[Saving!Free(fd)] = Saving!none
  BY LowestFree
<1>3. Saving!Copied(fd, Saving!Free(fd), n) = Put(fd, Saving!Free(fd), fd[n])
  BY DEF Saving!Copied, Put
<1> QED
  BY <1>1, <1>2, <1>3, PutLemma

(* A copy that cannot be made changes nothing.                             *)
LEMMA NoCopy ==
    ASSUME NEW fd, NEW n \in Slots, Saving!Free(fd) = -1
    PROVE  Saving!Copied(fd, Saving!dup(fd, n), n) = fd
BY DEF Saving!Copied, Saving!dup

LEMMA OntoLemma ==
    ASSUME NEW fd, Row(fd), NEW n \in Slots, fd[n] # Saving!none, NEW file,
           Saving!Free(fd) # -1
    PROVE  LET new == Saving!Onto(fd, n, file)
           IN  /\ Row(new)
               /\ new[n] = file
               /\ \A m \in Slots \ {n} : new[m] = fd[m]
<1>1. Saving!Free(fd) \in Slots /\ fd[Saving!Free(fd)] = Saving!none
  BY LowestFree
<1>2. Saving!Onto(fd, n, file) = Put(fd, n, file)
  BY <1>1 DEF Saving!Onto, Put
<1> QED
  BY <1>2, PutLemma


LEMMA SavingStart == Saving!Init => SavingInv
<1> SUFFICES ASSUME Saving!Init PROVE SavingInv
  OBVIOUS
<1>1. pc = [t \in {0} |-> "prompt"] /\ pc[0] = "prompt"
  BY DEF Saving!Init, Saving!main
<1>2. mem.fd = [n \in Slots |-> IF n <= 2 THEN Saving!terminal ELSE Saving!none]
  BY DEF Saving!Init, Slots
<1>3. mem.fd[0] = Saving!terminal /\ mem.fd[1] = Saving!terminal /\ Row(mem.fd)
  BY <1>2, SlotsLemma DEF Row
<1>4. SavingType
  BY <1>1, <1>3, NoneLemma DEF Saving!Init, SavingType, Saving!main
<1> QED
  BY <1>1, <1>3, <1>4 DEF SavingInv, FilesInv

(* What a step does, with all else as it was.                              *)
Alters(fd, files, lines, got, in, out, spoiled) ==
    mem' = [fd |-> fd, files |-> files, lines |-> lines, got |-> got,
            saved_in |-> in, saved_out |-> out, spoiled |-> spoiled]

LEMMA PromptStep ==
    ASSUME SavingInv, Saving!Prompt
    PROVE  SavingInv'
<1>1. CASE pc' = [pc EXCEPT ![0] = "end"] /\ UNCHANGED mem
  BY <1>1 DEF SavingInv, SavingType, FilesInv
<1>2. CASE /\ pc[0] = "prompt"
           /\ \E line \in Redirected : mem' = [mem EXCEPT !.lines = @ + 1, !.got = Saving!Parsed(line)]
           /\ \E l \in {"end", "crashed", "input"} : pc' = [pc EXCEPT ![0] = l]
  <2>1. PICK line \in Redirected : mem' = [mem EXCEPT !.lines = @ + 1, !.got = Saving!Parsed(line)]
    BY <1>2
  <2>2. Alters(mem.fd, mem.files, mem.lines + 1, Saving!Parsed(line), mem.saved_in, mem.saved_out,
               mem.spoiled)
    BY <2>1 DEF SavingInv, SavingType, Alters
  <2>3. DOMAIN pc' = {0} /\ pc'[0] \in {"end", "crashed", "input"}
    BY <1>2 DEF SavingInv, SavingType
  <2>4. SavingType'
    BY <2>2, <2>3 DEF SavingInv, SavingType, Alters
  <2>5. FilesInv'
    BY <1>2, <2>2, <2>3 DEF SavingInv, FilesInv, Alters
  <2> QED
    BY <2>4, <2>5 DEF SavingInv
<1>3. ASSUME NEW line \in Redirected,
             Saving!Go(0, "prompt",
                  CASE line[1] = "exit" -> "end"
                    [] line[1] # "exit" /\ Saving!Parsed(line).after # Saving!none -> "crashed"
                    [] OTHER -> "input")
      PROVE  /\ pc[0] = "prompt"
             /\ \E l \in {"end", "crashed", "input"} : pc' = [pc EXCEPT ![0] = l]
  BY <1>3 DEF Saving!Go
<1> QED
  BY <1>1, <1>2, <1>3 DEF Saving!Prompt, Saving!Go, Saving!main

LEMMA InputStep ==
    ASSUME SavingInv, Saving!Input
    PROVE  SavingInv'
<1> DEFINE infile == mem.got.infile
           saved == Saving!dup(mem.fd, 0)
           kept == Saving!Copied(mem.fd, saved, 0)
           new == IF infile \in mem.files THEN Saving!Onto(kept, 0, infile) ELSE kept
           bad == mem.spoiled \/ Saving!Free(kept) = -1
<1>1. DOMAIN pc' = {0} /\ pc[0] = "input" /\ pc'[0] = "output"
  BY DEF Saving!Input, Saving!Go, Saving!main, SavingInv, SavingType
<1>2. Row(mem.fd) /\ 0 \in Slots /\ 1 \in Slots
  BY SlotsLemma DEF SavingInv, SavingType
<1>3. CASE infile = Saving!none
  <2>1. mem' = mem
    BY <1>3 DEF Saving!Input
  <2> QED
    BY <1>1, <1>3, <2>1, NoneLemma DEF SavingInv, SavingType, FilesInv, InputDone
<1>4. CASE infile # Saving!none
  <2>1. Alters(new, mem.files, mem.lines, mem.got, saved, mem.saved_out, bad)
    BY <1>4 DEF Saving!Input, SavingInv, SavingType, Alters
  <2>2. Row(kept)
    <3>1. CASE Saving!Free(mem.fd) = -1
      BY <1>2, <3>1, NoCopy
    <3>2. CASE mem.fd[0] = Saving!none
      BY <1>2, <3>2 DEF Saving!dup, Saving!Copied
    <3> QED
      BY <1>2, <3>1, <3>2, CopyLemma
  <2> HIDE DEF kept
  <2>3. Row(new)
    BY <1>2, <2>2, PutLemma DEF Saving!Onto, Put
  <2>4. SavingType'
    BY <1>1, <2>1, <2>3 DEF SavingInv, SavingType, Alters
  <2>5. ASSUME ~mem.spoiled, Saving!Free(kept) # -1
        PROVE  /\ InputDone(mem'.fd, mem'.got, mem'.saved_in)
               /\ mem'.fd[0] # Saving!none /\ mem'.fd[1] = Saving!terminal
    <3>1. mem.fd[0] = Saving!terminal /\ mem.fd[1] = Saving!terminal
      BY <1>1, <2>5 DEF SavingInv, FilesInv
    <3>2. Saving!Free(mem.fd) # -1
      BY <1>2, <2>5, NoCopy DEF kept
    <3>3. /\ saved \in Slots \ {0, 1} /\ kept[saved] = Saving!terminal
          /\ kept[0] = Saving!terminal /\ kept[1] = Saving!terminal
      BY <1>2, <3>1, <3>2, NoneLemma, CopyLemma DEF kept
    <3>4. infile \in mem.files => /\ new[0] = infile
                                  /\ \A m \in Slots \ {0} : new[m] = kept[m]
      BY <1>2, <2>2, <2>5, <3>3, NoneLemma, OntoLemma
    <3>5. infile \notin mem.files => new = kept
      OBVIOUS
    <3>6. /\ new[0] \in {Saving!terminal, infile} /\ (infile \in mem.files => new[0] = infile)
          /\ new[1] = Saving!terminal /\ Spare(new, saved)
      BY <1>2, <3>3, <3>4, <3>5 DEF Spare
    <3>7. mem'.fd = new /\ mem'.got = mem.got /\ mem'.saved_in = saved
      BY <2>1 DEF Alters
    <3> HIDE DEF new, saved
    <3> QED
      BY <1>4, <3>6, <3>7, NoneLemma DEF InputDone, SavingInv, SavingType
  <2>6. mem'.spoiled = bad
    BY <2>1 DEF Alters
  <2> QED
    BY <1>1, <2>4, <2>5, <2>6 DEF SavingInv, FilesInv
<1> QED
  BY <1>3, <1>4

LEMMA OutputStep ==
    ASSUME SavingInv, Saving!Output
    PROVE  SavingInv'
<1> DEFINE outfile == mem.got.outfile
           saved == Saving!dup(mem.fd, 1)
           kept == Saving!Copied(mem.fd, saved, 1)
           made == outfile \in Writable \ mem.files /\ Saving!Free(kept) # -1
           opened == IF made THEN Put(kept, Saving!Free(kept), outfile) ELSE kept
           new == IF made \/ outfile \in Writable \cap mem.files
                  THEN Saving!Onto(opened, 1, outfile) ELSE kept
           bad == mem.spoiled \/ Saving!Free(opened) = -1
           there == IF made THEN mem.files \cup {outfile} ELSE mem.files
<1>1. DOMAIN pc' = {0} /\ pc[0] = "output" /\ pc'[0] = "fork"
  BY DEF Saving!Output, Saving!Go, Saving!main, SavingInv, SavingType
<1>2. Row(mem.fd) /\ 0 \in Slots /\ 1 \in Slots
  BY SlotsLemma DEF SavingInv, SavingType
<1>3. CASE outfile = Saving!none
  <2>1. mem' = mem
    BY <1>3 DEF Saving!Output
  <2> QED
    BY <1>1, <1>3, <2>1, NoneLemma DEF SavingInv, SavingType, FilesInv, InputDone, OutputDone
<1>4. CASE outfile # Saving!none
  <2>1. Alters(new, there, mem.lines, mem.got, mem.saved_in, saved, bad)
    BY <1>4 DEF Saving!Output, SavingInv, SavingType, Alters, Put
  <2>2. Row(kept)
    <3>1. CASE Saving!Free(mem.fd) = -1
      BY <1>2, <3>1, NoCopy
    <3>2. CASE mem.fd[1] = Saving!none
      BY <1>2, <3>2 DEF Saving!dup, Saving!Copied
    <3> QED
      BY <1>2, <3>1, <3>2, CopyLemma
  <2> HIDE DEF kept
  <2>3. Row(opened)
    BY <2>2, LowestFree, PutLemma
  <2>4. Row(new)
    BY <1>2, <2>2, <2>3, PutLemma DEF Saving!Onto, Put
  <2>5. SavingType'
    BY <1>1, <1>4, <2>1, <2>4 DEF SavingInv, SavingType, Alters
  <2>6. ASSUME ~mem.spoiled, Saving!Free(opened) # -1
        PROVE  /\ InputDone(mem'.fd, mem'.got, mem'.saved_in)
               /\ OutputDone(mem'.fd, mem'.got, mem'.saved_out)
    <3>1. /\ InputDone(mem.fd, mem.got, mem.saved_in)
          /\ mem.fd[0] # Saving!none /\ mem.fd[1] = Saving!terminal
      BY <1>1, <2>6 DEF SavingInv, FilesInv
    <3>2. Saving!Free(kept) # -1
      BY <2>6
    <3>3. Saving!Free(mem.fd) # -1
      BY <1>2, <3>2, NoCopy DEF kept
    <3>4. /\ saved \in Slots /\ mem.fd[saved] = Saving!none /\ kept[saved] = Saving!terminal
          /\ \A m \in Slots : mem.fd[m] # Saving!none => kept[m] = mem.fd[m] /\ m # saved
      BY <1>2, <3>1, <3>3, NoneLemma, CopyLemma DEF kept
    <3>5. Saving!Free(kept) \in Slots /\ kept[Saving!Free(kept)] = Saving!none
      BY <2>2, <3>2, LowestFree
    <3>6. \A m \in Slots : kept[m] # Saving!none => opened[m] = kept[m]
      BY <2>2, <3>5, PutLemma
    <3>7. opened[1] = Saving!terminal /\ kept[1] = Saving!terminal /\ saved \in Slots \ {0, 1}
      BY <1>2, <3>1, <3>4, <3>6, NoneLemma
    <3> HIDE DEF opened, saved
    <3>8. \/ new = kept /\ outfile \notin Writable
          \/ new = Saving!Onto(opened, 1, outfile) /\ outfile \in Writable
      BY <3>2
    <3>9. Saving!Onto(opened, 1, outfile)[1] = outfile
          /\ \A m \in Slots \ {1} : Saving!Onto(opened, 1, outfile)[m] = opened[m]
      BY <1>2, <2>3, <2>6, <3>7, NoneLemma, OntoLemma
    <3> HIDE DEF new
    <3>10. /\ new[1] = IF outfile \in Writable THEN outfile ELSE Saving!terminal
           /\ \A m \in Slots \ {1} : kept[m] # Saving!none => new[m] = kept[m]
      BY <3>6, <3>7, <3>8, <3>9
    <3>11. \A m \in Slots \ {1} : mem.fd[m] # Saving!none => new[m] = mem.fd[m]
      BY <3>4, <3>10
    <3>12. mem'.fd = new /\ mem'.got = mem.got /\ mem'.saved_in = mem.saved_in
           /\ mem'.saved_out = saved
      BY <2>1 DEF Alters
    <3>13. OutputDone(new, mem.got, saved)
      <4>1. new[saved] = Saving!terminal
        BY <3>4, <3>7, <3>10, NoneLemma
      <4> QED
        BY <3>7, <3>10, <4>1 DEF OutputDone, Spare
    <3>14. InputDone(new, mem.got, mem.saved_in)
      <4>1. Spare(mem.fd, mem.saved_in) => Spare(new, mem.saved_in)
        BY <3>11, NoneLemma DEF Spare
      <4>2. new[0] = mem.fd[0]
        BY <1>2, <3>1, <3>11
      <4> QED
        BY <3>1, <4>1, <4>2 DEF InputDone
    <3> QED
      BY <3>12, <3>13, <3>14
  <2>7. mem'.spoiled = bad
    BY <2>1 DEF Alters
  <2> QED
    BY <1>1, <2>5, <2>6, <2>7 DEF SavingInv, FilesInv
<1> QED
  BY <1>3, <1>4

LEMMA ForkStep ==
    ASSUME SavingInv, Saving!Fork
    PROVE  SavingInv'
<1>1. CASE pc[0] = "fork" /\ pc' = [pc EXCEPT ![0] = "wait"] /\ UNCHANGED mem
  BY <1>1 DEF SavingInv, SavingType, FilesInv, InputDone, OutputDone
<1>2. CASE /\ pc[0] = "fork" /\ pc' = [pc EXCEPT ![0] = "prompt"]
           /\ mem' = [mem EXCEPT !.spoiled = @ \/ mem.got.infile # Saving!none \/ mem.got.outfile # Saving!none]
  <2> DEFINE bad == mem.spoiled \/ mem.got.infile # Saving!none \/ mem.got.outfile # Saving!none
  <2>1. Alters(mem.fd, mem.files, mem.lines, mem.got, mem.saved_in, mem.saved_out, bad)
    BY <1>2 DEF SavingInv, SavingType, Alters
  <2>2. DOMAIN pc' = {0} /\ pc'[0] = "prompt"
    BY <1>2 DEF SavingInv, SavingType
  <2>3. SavingType'
    BY <2>1, <2>2 DEF SavingInv, SavingType, Alters
  <2>4. ~bad => mem.fd[0] = Saving!terminal /\ mem.fd[1] = Saving!terminal
    BY <1>2, NoneLemma DEF SavingInv, FilesInv, InputDone, OutputDone
  <2>5. mem'.spoiled = bad /\ mem'.fd = mem.fd
    BY <2>1 DEF Alters
  <2> QED
    BY <2>2, <2>3, <2>4, <2>5 DEF SavingInv, FilesInv
<1> QED
  BY <1>1, <1>2 DEF Saving!Fork, Saving!Go, Saving!main

LEMMA BackLemma ==
    ASSUME NEW fd, Row(fd), NEW n \in Slots, NEW saved
    PROVE  /\ Row(Saving!Back(fd, n, saved))
           /\ \A m \in Slots : m # n => Saving!Back(fd, n, saved)[m] = fd[m]
           /\ saved \in Slots /\ saved # n => Saving!Back(fd, n, saved)[n] = fd[saved]
<1> DEFINE gone == Put(fd, n, Saving!none)
<1>1. n # -1 /\ (saved \in Slots => saved # -1)
  BY SlotsLemma
<1>2. Row(gone) /\ gone[n] = Saving!none /\ \A m \in Slots \ {n} : gone[m] = fd[m]
  BY PutLemma
<1>3. /\ saved # -1 => Saving!Back(fd, n, saved) = Put(gone, n, gone[saved])
      /\ saved = -1 => Saving!Back(fd, n, saved) = gone
  BY <1>1 DEF Saving!Back, Saving!Copied, Put
<1> HIDE DEF gone
<1> QED
  BY <1>1, <1>2, <1>3, PutLemma

LEMMA WaitStep ==
    ASSUME SavingInv, Saving!Wait
    PROVE  SavingInv'
<1> DEFINE in == IF mem.got.infile = Saving!none THEN mem.fd ELSE Saving!Back(mem.fd, 0, mem.saved_in)
           out == IF mem.got.outfile = Saving!none THEN in ELSE Saving!Back(in, 1, mem.saved_out)
<1>1. DOMAIN pc' = {0} /\ pc[0] = "wait" /\ pc'[0] = "prompt"
  BY DEF Saving!Wait, Saving!Go, Saving!main, SavingInv, SavingType
<1>2. Row(mem.fd) /\ 0 \in Slots /\ 1 \in Slots
  BY SlotsLemma DEF SavingInv, SavingType
<1>3. Alters(out, mem.files, mem.lines, mem.got, -1, -1, mem.spoiled)
  BY DEF Saving!Wait, SavingInv, SavingType, Alters
<1> DEFINE fd == mem.fd
           kept_in == mem.saved_in
           kept_out == mem.saved_out
           infile == mem.got.infile
           outfile == mem.got.outfile
<1>4. /\ Row(in)
      /\ \A m \in Slots : m # 0 => in[m] = fd[m]
      /\ infile # Saving!none /\ kept_in \in Slots /\ kept_in # 0 => in[0] = fd[kept_in]
      /\ infile = Saving!none => in[0] = fd[0]
  <2>1. in = IF infile = Saving!none THEN fd ELSE Saving!Back(fd, 0, kept_in)
    OBVIOUS
  <2>2. Row(fd) /\ 0 \in Slots
    BY <1>2
  <2> HIDE DEF in, fd, kept_in, infile
  <2> QED
    BY <2>1, <2>2, BackLemma
<1>5. /\ Row(out)
      /\ \A m \in Slots : m # 1 => out[m] = in[m]
      /\ outfile # Saving!none /\ kept_out \in Slots /\ kept_out # 1 => out[1] = in[kept_out]
      /\ outfile = Saving!none => out[1] = in[1]
  <2> HIDE DEF in
  <2>1. out = IF outfile = Saving!none THEN in ELSE Saving!Back(in, 1, kept_out)
    OBVIOUS
  <2> HIDE DEF out, kept_out, outfile
  <2> QED
    BY <1>2, <1>4, <2>1, BackLemma
<1> HIDE DEF in
<1> HIDE DEF out
<1>6. SavingType'
  BY <1>1, <1>3, <1>5 DEF SavingInv, SavingType, Alters
<1>7. ASSUME ~mem.spoiled PROVE out[0] = Saving!terminal /\ out[1] = Saving!terminal
  <2>1. InputDone(mem.fd, mem.got, mem.saved_in) /\ OutputDone(mem.fd, mem.got, mem.saved_out)
    BY <1>1, <1>7 DEF SavingInv, FilesInv
  <2>2. in[0] = Saving!terminal
    BY <1>4, <2>1 DEF InputDone, Spare
  <2>3. out[0] = Saving!terminal
    BY <1>2, <1>5, <2>2
  <2>4. out[1] = Saving!terminal
    <3>1. CASE mem.got.outfile = Saving!none
      BY <1>2, <1>4, <1>5, <2>1, <3>1, NoneLemma DEF OutputDone
    <3>2. CASE mem.got.outfile # Saving!none
      BY <1>2, <1>4, <1>5, <2>1, <3>2 DEF OutputDone, Spare
    <3> QED
      BY <3>1, <3>2
  <2> QED
    BY <2>3, <2>4
<1>8. mem'.fd = out /\ mem'.spoiled = mem.spoiled
  BY <1>3 DEF Alters
<1> QED
  BY <1>1, <1>6, <1>7, <1>8 DEF SavingInv, FilesInv

LEMMA SavingStep == SavingInv /\ Saving!Next => SavingInv'
BY PromptStep, InputStep, OutputStep, ForkStep, WaitStep DEF Saving!Next

LEMMA SavingRests == SavingInv /\ UNCHANGED vars => SavingInv'
BY DEF vars, SavingInv, SavingType, FilesInv, InputDone, OutputDone

LEMMA TerminalReturns == SavingInv => Saving!TerminalBack
BY DEF SavingInv, FilesInv, InputDone, OutputDone, Saving!TerminalBack, Saving!main

-----------------------------------------------------------------------------
(* What the lemmas about the two other shells need of sequences.           *)
LEMMA FirstIn ==
    ASSUME NEW S, NEW l \in Seq(S), NEW I \in SUBSET (1 .. Len(l)), I # {}
    PROVE  Waiting!Min(I) \in I
<1>1. Len(l) \in Nat /\ I \in SUBSET (0 .. Len(l))
  OBVIOUS
<1>2. \E i \in I : \A j \in I : i <= j
  BY <1>1, FirstOf
<1> QED
  BY <1>2 DEF Waiting!Min

LEMMA AfterLemma ==
    ASSUME NEW S, NEW l \in Seq(S), NEW op, Waiting!After(l, op) # Waiting!None
    PROVE  Waiting!Contains(l, Waiting!After(l, op))
<1> DEFINE I == {i \in 1 .. Len(l) : l[i] = op}
           i == Waiting!SelectInSeq(l, LAMBDA t : t = op)
<1>1. i = IF I # {} THEN Waiting!Min(I) ELSE 0
  BY DEF Waiting!SelectInSeq
<1>2. i # 0 /\ i # Len(l) /\ Waiting!After(l, op) = l[i + 1]
  BY DEF Waiting!After
<1>3. i \in I
  BY <1>1, <1>2, FirstIn
<1>4. i \in 1 .. Len(l) /\ Len(l) \in Nat
  BY <1>3
<1> HIDE DEF i
<1>5. i + 1 \in 1 .. Len(l)
  BY <1>2, <1>4
<1> QED
  BY <1>2, <1>5 DEF Waiting!Contains
LEMMA PrefixLemma ==
    ASSUME NEW S, NEW l \in Seq(S), NEW x \in Seq(S), NEW y \in Seq(S), Asking!IsPrefix(l, x)
    PROVE  Asking!IsPrefix(l, x \o y)
<1>1. Len(l) <= Len(x) /\ SubSeq(l, 1, Len(l)) = SubSeq(x, 1, Len(l))
  BY DEF Asking!IsPrefix
<1>2. x \o y \in Seq(S) /\ Len(x \o y) = Len(x) + Len(y) /\ Len(l) \in Nat /\ Len(x) \in Nat /\ Len(y) \in Nat
  OBVIOUS
<1>3. SubSeq(x \o y, 1, Len(l)) = SubSeq(x, 1, Len(l))
  <2>1. \A i \in 1 .. Len(l) : (x \o y)[i] = x[i]
    BY <1>1, <1>2
  <2> QED
    BY <1>1, <1>2, <2>1
<1> QED
  BY <1>1, <1>2, <1>3 DEF Asking!IsPrefix

LEMMA OverwriteLemma ==
    ASSUME NEW S, NEW l \in Seq(S), NEW e \in S, NEW y \in Seq(S)
    PROVE  LET new  == Append(l, e)
               args == new \o SubSeq(y, Len(new) + 1, Len(y))
           IN  args \in Seq(S) /\ Asking!IsPrefix(l, args)
<1> DEFINE new == Append(l, e)
           rest == SubSeq(y, Len(new) + 1, Len(y))
<1>1. Len(l) \in Nat /\ new \in Seq(S) /\ Len(new) = Len(l) + 1
  OBVIOUS
<1>2. SubSeq(new, 1, Len(l)) = SubSeq(l, 1, Len(l))
  <2>1. \A i \in 1 .. Len(l) : new[i] = l[i]
    OBVIOUS
  <2> QED
    BY <1>1, <2>1
<1>3. Asking!IsPrefix(l, new)
  BY <1>1, <1>2 DEF Asking!IsPrefix
<1> HIDE DEF new
<1>4. rest \in Seq(S)
  BY <1>1
<1> HIDE DEF rest
<1>5. new \o rest \in Seq(S) /\ Asking!IsPrefix(l, new \o rest)
  BY <1>1, <1>3, <1>4, PrefixLemma
<1> QED
  BY <1>5, Zenon DEF new, rest

-----------------------------------------------------------------------------
(* final_shell.c: a child has its own line, cut off at the redirections    *)
(* once it has made them, and only the child of the last line is there.    *)
TypedJobs == 1 .. MaxTyped
Own(j, files) ==
    /\ j.args = Waiting!ioredirect_remove_tokens(j.line)
    /\ \A f \in {j.in, j.out} \ {Waiting!None} : f \in files /\ Waiting!Contains(j.line, f)
JobOK(place, j, files) ==
    /\ j = [line |-> j.line, dir |-> j.dir, args |-> j.args, in |-> j.in, out |-> j.out,
            told |-> j.told, stopped |-> j.stopped]
    /\ j.line \in Seq(STRING)
    /\ place = "forked" => j.args = j.line
    /\ place \in {"exec", "running", "stopped"} => Own(j, files)
WaitingType ==
    /\ DOMAIN pc = {0} \cup TypedJobs
    /\ pc[0] \in {"prompt", "execute", "wait", "end"}
    /\ mem = [typed |-> mem.typed, line |-> mem.line, args |-> mem.args, cwd |-> mem.cwd,
              files |-> mem.files, interrupted |-> mem.interrupted, job |-> mem.job]
    /\ mem.typed \in Nat
    /\ DOMAIN mem.job = {c \in TypedJobs : pc[c] # "none"}
JobsInv == \A c \in DOMAIN mem.job : JobOK(pc[c], mem.job[c], mem.files)
LineInv ==
    /\ pc[0] = "execute" =>
         /\ mem.line = mem.args /\ mem.args \in Seq(STRING) /\ mem.typed > 0
         /\ mem.typed <= MaxTyped \/ mem.args = <<"exit">>
         /\ mem.typed \in TypedJobs => pc[mem.typed] = "none"
    /\ pc[0] = "wait" => mem.typed \in TypedJobs
    /\ \A c \in TypedJobs : c > mem.typed => pc[c] = "none"
Gone(c) == pc[c] \in {"none", "reaped"}
OneChild ==
    /\ ~mem.interrupted =>
         \A c \in TypedJobs : Gone(c) \/ (pc[0] = "wait" /\ c = mem.typed)
    /\ mem.interrupted => pc[0] = "end"
WaitingInv == WaitingType /\ JobsInv /\ LineInv /\ OneChild

LEMMA TypedNumbers == TypedJobs \subseteq Nat /\ 0 \notin TypedJobs /\ MaxTyped \in Nat
<1>1. MaxTyped \in Nat
  BY ShellAssumption, Zenon
<1> QED
  BY <1>1 DEF TypedJobs

LEMMA WaitingStart == Waiting!Init => WaitingInv
<1> SUFFICES ASSUME Waiting!Init PROVE WaitingInv
  OBVIOUS
<1>1. /\ pc = [t \in {0} \cup TypedJobs |-> IF t = 0 THEN "prompt" ELSE "none"]
      /\ mem = [typed |-> 0, line |-> <<>>, args |-> <<>>, cwd |-> "home", files |-> Files,
                interrupted |-> FALSE, job |-> <<>>]
  BY DEF Waiting!Init, Waiting!shell, Waiting!Jobs, Waiting!None, TypedJobs
<1>2. pc[0] = "prompt" /\ \A c \in TypedJobs : pc[c] = "none"
  BY <1>1, TypedNumbers
<1>3. DOMAIN mem.job = {}
  BY <1>1
<1>4. WaitingType /\ JobsInv
  BY <1>1, <1>2, <1>3 DEF WaitingType, JobsInv
<1>5. LineInv /\ OneChild
  BY <1>1, <1>2 DEF LineInv, OneChild, Gone
<1> QED
  BY <1>4, <1>5 DEF WaitingInv

(* The shell goes on and leaves its children alone.                        *)
ShellMove(to, typed, line, args, cwd) ==
    /\ to \in {"prompt", "execute", "end"}
    /\ pc[0] # "wait" /\ pc' = [pc EXCEPT ![0] = to]
    /\ typed \in Nat
    /\ mem' = [mem EXCEPT !.typed = typed, !.line = line, !.args = args, !.cwd = cwd]
    /\ typed = mem.typed \/ (typed = mem.typed + 1 /\ to = "execute")
    /\ to = "execute" => /\ line = args /\ args \in Seq(STRING) /\ typed = mem.typed + 1
                         /\ typed <= MaxTyped \/ args = <<"exit">>
    /\ ~mem.interrupted

LEMMA ShellMoves ==
    ASSUME WaitingInv, NEW to, NEW typed, NEW line, NEW args, NEW cwd,
           ShellMove(to, typed, line, args, cwd)
    PROVE  WaitingInv'
<1> USE DEF ShellMove
<1>1. mem' = [typed |-> typed, line |-> line, args |-> args, cwd |-> cwd,
              files |-> mem.files, interrupted |-> mem.interrupted, job |-> mem.job]
  BY DEF WaitingInv, WaitingType
<1>2. DOMAIN pc' = {0} \cup TypedJobs /\ pc'[0] = to /\ \A c \in TypedJobs : pc'[c] = pc[c]
  BY TypedNumbers DEF WaitingInv, WaitingType
<1>3. WaitingType'
  BY <1>1, <1>2 DEF WaitingInv, WaitingType
<1>4. JobsInv'
  BY <1>1, <1>2 DEF WaitingInv, WaitingType, JobsInv
<1>5. LineInv'
  <2>1. mem.typed \in Nat /\ typed >= mem.typed
    BY DEF WaitingInv, WaitingType
  <2>2. \A c \in TypedJobs : c > typed => pc[c] = "none"
    BY <2>1, TypedNumbers DEF WaitingInv, LineInv
  <2>3. to = "execute" => typed > 0 /\ typed > mem.typed
    BY <2>1
  <2>4. to = "execute" /\ typed \in TypedJobs => pc[typed] = "none"
    BY <2>1, <2>3 DEF WaitingInv, LineInv
  <2> QED
    BY <1>1, <1>2, <2>2, <2>3, <2>4 DEF LineInv
<1>6. OneChild'
  BY <1>1, <1>2 DEF WaitingInv, OneChild, Gone
<1> QED
  BY <1>3, <1>4, <1>5, <1>6 DEF WaitingInv

(* A child goes on.                                                        *)
LEMMA ChildMoves ==
    ASSUME WaitingInv, NEW c \in TypedJobs, NEW to, to # "none", ~Gone(c),
           DOMAIN pc' = DOMAIN pc, pc'[c] = to, \A t \in DOMAIN pc : t # c => pc'[t] = pc[t],
           NEW files, mem.files \subseteq files, NEW j,
           JobOK(to, j, files),
           NEW job, DOMAIN job = DOMAIN mem.job, job[c] = j,
           \A d \in DOMAIN job : d # c => job[d] = mem.job[d],
           mem' = [typed |-> mem.typed, line |-> mem.line, args |-> mem.args, cwd |-> mem.cwd,
                   files |-> files, interrupted |-> mem.interrupted, job |-> job]
    PROVE  WaitingInv'
<1>1. /\ DOMAIN pc' = {0} \cup TypedJobs /\ pc'[0] = pc[0] /\ pc'[c] = to
      /\ \A d \in TypedJobs : d # c => pc'[d] = pc[d]
  BY TypedNumbers DEF WaitingInv, WaitingType
<1>2. /\ c \in DOMAIN mem.job /\ DOMAIN mem'.job = DOMAIN mem.job
      /\ mem'.job[c] = j /\ \A d \in DOMAIN mem.job : d # c => mem'.job[d] = mem.job[d]
  BY DEF WaitingInv, WaitingType, Gone
<1>3. WaitingType'
  BY <1>1, <1>2, TypedNumbers DEF WaitingInv, WaitingType, Gone
<1>4. JobsInv'
  <2> SUFFICES ASSUME NEW d \in DOMAIN mem.job PROVE JobOK(pc'[d], mem'.job[d], mem'.files)
    BY <1>2 DEF JobsInv
  <2>1. CASE d = c
    BY <1>1, <1>2, <2>1
  <2>2. CASE d # c
    <3>1. JobOK(pc[d], mem.job[d], mem.files) /\ mem'.job[d] = mem.job[d]
      BY <1>2, <2>2 DEF WaitingInv, JobsInv
    <3>2. pc'[d] = pc[d]
      BY <1>1, <2>2 DEF WaitingInv, WaitingType
    <3> QED
      BY <3>1, <3>2 DEF JobOK, Own
  <2> QED
    BY <2>1, <2>2
<1>5. LineInv'
  BY <1>1 DEF WaitingInv, LineInv, Gone
<1>6. OneChild'
  BY <1>1 DEF WaitingInv, OneChild, Gone
<1> QED
  BY <1>3, <1>4, <1>5, <1>6 DEF WaitingInv


LEMMA Single == ASSUME NEW S, NEW x \in S PROVE <<x>> \in Seq(S)
OBVIOUS

LEMMA ReadMoves ==
    ASSUME WaitingInv, NEW l, Waiting!read_line(l)
    PROVE  WaitingInv'
<1>1. /\ pc[0] = "prompt" /\ pc' = [pc EXCEPT ![0] = "execute"]
      /\ IF mem.typed < MaxTyped THEN l \in Typed ELSE l = <<"exit">>
      /\ mem' = [mem EXCEPT !.typed = @ + 1, !.line = l, !.args = l]
  BY DEF Waiting!read_line, Waiting!Go, Waiting!shell, Waiting!Current
<1>2. mem.typed \in Nat /\ ~mem.interrupted
  BY <1>1 DEF WaitingInv, WaitingType, OneChild
<1>3. Typed \subseteq Seq(STRING)
  BY ShellAssumption, Zenon
<1>4. l \in Seq(STRING) /\ (mem.typed + 1 <= MaxTyped \/ l = <<"exit">>)
  <2>1. <<"exit">> \in Seq(STRING)
    <3>1. "exit" \in STRING
      BY StringAssumption
    <3> QED
      BY <3>1, Single, Zenon
  <2>2. mem.typed < MaxTyped => mem.typed + 1 <= MaxTyped
    BY <1>2, TypedNumbers
  <2> QED
    BY <1>1, <1>3, <2>1, <2>2, Zenon
<1> DEFINE n == mem.typed + 1
           cwd == mem.cwd
<1>5. mem' = [mem EXCEPT !.typed = n, !.line = l, !.args = l, !.cwd = cwd]
  BY <1>1 DEF WaitingInv, WaitingType
<1>6. n \in Nat /\ n = mem.typed + 1
  BY <1>2
<1>7. n <= MaxTyped \/ l = <<"exit">>
  BY <1>4
<1>8. pc[0] # "wait" /\ "execute" \in {"prompt", "execute", "end"}
  BY <1>1
<1> HIDE DEF n, cwd
<1>9. ShellMove("execute", n, l, l, cwd)
  BY <1>1, <1>2, <1>4, <1>5, <1>6, <1>7, <1>8 DEF ShellMove
<1> QED
  BY <1>9, ShellMoves, Zenon

(* An empty line, a command of the shell itself, and a fork that fails.    *)
LEMMA QuietMoves ==
    ASSUME WaitingInv, Waiting!Nothing \/ Waiting!Builtin \/ Waiting!ForkFails
    PROVE  WaitingInv'
<1>1. PICK to, cwd :
        /\ to \in {"prompt", "end"} /\ pc[0] = "execute" /\ pc' = [pc EXCEPT ![0] = to]
        /\ mem' = [mem EXCEPT !.cwd = cwd]
  <2>1. mem = [mem EXCEPT !.cwd = mem.cwd]
    BY DEF WaitingInv, WaitingType
  <2> QED
    BY <2>1 DEF Waiting!Nothing, Waiting!Builtin, Waiting!ForkFails, Waiting!Go, Waiting!shell
<1>2. mem.typed \in Nat /\ ~mem.interrupted
  BY <1>1 DEF WaitingInv, WaitingType, OneChild
<1> DEFINE n == mem.typed
           l == mem.line
           args == mem.args
<1>3. mem' = [mem EXCEPT !.typed = n, !.line = l, !.args = args, !.cwd = cwd]
  BY <1>1 DEF WaitingInv, WaitingType
<1>4. pc[0] # "wait" /\ to \in {"prompt", "execute", "end"} /\ to # "execute"
  BY <1>1
<1>5. n \in Nat /\ n = mem.typed
  BY <1>2
<1> HIDE DEF n, l, args
<1>6. ShellMove(to, n, l, args, cwd)
  BY <1>1, <1>2, <1>3, <1>4, <1>5 DEF ShellMove
<1> QED
  BY <1>6, ShellMoves, Zenon

(* The command the shell gives to a child.                                 *)
LEMMA LaunchMoves ==
    ASSUME WaitingInv, Waiting!lsh_launch
    PROVE  WaitingInv'
<1> DEFINE n == mem.typed
           j == [line |-> mem.line, dir |-> mem.cwd, args |-> mem.args, in |-> Waiting!None,
                 out |-> Waiting!None, told |-> FALSE, stopped |-> FALSE]
<1>1. /\ pc[0] = "execute" /\ mem.args # <<>> /\ ~Waiting!IsBuiltin(mem.args)
      /\ pc' = [pc EXCEPT ![0] = "wait", ![n] = "forked"]
      /\ mem' = [mem EXCEPT !.job = [c \in DOMAIN @ \cup {n} |-> IF c = n THEN j ELSE @[c]]]
  BY DEF Waiting!lsh_launch, Waiting!Fork, Waiting!shell, Waiting!Current, Waiting!Job
<1>2. n \in Nat /\ ~mem.interrupted /\ n > 0
  BY <1>1 DEF WaitingInv, WaitingType, OneChild, LineInv
<1>3. mem.line = mem.args /\ mem.args \in Seq(STRING)
  BY <1>1 DEF WaitingInv, LineInv
<1>4. n \in TypedJobs
  <2>1. mem.args # <<"exit">>
    BY <1>1 DEF Waiting!IsBuiltin, Waiting!Builtins
  <2>2. n <= MaxTyped
    BY <1>1, <2>1 DEF WaitingInv, LineInv
  <2> QED
    BY <1>2, <2>2, TypedNumbers DEF TypedJobs
<1>5. pc[n] = "none"
  BY <1>1, <1>4 DEF WaitingInv, LineInv
<1>6. JobOK("forked", j, mem.files)
  BY <1>3 DEF JobOK
<1>7. mem' = [typed |-> n, line |-> mem.line, args |-> mem.args, cwd |-> mem.cwd,
              files |-> mem.files, interrupted |-> mem.interrupted,
              job |-> [c \in DOMAIN mem.job \cup {n} |-> IF c = n THEN j ELSE mem.job[c]]]
  <2> HIDE DEF j
  <2> QED
    BY <1>1 DEF WaitingInv, WaitingType
<1> HIDE DEF j, n
<1>8. /\ DOMAIN pc' = {0} \cup TypedJobs /\ pc'[0] = "wait" /\ pc'[n] = "forked"
      /\ \A c \in TypedJobs : c # n => pc'[c] = pc[c]
  BY <1>1, <1>4, TypedNumbers DEF WaitingInv, WaitingType
<1>9. /\ DOMAIN mem'.job = DOMAIN mem.job \cup {n} /\ mem'.job[n] = j
      /\ \A c \in DOMAIN mem.job : c # n => mem'.job[c] = mem.job[c]
  BY <1>7
<1>10. WaitingType'
  BY <1>2, <1>4, <1>7, <1>8, <1>9 DEF WaitingInv, WaitingType
<1>11. JobsInv'
  <2> SUFFICES ASSUME NEW c \in DOMAIN mem'.job PROVE JobOK(pc'[c], mem'.job[c], mem'.files)
    BY DEF JobsInv
  <2>1. mem'.files = mem.files
    BY <1>7
  <2>2. CASE c = n
    BY <1>6, <1>8, <1>9, <2>1, <2>2
  <2>3. CASE c # n
    <3>1. c \in DOMAIN mem.job /\ c \in TypedJobs
      BY <1>9, <2>3 DEF WaitingInv, WaitingType
    <3> QED
      BY <1>8, <1>9, <2>1, <2>3, <3>1 DEF WaitingInv, JobsInv
  <2> QED
    BY <2>2, <2>3
<1>12. LineInv'
  <2>1. mem'.typed = n /\ pc'[0] # "execute"
    BY <1>7, <1>8
  <2>2. \A c \in TypedJobs : c > n => c # n
    BY <1>2, TypedNumbers
  <2>3. \A c \in TypedJobs : c > n => pc[c] = "none"
    BY DEF WaitingInv, LineInv, n
  <2> QED
    BY <1>4, <1>8, <2>1, <2>2, <2>3 DEF LineInv
<1>13. OneChild'
  <2>1. mem'.interrupted = mem.interrupted /\ mem'.typed = n
    BY <1>7
  <2>2. \A c \in TypedJobs : Gone(c)
    BY <1>1, <1>2 DEF WaitingInv, OneChild
  <2> QED
    BY <1>2, <1>8, <2>1, <2>2 DEF OneChild, Gone
<1> QED
  BY <1>10, <1>11, <1>12, <1>13 DEF WaitingInv


LEMMA ReapMoves ==
    ASSUME WaitingInv, Waiting!Reap
    PROVE  WaitingInv'
<1> DEFINE n == mem.typed
<1>1. /\ pc[0] = "wait" /\ pc[n] = "zombie"
      /\ pc' = [pc EXCEPT ![0] = "prompt", ![n] = "reaped"] /\ mem' = mem
  BY DEF Waiting!Reap, Waiting!shell, Waiting!Current
<1>2. n \in Nat /\ ~mem.interrupted
  BY <1>1 DEF WaitingInv, WaitingType, OneChild
<1> HIDE DEF n
<1>3. \A c \in TypedJobs : c # n => pc[c] \in {"none", "reaped"}
  BY <1>1, <1>2 DEF WaitingInv, OneChild, Gone, n
<1>4. /\ DOMAIN pc' = {0} \cup TypedJobs
      /\ \A c \in TypedJobs : pc'[c] = IF c = n THEN "reaped" ELSE pc[c]
  BY <1>1, TypedNumbers DEF WaitingInv, WaitingType
<1>5. pc'[0] \in {"prompt", "reaped"} /\ (n # 0 => pc'[0] = "prompt")
  BY <1>1 DEF WaitingInv, WaitingType
<1>6. n # 0
  BY <1>1 DEF WaitingInv, WaitingType
<1>7. WaitingType' /\ JobsInv'
  BY <1>1, <1>4, <1>5, <1>6 DEF WaitingInv, WaitingType, JobsInv, JobOK
<1>8. LineInv'
  BY <1>1, <1>4, <1>5, <1>6 DEF WaitingInv, LineInv, n
<1>9. OneChild'
  BY <1>1, <1>2, <1>3, <1>4 DEF OneChild, Gone
<1> QED
  BY <1>7, <1>8, <1>9 DEF WaitingInv

(* What is noted of a stop changes nothing else of a job.                  *)
Noted(k, told, stopped) ==
    [line |-> k.line, dir |-> k.dir, args |-> k.args, in |-> k.in, out |-> k.out,
     told |-> told, stopped |-> stopped]

LEMMA NotedJob ==
    ASSUME NEW place, NEW k, NEW files, JobOK(place, k, files), NEW told, NEW stopped
    PROVE  JobOK(place, Noted(k, told, stopped), files)
<1> DEFINE n == Noted(k, told, stopped)
<1>1. /\ n.line = k.line /\ n.dir = k.dir /\ n.args = k.args /\ n.in = k.in /\ n.out = k.out
      /\ n.told = told /\ n.stopped = stopped
  BY DEF Noted
<1>2. n = [line |-> n.line, dir |-> n.dir, args |-> n.args, in |-> n.in, out |-> n.out,
           told |-> n.told, stopped |-> n.stopped]
  BY DEF Noted
<1> HIDE DEF n
<1>3. Own(k, files) => Own(n, files)
  BY <1>1 DEF Own
<1>4. k.line \in Seq(STRING) /\ (place = "forked" => k.args = k.line)
      /\ (place \in {"exec", "running", "stopped"} => Own(k, files))
  BY DEF JobOK
<1>5. n.line \in Seq(STRING) /\ (place = "forked" => n.args = n.line)
  BY <1>1, <1>4
<1> QED
  BY <1>2, <1>3, <1>4, <1>5 DEF JobOK, n

LEMMA NotedRecord ==
    ASSUME NEW k, NEW v,
           k = [line |-> k.line, dir |-> k.dir, args |-> k.args, in |-> k.in, out |-> k.out,
                told |-> k.told, stopped |-> k.stopped]
    PROVE  /\ [k EXCEPT !.told = v] = Noted(k, v, k.stopped)
           /\ [k EXCEPT !.stopped = v] = Noted(k, k.told, v)
BY DEF Noted

LEMMA NotedIs ==
    ASSUME NEW place, NEW k, NEW files, JobOK(place, k, files), NEW v
    PROVE  /\ [k EXCEPT !.told = v] = Noted(k, v, k.stopped)
           /\ [k EXCEPT !.stopped = v] = Noted(k, k.told, v)
BY NotedRecord, Zenon DEF JobOK

LEMMA StopMoves ==
    ASSUME WaitingInv, Waiting!ToldOfStop
    PROVE  WaitingInv'
<1> DEFINE n == mem.typed
           k == mem.job[n]
           j == Noted(k, TRUE, k.stopped)
<1>1. /\ pc[0] = "wait" /\ pc[n] = "stopped" /\ pc' = pc
      /\ mem' = [mem EXCEPT !.job[n].told = TRUE]
  BY DEF Waiting!ToldOfStop, Waiting!shell, Waiting!Current
<1>2. ~mem.interrupted
  BY <1>1 DEF WaitingInv, OneChild
<1>3. n \in TypedJobs /\ n \in DOMAIN mem.job
  BY <1>1 DEF WaitingInv, WaitingType, LineInv
<1>4. JobOK("stopped", k, mem.files)
  BY <1>1, <1>3 DEF WaitingInv, JobsInv
<1>5. [k EXCEPT !.told = TRUE] = j
  <2>1. [k EXCEPT !.told = TRUE] = Noted(k, TRUE, k.stopped)
    BY <1>4, NotedIs, Zenon
  <2> QED
    BY <2>1
<1> DEFINE files == mem.files
           job == [mem.job EXCEPT ![n] = j]
<1>6. mem' = [typed |-> mem.typed, line |-> mem.line, args |-> mem.args, cwd |-> mem.cwd,
              files |-> files, interrupted |-> mem.interrupted, job |-> job]
  <2>1. mem' = [mem EXCEPT !.job = [mem.job EXCEPT ![n] = [k EXCEPT !.told = TRUE]]]
    BY <1>1
  <2> QED
    BY <1>5, <2>1 DEF WaitingInv, WaitingType
<1>7. JobOK("stopped", j, files)
  BY <1>4, NotedJob
<1>8. /\ DOMAIN pc' = DOMAIN pc /\ pc'[n] = "stopped" /\ ~Gone(n)
      /\ \A t \in DOMAIN pc : t # n => pc'[t] = pc[t]
  BY <1>1 DEF Gone
<1>9. mem.files \subseteq files /\ job[n] = j /\ DOMAIN job = DOMAIN mem.job
      /\ \A d \in DOMAIN job : d # n => job[d] = mem.job[d]
  BY <1>3
<1> HIDE DEF j, k, files, job
<1> QED
  BY <1>3, <1>6, <1>7, <1>8, <1>9, ChildMoves

(* ^C.                                                                     *)
LEMMA InterruptMoves ==
    ASSUME WaitingInv, Waiting!Interrupt
    PROVE  WaitingInv'
<1>1. /\ ~mem.interrupted /\ mem' = [mem EXCEPT !.interrupted = TRUE]
      /\ DOMAIN pc' = DOMAIN pc
      /\ pc'[0] = "end"
      /\ \A c \in TypedJobs : /\ pc'[c] \in {pc[c], "zombie", "doomed"}
                              /\ Gone(c) => pc'[c] = pc[c]
                              /\ pc'[c] = "none" => pc[c] = "none"
  <2> DEFINE dies == {t \in TypedJobs : pc[t] \in {"forked", "exec", "running"}}
             doomed == {t \in TypedJobs : pc[t] \in {"stopped"}}
  <2>1. /\ ~mem.interrupted /\ mem' = [mem EXCEPT !.interrupted = TRUE]
        /\ pc' = [t \in DOMAIN pc |-> CASE t \in dies -> "zombie"
                                        [] t \in doomed -> "doomed"
                                        [] t = 0 -> "end"
                                        [] OTHER -> pc[t]]
    BY DEF Waiting!Interrupt, Waiting!At, Waiting!Jobs, Waiting!shell, TypedJobs
  <2>2. 0 \in DOMAIN pc /\ 0 \notin dies /\ 0 \notin doomed /\ TypedJobs \subseteq DOMAIN pc
    BY TypedNumbers DEF WaitingInv, WaitingType
  <2>3. \A c \in TypedJobs : c # 0
    BY TypedNumbers
  <2>4. \A c \in TypedJobs :
          pc'[c] = CASE c \in dies -> "zombie" [] c \in doomed -> "doomed" [] OTHER -> pc[c]
    BY <2>1, <2>2, <2>3
  <2>5. \A c \in TypedJobs : (Gone(c) \/ pc[c] = "none") => c \notin dies /\ c \notin doomed
    BY DEF Gone
  <2>6. \A c \in TypedJobs : /\ pc'[c] \in {pc[c], "zombie", "doomed"}
                             /\ Gone(c) => pc'[c] = pc[c]
                             /\ pc'[c] = "none" => pc[c] = "none"
    BY <2>4, <2>5
  <2>7. DOMAIN pc' = DOMAIN pc
    BY <2>1
  <2>8. pc'[0] = "end"
    BY <2>1, <2>2
  <2> QED
    BY <2>1, <2>6, <2>7, <2>8, Zenon
<1>2. mem' = [typed |-> mem.typed, line |-> mem.line, args |-> mem.args, cwd |-> mem.cwd,
              files |-> mem.files, interrupted |-> TRUE, job |-> mem.job]
  BY <1>1 DEF WaitingInv, WaitingType
<1>3. \A c \in TypedJobs : (pc'[c] = "none") <=> (pc[c] = "none")
  <2>1. \A c \in TypedJobs : pc[c] = "none" => pc'[c] = pc[c]
    BY <1>1 DEF Gone
  <2>2. \A c \in TypedJobs : pc'[c] = "none" => pc[c] = "none"
    BY <1>1, Zenon
  <2> QED
    BY <2>1, <2>2
<1>4. WaitingType'
  <2>1. mem'.job = mem.job /\ mem'.typed = mem.typed
    BY <1>2
  <2>3. {c \in TypedJobs : pc'[c] # "none"} = {c \in TypedJobs : pc[c] # "none"}
    BY <1>3
  <2>4. mem' = [typed |-> mem'.typed, line |-> mem'.line, args |-> mem'.args, cwd |-> mem'.cwd,
                files |-> mem'.files, interrupted |-> mem'.interrupted, job |-> mem'.job]
    BY <1>2
  <2>5. DOMAIN pc = {0} \cup TypedJobs /\ mem.typed \in Nat
        /\ DOMAIN mem.job = {c \in TypedJobs : pc[c] # "none"}
    BY DEF WaitingInv, WaitingType
  <2>6. pc'[0] \in {"prompt", "execute", "wait", "end"}
    BY <1>1
  <2>7. DOMAIN mem'.job = {c \in TypedJobs : pc'[c] # "none"}
    BY <2>1, <2>3, <2>5, Zenon
  <2> QED
    BY <1>1, <2>1, <2>4, <2>5, <2>6, <2>7 DEF WaitingType
<1>5. JobsInv'
  <2> SUFFICES ASSUME NEW c \in DOMAIN mem.job PROVE JobOK(pc'[c], mem.job[c], mem.files)
    BY <1>2 DEF JobsInv
  <2>1. c \in TypedJobs /\ JobOK(pc[c], mem.job[c], mem.files)
    BY DEF WaitingInv, WaitingType, JobsInv
  <2>2. pc'[c] \in {pc[c], "zombie", "doomed"}
    BY <1>1, <2>1
  <2>3. CASE pc'[c] = pc[c]
    BY <2>1, <2>3
  <2>4. CASE pc'[c] \in {"zombie", "doomed"}
    BY <2>1, <2>4 DEF JobOK
  <2> QED
    BY <2>2, <2>3, <2>4
<1>6. LineInv'
  BY <1>1, <1>2, <1>3 DEF WaitingInv, LineInv
<1>7. OneChild'
  BY <1>1, <1>2 DEF OneChild
<1> QED
  BY <1>4, <1>5, <1>6, <1>7 DEF WaitingInv


(* A child that only goes on.                                              *)
LEMMA GoesOn ==
    ASSUME WaitingInv, NEW c \in TypedJobs, NEW from, NEW to,
           from \notin {"none", "reaped"}, to # "none",
           pc[c] = from, pc' = [pc EXCEPT ![c] = to], mem' = mem,
           to \in {"exec", "running", "stopped"} => from \in {"exec", "running", "stopped"},
           to # "forked"
    PROVE  WaitingInv'
<1> DEFINE j == mem.job[c]
           files == mem.files
           job == mem.job
<1>1. /\ DOMAIN pc' = DOMAIN pc /\ pc'[c] = to /\ ~Gone(c)
      /\ \A t \in DOMAIN pc : t # c => pc'[t] = pc[t]
  BY DEF WaitingInv, WaitingType, Gone
<1>2. c \in DOMAIN mem.job
  BY DEF WaitingInv, WaitingType
<1>3. JobOK(from, j, files)
  BY <1>2 DEF WaitingInv, JobsInv
<1>4. JobOK(to, j, files)
  <2> HIDE DEF j, files
  <2> QED
    BY <1>3 DEF JobOK
<1>5. mem' = [typed |-> mem.typed, line |-> mem.line, args |-> mem.args, cwd |-> mem.cwd,
              files |-> files, interrupted |-> mem.interrupted, job |-> job]
  BY DEF WaitingInv, WaitingType
<1>6. mem.files \subseteq files /\ job[c] = j /\ DOMAIN job = DOMAIN mem.job
      /\ \A d \in DOMAIN job : d # c => job[d] = mem.job[d]
  OBVIOUS
<1> HIDE DEF j, files, job
<1> QED
  BY <1>1, <1>4, <1>5, <1>6, ChildMoves


LEMMA RedirectMoves ==
    ASSUME WaitingInv, NEW c \in TypedJobs, Waiting!Redirect(c)
    PROVE  WaitingInv'
<1>0. PICK out \in {Waiting!After(mem.job[c].args, ">"), Waiting!None} :
        mem' = [mem EXCEPT
          !.files = IF out = Waiting!None THEN @ ELSE @ \cup {out},
          !.job[c].in = IF Waiting!After(mem.job[c].args, "<") \in mem.files
                        THEN Waiting!After(mem.job[c].args, "<") ELSE Waiting!None,
          !.job[c].out = out,
          !.job[c].args = Waiting!ioredirect_remove_tokens(mem.job[c].args)]
  BY DEF Waiting!Redirect
<1> DEFINE k == mem.job[c]
           in == Waiting!After(k.args, "<")
           newIn == IF in \in mem.files THEN in ELSE Waiting!None
           args == Waiting!ioredirect_remove_tokens(k.args)
           files == IF out = Waiting!None THEN mem.files ELSE mem.files \cup {out}
           j == [line |-> k.line, dir |-> k.dir, args |-> args, in |-> newIn, out |-> out,
                 told |-> k.told, stopped |-> k.stopped]
           job == [mem.job EXCEPT ![c] = j]
<1>1. /\ pc[c] = "forked" /\ pc' = [pc EXCEPT ![c] = "exec"]
      /\ mem' = [mem EXCEPT !.files = files, !.job[c].in = newIn, !.job[c].out = out,
                            !.job[c].args = args]
  BY <1>0 DEF Waiting!Redirect, Waiting!Go
<1>2. c \in DOMAIN mem.job
  BY <1>1 DEF WaitingInv, WaitingType
<1>3. JobOK("forked", k, mem.files)
  BY <1>1, <1>2 DEF WaitingInv, JobsInv
<1>4. k.line \in Seq(STRING) /\ k.args = k.line
  BY <1>3 DEF JobOK
<1>5. /\ out # Waiting!None => Waiting!Contains(k.line, out)
      /\ in # Waiting!None => Waiting!Contains(k.line, in)
  BY <1>0, <1>4, AfterLemma
<1>6. JobOK("exec", j, files)
  <2>1. /\ j.line = k.line /\ j.args = args /\ j.in = newIn /\ j.out = out
        /\ j = [line |-> j.line, dir |-> j.dir, args |-> j.args, in |-> j.in, out |-> j.out,
                told |-> j.told, stopped |-> j.stopped]
    OBVIOUS
  <2>2. args = Waiting!ioredirect_remove_tokens(k.line)
    BY <1>4
  <2>3. newIn # Waiting!None => newIn \in files /\ Waiting!Contains(k.line, newIn)
    BY <1>5
  <2>4. out # Waiting!None => out \in files /\ Waiting!Contains(k.line, out)
    BY <1>5
  <2> HIDE DEF j, args, newIn, files, k
  <2>5. Own(j, files)
    BY <2>1, <2>2, <2>3, <2>4 DEF Own
  <2> QED
    BY <1>4, <2>1, <2>5 DEF JobOK
<1>7. mem' = [typed |-> mem.typed, line |-> mem.line, args |-> mem.args, cwd |-> mem.cwd,
              files |-> files, interrupted |-> mem.interrupted, job |-> job]
  <2> HIDE DEF args, newIn, files
  <2>1. mem' = [mem EXCEPT !.files = files,
                 !.job = [mem.job EXCEPT ![c] =
                            [[[k EXCEPT !.in = newIn] EXCEPT !.out = out] EXCEPT !.args = args]]]
    BY <1>1, <1>2
  <2>2. [[[k EXCEPT !.in = newIn] EXCEPT !.out = out] EXCEPT !.args = args] = j
    <3> HIDE DEF k
    <3> DEFINE k1 == [k EXCEPT !.in = newIn]
               k2 == [k1 EXCEPT !.out = out]
               k3 == [k2 EXCEPT !.args = args]
    <3>1. k = [line |-> k.line, dir |-> k.dir, args |-> k.args, in |-> k.in, out |-> k.out,
               told |-> k.told, stopped |-> k.stopped]
      BY <1>3 DEF JobOK
    <3>2. k1 = [line |-> k.line, dir |-> k.dir, args |-> k.args, in |-> newIn, out |-> k.out,
                told |-> k.told, stopped |-> k.stopped]
      BY <3>1
    <3> HIDE DEF k1
    <3>3. k2 = [line |-> k.line, dir |-> k.dir, args |-> k.args, in |-> newIn, out |-> out,
                told |-> k.told, stopped |-> k.stopped]
      BY <3>2
    <3> HIDE DEF k2
    <3>4. k3 = [line |-> k.line, dir |-> k.dir, args |-> args, in |-> newIn, out |-> out,
                told |-> k.told, stopped |-> k.stopped]
      BY <3>3
    <3>5. k3 = j
      BY <3>4, Zenon
    <3> QED
      BY <3>5, Zenon DEF k1, k2
  <2> QED
    BY <2>1, <2>2 DEF WaitingInv, WaitingType
<1>8. /\ DOMAIN pc' = DOMAIN pc /\ pc'[c] = "exec" /\ ~Gone(c)
      /\ \A t \in DOMAIN pc : t # c => pc'[t] = pc[t]
  BY <1>1 DEF WaitingInv, WaitingType, Gone
<1>9. job[c] = j /\ DOMAIN job = DOMAIN mem.job
      /\ \A d \in DOMAIN job : d # c => job[d] = mem.job[d]
  <2> HIDE DEF j
  <2> QED
    BY <1>2
<1>10. mem.files \subseteq files
  OBVIOUS
<1> HIDE DEF j, k, files, job, in, newIn, args
<1> QED
  BY <1>6, <1>7, <1>8, <1>9, <1>10, ChildMoves

LEMMA StopsMoves ==
    ASSUME WaitingInv, NEW c \in TypedJobs, Waiting!Stops(c)
    PROVE  WaitingInv'
<1> DEFINE k == mem.job[c]
           j == Noted(k, k.told, TRUE)
           files == mem.files
           job == [mem.job EXCEPT ![c] = j]
<1>1. /\ pc[c] = "running" /\ pc' = [pc EXCEPT ![c] = "stopped"]
      /\ mem' = [mem EXCEPT !.job[c].stopped = TRUE]
  BY DEF Waiting!Stops, Waiting!Go
<1>2. c \in DOMAIN mem.job
  BY <1>1 DEF WaitingInv, WaitingType
<1>3. JobOK("running", k, files)
  BY <1>1, <1>2 DEF WaitingInv, JobsInv
<1>4. JobOK("stopped", k, files)
  <2> HIDE DEF k, files
  <2> QED
    BY <1>3 DEF JobOK
<1>5. JobOK("stopped", j, files)
  BY <1>4, NotedJob
<1>6. [k EXCEPT !.stopped = TRUE] = j
  BY <1>4, NotedIs, Zenon
<1>7. mem' = [typed |-> mem.typed, line |-> mem.line, args |-> mem.args, cwd |-> mem.cwd,
              files |-> files, interrupted |-> mem.interrupted, job |-> job]
  <2>1. mem' = [mem EXCEPT !.job = [mem.job EXCEPT ![c] = [k EXCEPT !.stopped = TRUE]]]
    BY <1>1
  <2> QED
    BY <1>6, <2>1 DEF WaitingInv, WaitingType
<1>8. /\ DOMAIN pc' = DOMAIN pc /\ pc'[c] = "stopped" /\ ~Gone(c)
      /\ \A t \in DOMAIN pc : t # c => pc'[t] = pc[t]
  BY <1>1 DEF WaitingInv, WaitingType, Gone
<1>9. mem.files \subseteq files /\ job[c] = j /\ DOMAIN job = DOMAIN mem.job
      /\ \A d \in DOMAIN job : d # c => job[d] = mem.job[d]
  BY <1>2
<1> HIDE DEF j, k, files, job
<1> QED
  BY <1>5, <1>7, <1>8, <1>9, ChildMoves

LEMMA WaitingStep == WaitingInv /\ Waiting!Next => WaitingInv'
<1> SUFFICES ASSUME WaitingInv, Waiting!Next PROVE WaitingInv'
  OBVIOUS
<1>1. ASSUME NEW l, Waiting!read_line(l) PROVE WaitingInv'
  BY <1>1, ReadMoves
<1>2. ASSUME Waiting!Nothing \/ Waiting!Builtin \/ Waiting!ForkFails PROVE WaitingInv'
  BY <1>2, QuietMoves
<1>3. ASSUME Waiting!lsh_launch PROVE WaitingInv'
  BY <1>3, LaunchMoves
<1>4. ~Waiting!exec_child
  BY DEF Waiting!exec_child
<1>5. ASSUME NEW c \in TypedJobs, Waiting!Child(c) PROVE WaitingInv'
  <2>1. CASE Waiting!Redirect(c)
    BY <2>1, RedirectMoves
  <2>2. CASE Waiting!execvp(c)
    <3>1. PICK to \in {"running", "zombie"} :
            pc[c] = "exec" /\ pc' = [pc EXCEPT ![c] = to] /\ mem' = mem
      BY <2>2 DEF Waiting!execvp, Waiting!Go
    <3> QED
      BY <3>1, GoesOn
  <2>3. ~Waiting!execvpUnended(c)
    BY DEF Waiting!execvpUnended
  <2>4. CASE Waiting!Ends(c)
    BY <2>4, GoesOn DEF Waiting!Ends, Waiting!Go
  <2>5. CASE Waiting!Stops(c)
    BY <2>5, StopsMoves
  <2>6. CASE Waiting!Continues(c)
    BY <2>6, GoesOn DEF Waiting!Continues, Waiting!Go
  <2> QED
    BY <1>5, <2>1, <2>2, <2>3, <2>4, <2>5, <2>6, Zenon DEF Waiting!Child
<1> QED
  BY <1>1, <1>2, <1>3, <1>4, <1>5, ReapMoves, StopMoves, InterruptMoves
     DEF Waiting!Next, Waiting!Jobs, TypedJobs

LEMMA WaitingRests == WaitingInv /\ UNCHANGED vars => WaitingInv'
<1> SUFFICES ASSUME WaitingInv, UNCHANGED vars PROVE WaitingInv'
  OBVIOUS
<1>1. pc' = pc /\ mem' = mem
  BY DEF vars
<1> QED
  BY <1>1 DEF WaitingInv, WaitingType, JobsInv, LineInv, OneChild, Gone

LEMMA CommandsWait == WaitingInv => Waiting!CommandsApart
<1> SUFFICES ASSUME WaitingInv PROVE Waiting!CommandsApart
  OBVIOUS
<1>1. Waiting!OneAtATime
  BY DEF WaitingInv, OneChild, Gone, Waiting!OneAtATime, Waiting!Jobs, Waiting!None,
         Waiting!shell, TypedJobs
<1>2. Waiting!OwnLine
  <2> SUFFICES ASSUME NEW c \in TypedJobs, pc[c] \in {"running", "stopped"}
               PROVE  Own(mem.job[c], mem.files)
    BY DEF Waiting!OwnLine, Waiting!At, Waiting!Jobs, TypedJobs, Own
  <2>1. c \in DOMAIN mem.job
    BY DEF WaitingInv, WaitingType
  <2>2. JobOK(pc[c], mem.job[c], mem.files)
    BY <2>1 DEF WaitingInv, JobsInv
  <2> QED
    BY <2>2 DEF JobOK
<1> QED
  BY <1>1, <1>2 DEF Waiting!CommandsApart

-----------------------------------------------------------------------------
(* kshell.c: a child keeps the terminal, and whatever of other lines is    *)
(* left in args stands behind the tokens of its own.                       *)
QueriedJobs == 1 .. MaxQueried
AskedJob(j) ==
    /\ j = [line |-> j.line, dir |-> j.dir, args |-> j.args, in |-> Asking!None,
            out |-> Asking!None, told |-> j.told, stopped |-> j.stopped]
    /\ j.line \in Seq(STRING) /\ j.args \in Seq(STRING)
    /\ Asking!IsPrefix(j.line, j.args)
AskingType ==
    /\ DOMAIN pc = {0} \cup QueriedJobs
    /\ pc[0] \in {"prompt", "execute"}
    /\ mem = [typed |-> mem.typed, line |-> mem.line, args |-> mem.args, cwd |-> mem.cwd,
              files |-> mem.files, interrupted |-> mem.interrupted, job |-> mem.job]
    /\ mem.typed \in Nat /\ mem.line \in Seq(STRING) /\ mem.args \in Seq(STRING)
    /\ DOMAIN mem.job = {c \in QueriedJobs : pc[c] # "none"}
AskedInv == \A c \in DOMAIN mem.job : AskedJob(mem.job[c])
QueryInv ==
    /\ pc[0] = "execute" =>
         /\ Asking!IsPrefix(mem.line, mem.args)
         /\ mem.typed \in QueriedJobs /\ pc[mem.typed] = "none"
    /\ \A c \in QueriedJobs : c > mem.typed => pc[c] = "none"
AskingInv == AskingType /\ AskedInv /\ QueryInv

LEMMA QueriedNumbers ==
    QueriedJobs \subseteq Nat /\ 0 \notin QueriedJobs /\ MaxQueried \in Nat
<1>1. MaxQueried \in Nat
  BY ShellAssumption, Zenon
<1> QED
  BY <1>1 DEF QueriedJobs

LEMMA EmptyLine == <<>> \in Seq(STRING)
OBVIOUS

LEMMA AskingStart == Asking!Init => AskingInv
<1> SUFFICES ASSUME Asking!Init PROVE AskingInv
  OBVIOUS
<1>1. /\ pc = [t \in {0} \cup QueriedJobs |-> IF t = 0 THEN "prompt" ELSE "none"]
      /\ mem = [typed |-> 0, line |-> <<>>, args |-> <<>>, cwd |-> "home", files |-> Files,
                interrupted |-> FALSE, job |-> <<>>]
  BY DEF Asking!Init, Asking!shell, Asking!Jobs, Asking!None, QueriedJobs
<1>2. pc[0] = "prompt" /\ \A c \in QueriedJobs : pc[c] = "none"
  BY <1>1, QueriedNumbers
<1>3. DOMAIN mem.job = {}
  BY <1>1
<1>4. AskingType /\ AskedInv
  BY <1>1, <1>2, <1>3, EmptyLine DEF AskingType, AskedInv
<1>5. QueryInv
  BY <1>1, <1>2 DEF QueryInv
<1> QED
  BY <1>4, <1>5 DEF AskingInv

(* The children go on, the shell does not.                                 *)
LEMMA AskedMove ==
    ASSUME AskingInv, DOMAIN pc' = DOMAIN pc, pc'[0] = pc[0],
           \A c \in QueriedJobs : (pc'[c] = "none") <=> (pc[c] = "none"),
           NEW i, NEW job, DOMAIN job = DOMAIN mem.job, \A d \in DOMAIN job : AskedJob(job[d]),
           mem' = [typed |-> mem.typed, line |-> mem.line, args |-> mem.args, cwd |-> mem.cwd,
                   files |-> mem.files, interrupted |-> i, job |-> job]
    PROVE  AskingInv'
<1>1. {c \in QueriedJobs : pc'[c] # "none"} = {c \in QueriedJobs : pc[c] # "none"}
  OBVIOUS
<1>2. mem' = [typed |-> mem'.typed, line |-> mem'.line, args |-> mem'.args, cwd |-> mem'.cwd,
              files |-> mem'.files, interrupted |-> mem'.interrupted, job |-> mem'.job]
  OBVIOUS
<1>3. /\ mem'.typed = mem.typed /\ mem'.line = mem.line /\ mem'.args = mem.args
      /\ mem'.job = job
  OBVIOUS
<1>4. DOMAIN mem'.job = {c \in QueriedJobs : pc'[c] # "none"}
  BY <1>1, <1>3, Zenon DEF AskingInv, AskingType
<1>5. /\ DOMAIN pc = {0} \cup QueriedJobs /\ pc[0] \in {"prompt", "execute"}
      /\ mem.typed \in Nat /\ mem.line \in Seq(STRING) /\ mem.args \in Seq(STRING)
  BY DEF AskingInv, AskingType
<1>6. AskingType'
  BY <1>2, <1>3, <1>4, <1>5 DEF AskingType
<1>7. AskedInv'
  BY <1>3 DEF AskedInv
<1>8. QueryInv'
  BY <1>3 DEF AskingInv, QueryInv
<1> QED
  BY <1>6, <1>7, <1>8 DEF AskingInv

LEMMA QueryMoves ==
    ASSUME AskingInv, NEW l, Asking!read_line(l)
    PROVE  AskingInv'
<1> DEFINE rest == SubSeq(mem.args, Len(Append(l, "")) + 1, Len(mem.args))
           args == Append(l, "") \o rest
           n == mem.typed + 1
<1>1. /\ pc[0] = "prompt" /\ pc' = [pc EXCEPT ![0] = "execute"]
      /\ mem.typed < MaxQueried /\ l \in Queried
      /\ mem' = [mem EXCEPT !.typed = n, !.line = l, !.args = args]
  BY DEF Asking!read_line, Asking!Go, Asking!shell, Asking!Current, Asking!Overwrite
<1>2. Queried \subseteq Seq(STRING)
  BY ShellAssumption, Zenon
<1>3. l \in Seq(STRING) /\ mem.typed \in Nat /\ mem.args \in Seq(STRING)
  BY <1>1, <1>2 DEF AskingInv, AskingType
<1>4. "" \in STRING
  BY StringAssumption
<1> DEFINE e == ""
           y == mem.args
           Args(x) == Append(l, x) \o SubSeq(y, Len(Append(l, x)) + 1, Len(y))
<1>5. args = Args(e) /\ e \in STRING /\ y \in Seq(STRING)
  BY <1>3, <1>4
<1>6. Args(e) \in Seq(STRING) /\ Asking!IsPrefix(l, Args(e))
  <2> HIDE DEF e, y
  <2> QED
    BY <1>3, <1>5, OverwriteLemma, Zenon
<1> HIDE DEF rest, args, Args
<1>7. args \in Seq(STRING)
  BY <1>5, <1>6
<1>8. Asking!IsPrefix(l, args)
  BY <1>5, <1>6
<1>9. n \in QueriedJobs /\ n > mem.typed
  BY <1>1, <1>3, QueriedNumbers DEF QueriedJobs
<1>10. pc[n] = "none"
  BY <1>9 DEF AskingInv, QueryInv
<1> HIDE DEF rest, args
<1>11. mem' = [typed |-> n, line |-> l, args |-> args, cwd |-> mem.cwd,
               files |-> mem.files, interrupted |-> mem.interrupted, job |-> mem.job]
  BY <1>1 DEF AskingInv, AskingType
<1>12. /\ DOMAIN pc' = {0} \cup QueriedJobs /\ pc'[0] = "execute"
       /\ \A c \in QueriedJobs : pc'[c] = pc[c]
  BY <1>1, QueriedNumbers DEF AskingInv, AskingType
<1>13. n \in Nat
  BY <1>3
<1> HIDE DEF n
<1>14. AskingType'
  BY <1>3, <1>7, <1>11, <1>12, <1>13 DEF AskingInv, AskingType
<1>15. AskedInv'
  BY <1>11 DEF AskingInv, AskedInv
<1>16. QueryInv'
  <2>1. \A c \in QueriedJobs : c > n => c > mem.typed
    BY <1>3, <1>9, <1>13, QueriedNumbers
  <2> QED
    BY <1>8, <1>9, <1>10, <1>11, <1>12, <2>1 DEF AskingInv, QueryInv
<1> QED
  BY <1>14, <1>15, <1>16 DEF AskingInv

(* A fork that fails leaves the line unanswered.                           *)
LEMMA Unanswered ==
    ASSUME AskingInv, pc[0] = "execute", pc' = [pc EXCEPT ![0] = "prompt"], mem' = mem
    PROVE  AskingInv'
<1>1. /\ DOMAIN pc' = {0} \cup QueriedJobs /\ pc'[0] = "prompt"
      /\ \A c \in QueriedJobs : pc'[c] = pc[c]
  BY QueriedNumbers DEF AskingInv, AskingType
<1>2. AskingType'
  BY <1>1 DEF AskingInv, AskingType
<1>3. AskedInv' /\ QueryInv'
  BY <1>1 DEF AskingInv, AskedInv, QueryInv
<1> QED
  BY <1>2, <1>3 DEF AskingInv

LEMMA ExecMoves ==
    ASSUME AskingInv, Asking!exec_child
    PROVE  AskingInv'
<1> DEFINE n == mem.typed
           j == [line |-> mem.line, dir |-> mem.cwd, args |-> mem.args, in |-> Asking!None,
                 out |-> Asking!None, told |-> FALSE, stopped |-> FALSE]
<1>1. /\ pc[0] = "execute" /\ pc' = [pc EXCEPT ![0] = "prompt", ![n] = "forked"]
      /\ mem' = [mem EXCEPT !.job = [c \in DOMAIN @ \cup {n} |-> IF c = n THEN j ELSE @[c]]]
  BY DEF Asking!exec_child, Asking!Fork, Asking!shell, Asking!Current, Asking!Job
<1>2. n \in Nat /\ n \in QueriedJobs /\ pc[n] = "none"
  BY <1>1 DEF AskingInv, AskingType, QueryInv
<1>3. AskedJob(j)
  BY <1>1 DEF AskingInv, AskingType, QueryInv, AskedJob
<1>4. mem' = [typed |-> n, line |-> mem.line, args |-> mem.args, cwd |-> mem.cwd,
              files |-> mem.files, interrupted |-> mem.interrupted,
              job |-> [c \in DOMAIN mem.job \cup {n} |-> IF c = n THEN j ELSE mem.job[c]]]
  <2> HIDE DEF j
  <2> QED
    BY <1>1 DEF AskingInv, AskingType
<1> HIDE DEF j, n
<1>5. /\ DOMAIN pc' = {0} \cup QueriedJobs /\ pc'[0] = "prompt" /\ pc'[n] = "forked"
      /\ \A c \in QueriedJobs : c # n => pc'[c] = pc[c]
  BY <1>1, <1>2, QueriedNumbers DEF AskingInv, AskingType
<1>6. /\ DOMAIN mem'.job = DOMAIN mem.job \cup {n} /\ mem'.job[n] = j
      /\ \A c \in DOMAIN mem.job : c # n => mem'.job[c] = mem.job[c]
  BY <1>4
<1>7. AskingType'
  BY <1>2, <1>4, <1>5, <1>6 DEF AskingInv, AskingType
<1>8. AskedInv'
  BY <1>3, <1>6 DEF AskingInv, AskedInv
<1>9. QueryInv'
  <2>1. mem'.typed = n
    BY <1>4
  <2>2. \A c \in QueriedJobs : c > n => c # n
    BY <1>2, QueriedNumbers
  <2>3. \A c \in QueriedJobs : c > n => pc[c] = "none"
    BY DEF AskingInv, QueryInv, n
  <2> QED
    BY <1>5, <2>1, <2>2, <2>3 DEF QueryInv
<1> QED
  BY <1>7, <1>8, <1>9 DEF AskingInv

(* What stands behind args goes with it.                                   *)
LEMMA UnendedMoves ==
    ASSUME AskingInv, NEW c \in QueriedJobs, Asking!execvpUnended(c)
    PROVE  AskingInv'
<1> DEFINE k == mem.job[c]
           inter == mem.interrupted
<1>1. /\ pc[c] = "forked"
      /\ \E to \in {"running", "zombie"} : pc' = [pc EXCEPT ![c] = to]
  BY DEF Asking!execvpUnended, Asking!Go
<1>2. c \in DOMAIN mem.job
  BY <1>1 DEF AskingInv, AskingType
<1>3. AskedJob(k)
  BY <1>2 DEF AskingInv, AskedInv
<1>4. /\ DOMAIN pc' = DOMAIN pc /\ pc'[0] = pc[0]
      /\ \A d \in QueriedJobs : (pc'[d] = "none") <=> (pc[d] = "none")
  BY <1>1, QueriedNumbers DEF AskingInv, AskingType
<1>5. PICK rest \in Seq(STRING) :
        mem' = [mem EXCEPT !.job[c].args = k.args \o rest] \/ mem' = mem
  <2>1. "?" \in STRING
    BY StringAssumption
  <2>2. <<"?">> \in Seq(STRING)
    BY <2>1, Single, Zenon
  <2> QED
    BY <2>2, EmptyLine DEF Asking!execvpUnended
<1> DEFINE args == k.args \o rest
           j == [line |-> k.line, dir |-> k.dir, args |-> args, in |-> k.in, out |-> k.out,
                 told |-> k.told, stopped |-> k.stopped]
           job == [mem.job EXCEPT ![c] = j]
<1>6. CASE mem' = mem
  <2> DEFINE same == mem.job
  <2>1. mem' = [typed |-> mem.typed, line |-> mem.line, args |-> mem.args, cwd |-> mem.cwd,
                files |-> mem.files, interrupted |-> inter, job |-> same]
    BY <1>6 DEF AskingInv, AskingType
  <2>2. \A d \in DOMAIN same : AskedJob(same[d])
    BY DEF AskingInv, AskedInv
  <2>3. DOMAIN same = DOMAIN mem.job
    OBVIOUS
  <2> HIDE DEF same, inter
  <2> QED
    BY <1>4, <2>1, <2>2, <2>3, AskedMove
<1>7. CASE mem' = [mem EXCEPT !.job[c].args = args]
  <2>1. [k EXCEPT !.args = args] = j
    <3> HIDE DEF k, args
    <3> QED
      BY <1>3 DEF AskedJob
  <2>2. AskedJob(j)
    <3>1. k.line \in Seq(STRING) /\ k.args \in Seq(STRING) /\ Asking!IsPrefix(k.line, k.args)
          /\ k.in = Asking!None /\ k.out = Asking!None
      BY <1>3 DEF AskedJob
    <3>2. args \in Seq(STRING)
      BY <3>1
    <3>3. Asking!IsPrefix(k.line, args)
      BY <3>1, PrefixLemma
    <3>4. /\ j.line = k.line /\ j.args = args
          /\ j = [line |-> j.line, dir |-> j.dir, args |-> j.args, in |-> k.in,
                  out |-> k.out, told |-> j.told, stopped |-> j.stopped]
      OBVIOUS
    <3> HIDE DEF j, args, k
    <3> QED
      BY <3>1, <3>2, <3>3, <3>4 DEF AskedJob
  <2>3. mem' = [typed |-> mem.typed, line |-> mem.line, args |-> mem.args, cwd |-> mem.cwd,
                files |-> mem.files, interrupted |-> inter, job |-> job]
    <3>1. mem' = [mem EXCEPT !.job = [mem.job EXCEPT ![c] = [k EXCEPT !.args = args]]]
      BY <1>7
    <3> QED
      BY <2>1, <3>1 DEF AskingInv, AskingType
  <2>4. DOMAIN job = DOMAIN mem.job /\ \A d \in DOMAIN job : AskedJob(job[d])
    <3> HIDE DEF j
    <3> QED
      BY <1>2, <2>2 DEF AskingInv, AskedInv
  <2> HIDE DEF job, inter
  <2> QED
    BY <1>4, <2>3, <2>4, AskedMove
<1> QED
  BY <1>5, <1>6, <1>7

LEMMA AskedStops ==
    ASSUME AskingInv, NEW c \in QueriedJobs, Asking!Stops(c)
    PROVE  AskingInv'
<1> DEFINE k == mem.job[c]
           j == Noted(k, k.told, TRUE)
           job == [mem.job EXCEPT ![c] = j]
           inter == mem.interrupted
<1>1. /\ pc[c] = "running" /\ pc' = [pc EXCEPT ![c] = "stopped"]
      /\ mem' = [mem EXCEPT !.job[c].stopped = TRUE]
  BY DEF Asking!Stops, Asking!Go
<1>2. c \in DOMAIN mem.job
  BY <1>1 DEF AskingInv, AskingType
<1>3. AskedJob(k)
  BY <1>2 DEF AskingInv, AskedInv
<1>4. /\ DOMAIN pc' = DOMAIN pc /\ pc'[0] = pc[0]
      /\ \A d \in QueriedJobs : (pc'[d] = "none") <=> (pc[d] = "none")
  BY <1>1, QueriedNumbers DEF AskingInv, AskingType
<1>5. [k EXCEPT !.stopped = TRUE] = j
  <2> HIDE DEF k
  <2>1. k.in = Asking!None /\ k.out = Asking!None
    BY <1>3 DEF AskedJob
  <2>2. k = [line |-> k.line, dir |-> k.dir, args |-> k.args, in |-> k.in, out |-> k.out,
             told |-> k.told, stopped |-> k.stopped]
    BY <1>3, <2>1, Zenon DEF AskedJob
  <2> QED
    BY <2>2, NotedRecord, Zenon
<1>6. AskedJob(j)
  <2> HIDE DEF k
  <2>1. /\ j.line = k.line /\ j.args = k.args
        /\ j = [line |-> j.line, dir |-> j.dir, args |-> j.args, in |-> k.in,
                out |-> k.out, told |-> j.told, stopped |-> j.stopped]
    BY DEF Noted
  <2>2. k.in = Asking!None /\ k.out = Asking!None
    BY <1>3 DEF AskedJob
  <2> HIDE DEF j
  <2> QED
    BY <1>3, <2>1, <2>2 DEF AskedJob
<1>7. mem' = [typed |-> mem.typed, line |-> mem.line, args |-> mem.args, cwd |-> mem.cwd,
              files |-> mem.files, interrupted |-> inter, job |-> job]
  <2>1. mem' = [mem EXCEPT !.job = [mem.job EXCEPT ![c] = [k EXCEPT !.stopped = TRUE]]]
    BY <1>1
  <2> QED
    BY <1>5, <2>1 DEF AskingInv, AskingType
<1>8. DOMAIN job = DOMAIN mem.job /\ \A d \in DOMAIN job : AskedJob(job[d])
  <2> HIDE DEF j
  <2> QED
    BY <1>2, <1>6 DEF AskingInv, AskedInv
<1> HIDE DEF job, inter
<1> QED
  BY <1>4, <1>7, <1>8, AskedMove

(* A child ends or goes on, and ^C.                                        *)
LEMMA AskedGoes ==
    ASSUME AskingInv,
           \/ \E c \in QueriedJobs : Asking!Ends(c) \/ Asking!Continues(c)
           \/ Asking!Interrupt
    PROVE  AskingInv'
<1> DEFINE job == mem.job
<1>1. \A d \in DOMAIN job : AskedJob(job[d])
  BY DEF AskingInv, AskedInv
<1>2. DOMAIN job = DOMAIN mem.job
  OBVIOUS
<1>3. ASSUME NEW c \in QueriedJobs, Asking!Ends(c) \/ Asking!Continues(c) PROVE AskingInv'
  <2> DEFINE inter == mem.interrupted
  <2>1. PICK to \in {"zombie", "running"} :
          pc[c] # "none" /\ pc' = [pc EXCEPT ![c] = to] /\ mem' = mem
    BY <1>3 DEF Asking!Ends, Asking!Continues, Asking!Go
  <2>2. /\ DOMAIN pc' = DOMAIN pc /\ pc'[0] = pc[0]
        /\ \A d \in QueriedJobs : (pc'[d] = "none") <=> (pc[d] = "none")
    BY <2>1, QueriedNumbers DEF AskingInv, AskingType
  <2>3. mem' = [typed |-> mem.typed, line |-> mem.line, args |-> mem.args, cwd |-> mem.cwd,
                files |-> mem.files, interrupted |-> inter, job |-> job]
    BY <2>1 DEF AskingInv, AskingType
  <2> HIDE DEF job, inter
  <2> QED
    BY <1>1, <1>2, <2>2, <2>3, AskedMove
<1>4. ASSUME Asking!Interrupt PROVE AskingInv'
  <2> DEFINE dies == {t \in QueriedJobs : pc[t] \in {"running"}}
             doomed == {t \in QueriedJobs : pc[t] \in {"stopped"}}
             inter == TRUE
  <2>1. /\ mem' = [mem EXCEPT !.interrupted = TRUE]
        /\ pc' = [t \in DOMAIN pc |-> CASE t \in dies -> "zombie"
                                        [] t \in doomed -> "doomed"
                                        [] OTHER -> pc[t]]
    BY <1>4 DEF Asking!Interrupt, Asking!At, Asking!Jobs, Asking!shell, QueriedJobs
  <2>2. 0 \in DOMAIN pc /\ 0 \notin dies /\ 0 \notin doomed /\ QueriedJobs \subseteq DOMAIN pc
    BY QueriedNumbers DEF AskingInv, AskingType
  <2>3. DOMAIN pc' = DOMAIN pc /\ pc'[0] = pc[0]
    BY <2>1, <2>2
  <2>4. \A d \in QueriedJobs :
          pc'[d] = CASE d \in dies -> "zombie" [] d \in doomed -> "doomed" [] OTHER -> pc[d]
    BY <2>1, <2>2
  <2>5. \A d \in QueriedJobs : (pc'[d] = "none") <=> (pc[d] = "none")
    BY <2>4
  <2>6. mem' = [typed |-> mem.typed, line |-> mem.line, args |-> mem.args, cwd |-> mem.cwd,
                files |-> mem.files, interrupted |-> inter, job |-> job]
    BY <2>1 DEF AskingInv, AskingType
  <2> HIDE DEF job, inter
  <2> QED
    BY <1>1, <1>2, <2>3, <2>5, <2>6, AskedMove
<1> QED
  BY <1>3, <1>4

LEMMA AskingStep == AskingInv /\ Asking!Next => AskingInv'
<1> SUFFICES ASSUME AskingInv, Asking!Next PROVE AskingInv'
  OBVIOUS
<1>1. ASSUME NEW l, Asking!read_line(l) PROVE AskingInv'
  BY <1>1, QueryMoves
<1>2. CASE Asking!Nothing \/ Asking!ForkFails
  BY <1>2, Unanswered DEF Asking!Nothing, Asking!ForkFails, Asking!Go, Asking!shell
<1>3. CASE Asking!exec_child
  BY <1>3, ExecMoves
<1>4. ~Asking!lsh_launch /\ ~Asking!Builtin
  BY DEF Asking!lsh_launch, Asking!Builtin, Asking!IsBuiltin
<1>5. ~Asking!Reap /\ ~Asking!ToldOfStop
  BY DEF AskingInv, AskingType, Asking!Reap, Asking!ToldOfStop, Asking!shell
<1>6. ASSUME NEW c \in QueriedJobs, Asking!Child(c) PROVE AskingInv'
  <2>1. ~Asking!Redirect(c) /\ ~Asking!execvp(c)
    BY DEF Asking!Redirect, Asking!execvp
  <2>2. CASE Asking!execvpUnended(c)
    BY <2>2, UnendedMoves
  <2>3. CASE Asking!Ends(c) \/ Asking!Continues(c)
    BY <2>3, AskedGoes
  <2>4. CASE Asking!Stops(c)
    BY <2>4, AskedStops
  <2> QED
    BY <1>6, <2>1, <2>2, <2>3, <2>4, Zenon DEF Asking!Child
<1>7. CASE Asking!Interrupt
  BY <1>7, AskedGoes
<1> QED
  BY <1>1, <1>2, <1>3, <1>4, <1>5, <1>6, <1>7, Zenon DEF Asking!Next, Asking!Jobs, QueriedJobs

LEMMA AskingRests == AskingInv /\ UNCHANGED vars => AskingInv'
<1> SUFFICES ASSUME AskingInv, UNCHANGED vars PROVE AskingInv'
  OBVIOUS
<1>1. pc' = pc /\ mem' = mem
  BY DEF vars
<1> QED
  BY <1>1 DEF AskingInv, AskingType, AskedInv, QueryInv

LEMMA QueriesApart == AskingInv => Asking!CommandsApart
<1> SUFFICES ASSUME AskingInv PROVE Asking!CommandsApart
  OBVIOUS
<1>1. Asking!OneAtATime
  BY DEF Asking!OneAtATime
<1>2. Asking!OwnLine
  <2> SUFFICES ASSUME NEW c \in QueriedJobs, pc[c] \in {"running", "stopped"}
               PROVE  /\ Asking!IsPrefix(mem.job[c].line, mem.job[c].args)
                      /\ mem.job[c].in = Asking!None /\ mem.job[c].out = Asking!None
    BY DEF Asking!OwnLine, Asking!At, Asking!Jobs, QueriedJobs
  <2>1. c \in DOMAIN mem.job
    BY DEF AskingInv, AskingType
  <2>2. AskedJob(mem.job[c])
    BY <2>1 DEF AskingInv, AskedInv
  <2> QED
    BY <2>2 DEF AskedJob
<1> QED
  BY <1>1, <1>2 DEF Asking!CommandsApart
-----------------------------------------------------------------------------
(* What is done step by step, the k-th step with F[k], and what comes of   *)
(* it: there is one sequence of states and no other.                       *)
Goes1(h, n, b, F) == h = [k \in 0 .. n |-> IF k = 0 THEN b ELSE F[k][h[k - 1]]]
LEMMA StepsEnd ==
    ASSUME NEW D, NEW b \in D, NEW n \in Nat, NEW F, \A k \in 1 .. n : F[k] \in [D -> D]
    PROVE  \E h \in [0 .. n -> D] : Goes1(h, n, b, F)
  <1> DEFINE Wrong == {l \in 0 .. n : ~ \E h \in [0 .. l -> D] : Goes1(h, l, b, F)}
  <1> SUFFICES ASSUME Wrong # {} PROVE FALSE
    <2>1. n \in 0 .. n
      OBVIOUS
    <2> QED BY <2>1
  <1>1. PICK l \in Wrong : \A m \in Wrong : l <= m
    <2>1. Wrong \in SUBSET Nat
      OBVIOUS
    <2> HIDE DEF Wrong
    <2> QED BY <2>1, FirstOf
  <1>2. l # 0
    <2> DEFINE h == [k \in 0 .. 0 |-> b]
    <2>1. h \in [0 .. 0 -> D] /\ Goes1(h, 0, b, F)
      BY DEF Goes1
    <2> QED BY <2>1
  <1>3. l \in 1 .. n /\ l - 1 \in 0 .. n /\ l - 1 \notin Wrong
    <2>1. l \in 0 .. n
      OBVIOUS
    <2> HIDE DEF Wrong
    <2> QED BY <2>1, <1>1, <1>2
  <1>4. PICK h \in [0 .. l - 1 -> D] : Goes1(h, l - 1, b, F)
    BY <1>3
  <1> DEFINE last == F[l][h[l - 1]]
             g == [k \in 0 .. l |-> IF k = l THEN last ELSE h[k]]
  <1>5. last \in D
    BY <1>3
  <1>6. g \in [0 .. l -> D]
    <2> HIDE DEF last
    <2> QED BY <1>3, <1>5
  <1>7. \A k \in 0 .. l - 1 : h[k] = IF k = 0 THEN b ELSE F[k][h[k - 1]]
    BY <1>4, Zenon DEF Goes1
  <1>8. ASSUME NEW k \in 0 .. l PROVE g[k] = IF k = 0 THEN b ELSE F[k][g[k - 1]]
    <2>1. CASE k = l
      <3>1. g[k] = last /\ g[k - 1] = h[l - 1] /\ k # 0
        <4> HIDE DEF last
        <4> QED BY <2>1, <1>3
      <3> QED BY <3>1, <2>1
    <2>2. CASE k # l
      <3>1. k \in 0 .. l - 1 /\ g[k] = h[k] /\ (k # 0 => g[k - 1] = h[k - 1])
        <4> HIDE DEF last
        <4> QED BY <2>2, <1>3
      <3> QED BY <3>1, <1>7
    <2> QED BY <2>1, <2>2
  <1>9. Goes1(g, l, b, F)
    <2> HIDE DEF last
    <2>1. g = [k \in 0 .. l |-> g[k]]
      OBVIOUS
    <2> HIDE DEF g
    <2> QED BY <2>1, <1>8, Zenon DEF Goes1
  <1>10. l \in Wrong
    OBVIOUS
  <1> HIDE DEF g
  <1> QED BY <1>6, <1>9, <1>10

End(n, b, F) == (CHOOSE h : Goes1(h, n, b, F))[n]
Leads(D, b, n, F) == b \in D /\ n \in Nat /\ \A k \in 1 .. n : F[k] \in [D -> D]
Follows(c, D, b, n, F) ==
    c[0] = b /\ \A k \in 1 .. n : \A x \in D : c[k - 1] = x => c[k] = F[k][x]
LEMMA Reached ==
    ASSUME NEW D, NEW b, NEW n, NEW F, Leads(D, b, n, F), NEW c, Follows(c, D, b, n, F)
    PROVE  c[n] = End(n, b, F) /\ c[n] \in D
  <1> USE DEF Leads, Follows
  <1> DEFINE h == CHOOSE g : Goes1(g, n, b, F)
             Wrong == {k \in 0 .. n : c[k] # h[k] \/ c[k] \notin D}
  <1>1. Goes1(h, n, b, F)
    BY StepsEnd, Zenon
  <1>2. \A k \in 0 .. n : h[k] = IF k = 0 THEN b ELSE F[k][h[k - 1]]
    <2> HIDE DEF h
    <2> QED BY <1>1, Zenon DEF Goes1
  <1> HIDE DEF h
  <1> SUFFICES ASSUME Wrong # {} PROVE FALSE
    <2>1. n \in 0 .. n
      OBVIOUS
    <2> QED BY <2>1 DEF End, h
  <1>3. PICK l \in Wrong : \A m \in Wrong : l <= m
    <2>1. Wrong \in SUBSET Nat
      OBVIOUS
    <2> HIDE DEF Wrong
    <2> QED BY <2>1, FirstOf
  <1>4. l \in 0 .. n /\ (c[l] # h[l] \/ c[l] \notin D)
    OBVIOUS
  <1>5. l # 0
    BY <1>2, <1>4
  <1>6. l \in 1 .. n /\ l - 1 \in 0 .. n /\ l - 1 \notin Wrong
    <2> HIDE DEF Wrong
    <2> QED BY <1>3, <1>4, <1>5
  <1>7. c[l - 1] = h[l - 1] /\ c[l - 1] \in D
    BY <1>6
  <1>8. h[l] = F[l][h[l - 1]] /\ c[l] = F[l][c[l - 1]]
    BY <1>2, <1>4, <1>5, <1>6, <1>7
  <1> QED BY <1>4, <1>6, <1>7, <1>8

(* What the n-th step makes of it.                                         *)
LEMMA EndNext ==
    ASSUME NEW D, NEW b, NEW n, NEW F, Leads(D, b, n, F)
    PROVE  /\ End(0, b, F) = b /\ End(n, b, F) \in D
           /\ n # 0 => End(n, b, F) = F[n][End(n - 1, b, F)]
  <1> DEFINE h == CHOOSE g : Goes1(g, n, b, F)
             z == CHOOSE g : Goes1(g, 0, b, F)
  <1>1. b \in D /\ n \in Nat /\ \A k \in 1 .. n : F[k] \in [D -> D]
    BY DEF Leads
  <1>2. Goes1(h, n, b, F)
    BY <1>1, StepsEnd, Zenon
  <1>3. Goes1(z, 0, b, F)
    <2>1. \A k \in 1 .. 0 : F[k] \in [D -> D]
      OBVIOUS
    <2> QED BY <1>1, <2>1, StepsEnd, Zenon
  <1> HIDE DEF h, z
  <1>4. \A k \in 0 .. n : h[k] = IF k = 0 THEN b ELSE F[k][h[k - 1]]
    BY <1>2, Zenon DEF Goes1
  <1>5. End(0, b, F) = b
    <2>1. z[0] = b
      BY <1>3 DEF Goes1
    <2> QED BY <2>1, Zenon DEF End, z
  <1>6. End(n, b, F) = h[n]
    BY Zenon DEF End, h
  <1>7. h[0] = b /\ \A k \in 1 .. n : h[k] = F[k][h[k - 1]]
    <2>1. 0 \in 0 .. n /\ \A k \in 1 .. n : k \in 0 .. n /\ k # 0
      BY <1>1
    <2> QED BY <1>4, <2>1
  <1>8. Follows(h, D, b, n, F)
    BY <1>7, Zenon DEF Follows
  <1>9. h[n] \in D
    BY <1>8, Reached
  <1>10. ASSUME n # 0 PROVE h[n - 1] = End(n - 1, b, F)
    <2>1. Leads(D, b, n - 1, F)
      BY <1>1, <1>10 DEF Leads
    <2>2. Follows(h, D, b, n - 1, F)
      BY <1>1, <1>7, <1>10 DEF Follows
    <2> DEFINE p == n - 1
    <2> HIDE DEF p
    <2>3. Leads(D, b, p, F) /\ Follows(h, D, b, p, F)
      BY <2>1, <2>2, Zenon DEF p
    <2>4. h[p] = End(p, b, F)
      BY <2>3, Reached
    <2> QED BY <2>4, Zenon DEF p
  <1>11. n # 0 => h[n] = F[n][h[n - 1]]
    <2>1. n # 0 => n \in 1 .. n
      BY <1>1
    <2> QED BY <1>7, <2>1, Zenon
  <1> QED BY <1>5, <1>6, <1>9, <1>10, <1>11, Zenon

-----------------------------------------------------------------------------
(* One operator, bit by bit.                                               *)
Classes == {"u", "g", "o"}
Perms == {"r", "w", "x", "s", "t", "u", "g", "o"}
Applied(x, op, bs, e, msk, b) ==
    IF b \notin e THEN b \in x
    ELSE CASE op = "+" -> b \in x \/ b \in bs
           [] op = "-" -> b \in x /\ b \notin bs
           [] op = "=" -> b \in bs \/ (b \in x /\ b \notin msk)

LEMMA AppliedBits ==
    ASSUME NEW x, NEW op \in {"+", "-", "="}, NEW bs, NEW e, NEW msk, NEW b
    PROVE  b \in Mode!applyop(x, op, bs, e, msk) <=> Applied(x, op, bs, e, msk, b)
  <1>1. CASE op = "+"
    BY <1>1 DEF Mode!applyop, Applied
  <1>2. CASE op = "-"
    BY <1>2 DEF Mode!applyop, Applied
  <1>3. CASE op = "="
    BY <1>3 DEF Mode!applyop, Applied
  <1> QED BY <1>1, <1>2, <1>3

LEMMA OperateBits ==
    ASSUME NEW m \in SUBSET Mode!Bits, NEW op \in {"+", "-", "="}, NEW perms \in SUBSET Perms,
           NEW who \in SUBSET Classes, who # {}, NEW e,
           NEW b \in Mode!Bits
    PROVE  /\ b \in e => (b \in Mode!Operate(m, op, perms, who, e) <=> Mode!On(op, perms, who, b, m))
           /\ b \notin e => (b \in Mode!Operate(m, op, perms, who, e) <=> b \in m)
  <1> DEFINE oth == Mode!other(m, perms, who)
             part == Mode!partial(m, perms)
             bits(c) == oth \cup ({c} \X part)
             To(x, c) == IF c \in who THEN Mode!applyop(x, op, bits(c), e, Mode!Msk(c)) ELSE x
             x1 == To(m, "u")
             x2 == To(x1, "g")
             x3 == To(x2, "o")
  <1>1. Mode!Operate(m, op, perms, who, e) = x3
    BY Zenon DEF Mode!Operate
  <1>2. ASSUME NEW x, NEW c \in Classes
        PROVE  b \in To(x, c) <=> IF c \in who THEN Applied(x, op, bits(c), e, Mode!Msk(c), b) ELSE b \in x
    <2> HIDE DEF bits
    <2> QED BY AppliedBits
  <1>3. /\ b \in x1 <=> IF "u" \in who THEN Applied(m, op, bits("u"), e, Mode!Msk("u"), b) ELSE b \in m
        /\ b \in x2 <=> IF "g" \in who THEN Applied(x1, op, bits("g"), e, Mode!Msk("g"), b) ELSE b \in x1
        /\ b \in x3 <=> IF "o" \in who THEN Applied(x2, op, bits("o"), e, Mode!Msk("o"), b) ELSE b \in x2
    <2>1. "u" \in Classes /\ "g" \in Classes /\ "o" \in Classes
      BY DEF Classes
    <2> HIDE DEF To, bits
    <2> QED BY <1>2, <2>1, Zenon DEF x1, x2, x3
  <1> HIDE DEF x1, x2, x3, To
  <1>4. \/ \E c \in Classes, p \in {"r", "w", "x"} : b = <<c, p>>
        \/ b = Mode!Suid \/ b = Mode!Sgid \/ b = Mode!Sticky
    BY DEF Mode!Bits, Mode!RWX, Classes
  <1>5. CASE \E c \in Classes, p \in {"r", "w", "x"} : b = <<c, p>>
    <2>1. PICK c \in Classes, p \in {"r", "w", "x"} : b = <<c, p>>
      BY <1>5
    <2>2. b # Mode!Suid /\ b # Mode!Sgid /\ b # Mode!Sticky /\ b[1] = c /\ b[2] = p
      BY <2>1 DEF Mode!Suid, Mode!Sgid, Mode!Sticky, Classes
    <2>3. b \notin oth
      BY <2>2, Zenon DEF Mode!other
    <2>4. \A d \in Classes : /\ b \in bits(d) <=> d = c /\ p \in part
                             /\ b \in Mode!Msk(d) <=> d = c
      BY <2>1, <2>2, <2>3 DEF Mode!Msk, Mode!RWX
    <2>5. p \in part <=> p \in perms \/ \E k \in perms \cap {"u", "g", "o"} : <<k, p>> \in m
      BY <2>1, Zenon DEF Mode!partial, Mode!RWX
    <2>6. \A k \in perms : <<k, p>> \in m => k \in {"u", "g", "o"}
      BY <2>1 DEF Mode!Bits, Mode!Suid, Mode!Sgid, Mode!Sticky
    <2> DEFINE want == p \in part
    <2>7. Mode!Wanted(perms, who, b, m) <=> c \in who /\ p \in part
      BY <2>2, <2>5, <2>6 DEF Mode!Wanted
    <2>8. Mode!Decides(op, who, b) <=> op = "=" /\ c \in who
      BY <2>2 DEF Mode!Decides
    <2> HIDE DEF oth, part, bits
    <2>9. CASE c = "u"
      BY <1>1, <1>3, <2>4, <2>7, <2>8, <2>9 DEF Applied, Mode!On, Classes
    <2>10. CASE c = "g"
      BY <1>1, <1>3, <2>4, <2>7, <2>8, <2>10 DEF Applied, Mode!On, Classes
    <2>11. CASE c = "o"
      BY <1>1, <1>3, <2>4, <2>7, <2>8, <2>11 DEF Applied, Mode!On, Classes
    <2> QED BY <2>9, <2>10, <2>11 DEF Classes
  <1>6. CASE b = Mode!Suid \/ b = Mode!Sgid
    <2> DEFINE c == IF b = Mode!Suid THEN "u" ELSE "g"
    <2>1. b # Mode!Sticky /\ b[1] = "x" /\ b[2] = c /\ c \in Classes /\ c # "o"
      BY <1>6 DEF Mode!Suid, Mode!Sgid, Mode!Sticky, Classes
    <2>2. \A d \in Classes : /\ b \in bits(d) <=> b \in oth
                             /\ b \in Mode!Msk(d) <=> d = c
      BY <1>6 DEF Mode!Suid, Mode!Sgid, Mode!Msk, Classes
    <2>3. b \in oth <=> (c \in perms /\ b \in m) \/ ("s" \in perms /\ c \in who)
      BY <1>6, <2>1, Zenon DEF Mode!other
    <2>4. Mode!Wanted(perms, who, b, m) <=> ("s" \in perms /\ c \in who) \/ (c \in perms /\ b \in m)
      BY <1>6, <2>1, Zenon DEF Mode!Wanted
    <2>5. Mode!Decides(op, who, b) <=> op = "=" /\ c \in who
      BY <1>6, <2>1 DEF Mode!Decides, Classes
    <2> HIDE DEF oth, part, bits, c
    <2> QED BY <1>1, <1>3, <2>1, <2>2, <2>3, <2>4, <2>5 DEF Applied, Mode!On, Classes
  <1>7. CASE b = Mode!Sticky
    <2>1. b # Mode!Suid /\ b # Mode!Sgid /\ b[1] = "x"
      BY <1>7 DEF Mode!Suid, Mode!Sgid, Mode!Sticky
    <2>2. \A d \in Classes : (b \in bits(d) <=> b \in oth) /\ b \notin Mode!Msk(d)
      BY <1>7 DEF Mode!Sticky, Mode!Suid, Mode!Sgid, Mode!Msk, Classes
    <2>3. b \in oth <=> "t" \in perms
      BY <1>7, <2>1 DEF Mode!other
    <2>4. Mode!Wanted(perms, who, b, m) <=> "t" \in perms
      BY <1>7, <2>1, Zenon DEF Mode!Wanted
    <2>5. ~Mode!Decides(op, who, b)
      BY <2>1 DEF Mode!Decides, Classes
    <2> HIDE DEF oth, part, bits
    <2> QED BY <1>1, <1>3, <2>2, <2>3, <2>4, <2>5 DEF Applied, Mode!On, Classes
  <1> QED BY <1>4, <1>5, <1>6, <1>7

Emask(gr, um) == IF gr.who = {} THEN Mode!Bits \ um ELSE Mode!Bits
LEMMA OperateInBits ==
    ASSUME NEW m \in SUBSET Mode!Bits, NEW op \in {"+", "-", "="}, NEW perms, NEW who,
           NEW e \in SUBSET Mode!Bits
    PROVE  Mode!Operate(m, op, perms, who, e) \in SUBSET Mode!Bits
  <1> DEFINE bits(c) == Mode!other(m, perms, who) \cup ({c} \X Mode!partial(m, perms))
             To(x, c) == IF c \in who THEN Mode!applyop(x, op, bits(c), e, Mode!Msk(c)) ELSE x
             x1 == To(m, "u")
             x2 == To(x1, "g")
             x3 == To(x2, "o")
  <1>1. Mode!Operate(m, op, perms, who, e) = x3
    BY Zenon DEF Mode!Operate
  <1>2. ASSUME NEW x \in SUBSET Mode!Bits, NEW c PROVE To(x, c) \in SUBSET Mode!Bits
    <2>1. \A bs, msk : Mode!applyop(x, op, bs, e, msk) \in SUBSET Mode!Bits
      BY DEF Mode!applyop
    <2> HIDE DEF bits
    <2> QED BY <2>1
  <1> HIDE DEF To
  <1> QED BY <1>1, <1>2

(* A group: what its operators ask for one after the other.                *)
IsGroup(gr) ==
    /\ gr.who \in SUBSET {"u", "g", "o", "a"} /\ gr.ops \in ModeOps
AskedBits(gr, um, j, x) ==
    {b \in Mode!Bits : IF b \in Mode!Spared(gr, um) THEN b \in x
                       ELSE Mode!On(gr.ops[j].op, gr.ops[j].perms, Mode!Who(gr), b, x)}
CodeBits(gr, um, j, x) ==
    Mode!Operate(x, gr.ops[j].op, gr.ops[j].perms, Mode!Who(gr), Emask(gr, um))

LEMMA OperatorAsAsked ==
    ASSUME NEW gr, IsGroup(gr), NEW um \in SUBSET Mode!Bits, NEW j \in 1 .. Len(gr.ops),
           NEW x \in SUBSET Mode!Bits
    PROVE  CodeBits(gr, um, j, x) = AskedBits(gr, um, j, x)
  <1> DEFINE op == gr.ops[j].op
             perms == gr.ops[j].perms
             who == Mode!Who(gr)
             e == Emask(gr, um)
             spared == Mode!Spared(gr, um)
  <1>1. op \in {"+", "-", "="} /\ perms \in SUBSET Perms
    <2>1. gr.ops \in Seq([op : {"+", "-", "="}, perms : SUBSET Perms])
      BY Zenon DEF IsGroup, ModeOps, Perms
    <2>2. gr.ops[j] \in [op : {"+", "-", "="}, perms : SUBSET Perms]
      BY <2>1, ElementOfSeq, Zenon
    <2> QED BY <2>2
  <1>2. who \in SUBSET Classes /\ who # {}
    BY DEF Mode!Who, IsGroup, Classes
  <1>4. e \in SUBSET Mode!Bits /\ \A b \in Mode!Bits : b \in e <=> b \notin spared
    BY DEF Emask, Mode!Spared
  <1> HIDE DEF op, perms, who, e, spared
  <1>5. Mode!Operate(x, op, perms, who, e) \in SUBSET Mode!Bits
    BY <1>1, <1>4, OperateInBits
  <1>6. ASSUME NEW b \in Mode!Bits
        PROVE  b \in Mode!Operate(x, op, perms, who, e)
                 <=> (IF b \in spared THEN b \in x ELSE Mode!On(op, perms, who, b, x))
    <2>1. /\ b \in e => (b \in Mode!Operate(x, op, perms, who, e) <=> Mode!On(op, perms, who, b, x))
          /\ b \notin e => (b \in Mode!Operate(x, op, perms, who, e) <=> b \in x)
      BY <1>1, <1>2, OperateBits, Zenon
    <2>2. b \in e <=> b \notin spared
      BY <1>4, Zenon
    <2> QED BY <2>1, <2>2, Zenon
  <1>7. Mode!Operate(x, op, perms, who, e)
          = {b \in Mode!Bits : IF b \in spared THEN b \in x ELSE Mode!On(op, perms, who, b, x)}
    BY <1>5, <1>6
  <1> QED BY <1>7, Zenon DEF CodeBits, AskedBits, op, perms, who, e, spared

GroupSteps(gr, um) == [j \in 1 .. Len(gr.ops) |-> [x \in SUBSET Mode!Bits |-> AskedBits(gr, um, j, x)]]
LEMMA GroupStepsType ==
    ASSUME NEW gr, NEW um
    PROVE  \A j \in 1 .. Len(gr.ops) :
             /\ GroupSteps(gr, um)[j] \in [SUBSET Mode!Bits -> SUBSET Mode!Bits]
             /\ \A x \in SUBSET Mode!Bits : GroupSteps(gr, um)[j][x] = AskedBits(gr, um, j, x)
  <1>1. \A j, x : AskedBits(gr, um, j, x) \in SUBSET Mode!Bits
    BY DEF AskedBits
  <1> QED BY <1>1 DEF GroupSteps

LEMMA GroupDone ==
    ASSUME NEW gr, IsGroup(gr), NEW um \in SUBSET Mode!Bits, NEW m \in SUBSET Mode!Bits
    PROVE  /\ Mode!pgroup(m, gr, um) = Mode!GroupAsAsked(gr, um, m)
           /\ Mode!GroupAsAsked(gr, um, m) \in SUBSET Mode!Bits
  <1> DEFINE n == Len(gr.ops)
             F == GroupSteps(gr, um)
             D == SUBSET Mode!Bits
             Codes(h) == h = [j \in 0 .. n |-> IF j = 0 THEN m ELSE CodeBits(gr, um, j, h[j - 1])]
             Asks(h) == h = [j \in 0 .. n |-> IF j = 0 THEN m ELSE AskedBits(gr, um, j, h[j - 1])]
             code == CHOOSE h : Codes(h)
             asked == CHOOSE h : Asks(h)
  <1>1. Mode!pgroup(m, gr, um) = code[n]
    BY Zenon DEF Mode!pgroup, CodeBits, Emask
  <1>2. Mode!GroupAsAsked(gr, um, m) = asked[n]
    BY Zenon DEF Mode!GroupAsAsked, AskedBits
  <1>3. n \in Nat
    BY LenProperties DEF IsGroup, ModeOps
  <1>4. \A k \in 1 .. n : F[k] \in [D -> D] /\ \A x \in D : F[k][x] = AskedBits(gr, um, k, x)
    BY GroupStepsType, Zenon
  <1>5. \A k \in 1 .. n : \A x \in D : CodeBits(gr, um, k, x) = AskedBits(gr, um, k, x)
    BY OperatorAsAsked, Zenon
  <1> HIDE DEF n, F, D
  <1>6. m \in D
    BY DEF D
  <1>7. PICK h \in [0 .. n -> D] : Goes1(h, n, m, F)
    BY <1>3, <1>4, <1>6, StepsEnd
  <1>8. \A k \in 1 .. n : k - 1 \in 0 .. n /\ k \in 0 .. n /\ k # 0 /\ h[k - 1] \in D
    BY <1>3, <1>7
  <1>9. \A k \in 0 .. n : h[k] = (IF k = 0 THEN m ELSE F[k][h[k - 1]]) /\ (k # 0 => k \in 1 .. n)
    <2>1. \A k \in 0 .. n : h[k] = IF k = 0 THEN m ELSE F[k][h[k - 1]]
      BY <1>7, Zenon DEF Goes1
    <2>2. \A k \in 0 .. n : k # 0 => k \in 1 .. n
      BY <1>3
    <2> QED BY <2>1, <2>2, Zenon
  <1>10. h = [k \in 0 .. n |-> h[k]]
    BY <1>7
  <1>11. ASSUME NEW k \in 0 .. n
         PROVE  /\ h[k] = IF k = 0 THEN m ELSE AskedBits(gr, um, k, h[k - 1])
                /\ h[k] = IF k = 0 THEN m ELSE CodeBits(gr, um, k, h[k - 1])
    <2>1. CASE k = 0
      BY <2>1, <1>9
    <2>2. CASE k # 0
      <3>1. k \in 1 .. n /\ h[k] = F[k][h[k - 1]] /\ h[k - 1] \in D
        BY <2>2, <1>8, <1>9
      <3>2. h[k] = AskedBits(gr, um, k, h[k - 1]) /\ h[k] = CodeBits(gr, um, k, h[k - 1])
        BY <3>1, <1>4, <1>5, Zenon
      <3> QED BY <2>2, <3>2
    <2> QED BY <2>1, <2>2
  <1>12. Codes(h) /\ Asks(h)
    BY <1>10, <1>11, Zenon
  <1>13. Codes(code) /\ Asks(asked)
    BY <1>12, Zenon
  <1> HIDE DEF code, asked
  <1>14. /\ code[0] = m /\ \A k \in 1 .. n : code[k] = CodeBits(gr, um, k, code[k - 1])
         /\ asked[0] = m /\ \A k \in 1 .. n : asked[k] = AskedBits(gr, um, k, asked[k - 1])
    <2>1. 0 \in 0 .. n
      BY <1>3
    <2> QED BY <1>8, <1>13, <2>1, Zenon
  <1>15. ASSUME NEW k \in 1 .. n, NEW x \in D
         PROVE  /\ code[k - 1] = x => code[k] = F[k][x]
                /\ asked[k - 1] = x => asked[k] = F[k][x]
    <2>1. F[k][x] = AskedBits(gr, um, k, x) /\ CodeBits(gr, um, k, x) = AskedBits(gr, um, k, x)
      BY <1>4, <1>5, Zenon
    <2>2. code[k] = CodeBits(gr, um, k, code[k - 1]) /\ asked[k] = AskedBits(gr, um, k, asked[k - 1])
      BY <1>14, Zenon
    <2> QED BY <2>1, <2>2, Zenon
  <1>16. \A k \in 1 .. n : F[k] \in [D -> D]
    BY <1>4, Zenon
  <1>17. Leads(D, m, n, F) /\ Follows(code, D, m, n, F) /\ Follows(asked, D, m, n, F)
    BY <1>3, <1>6, <1>14, <1>15, <1>16, Zenon DEF Leads, Follows
  <1>18. code[n] = End(n, m, F) /\ asked[n] = End(n, m, F) /\ asked[n] \in D
    <2>1. \A c : Follows(c, D, m, n, F) => c[n] = End(n, m, F) /\ c[n] \in D
      <3> HIDE DEF Codes, Asks
      <3> QED BY <1>17, Reached
    <2> QED BY <1>17, <2>1, Zenon
  <1> QED BY <1>1, <1>2, <1>18, Zenon DEF D

(* All groups of an argument.                                              *)
Groups == [who : SUBSET {"u", "g", "o", "a"}, ops : ModeOps]
ArgumentSteps(groups, um) ==
    [i \in 1 .. Len(groups) |-> [x \in SUBSET Mode!Bits |-> Mode!GroupAsAsked(groups[i], um, x)]]

LEMMA ArgumentDone ==
    ASSUME NEW groups, Len(groups) \in Nat, \A i \in 1 .. Len(groups) : IsGroup(groups[i]),
           NEW um \in SUBSET Mode!Bits, NEW m \in SUBSET Mode!Bits
    PROVE  /\ Mode!symbolic(m, groups, um) = Mode!AsAsked(groups, um, m)
           /\ Mode!AsAsked(groups, um, m) \in SUBSET Mode!Bits
  <1> DEFINE n == Len(groups)
             F == ArgumentSteps(groups, um)
             D == SUBSET Mode!Bits
             Codes(h) == h = [i \in 0 .. n |-> IF i = 0 THEN m ELSE Mode!pgroup(h[i - 1], groups[i], um)]
             Asks(h) == h = [i \in 0 .. n |-> IF i = 0 THEN m ELSE Mode!GroupAsAsked(groups[i], um, h[i - 1])]
             code == CHOOSE h : Codes(h)
             asked == CHOOSE h : Asks(h)
  <1>1. Mode!symbolic(m, groups, um) = code[n]
    BY Zenon DEF Mode!symbolic
  <1>2. Mode!AsAsked(groups, um, m) = asked[n]
    BY Zenon DEF Mode!AsAsked
  <1>3. n \in Nat
    OBVIOUS
  <1>4. \A k \in 1 .. n : \A x \in D : /\ Mode!pgroup(x, groups[k], um) = Mode!GroupAsAsked(groups[k], um, x)
                                       /\ Mode!GroupAsAsked(groups[k], um, x) \in D
    BY GroupDone, Zenon
  <1>5. \A k \in 1 .. n : F[k] \in [D -> D] /\ \A x \in D : F[k][x] = Mode!GroupAsAsked(groups[k], um, x)
    BY <1>4 DEF ArgumentSteps
  <1> HIDE DEF n, F, D
  <1>6. m \in D
    BY DEF D
  <1>7. PICK h \in [0 .. n -> D] : Goes1(h, n, m, F)
    BY <1>3, <1>5, <1>6, StepsEnd
  <1>8. \A k \in 1 .. n : k - 1 \in 0 .. n /\ k \in 0 .. n /\ k # 0 /\ h[k - 1] \in D
    BY <1>3, <1>7
  <1>9. \A k \in 0 .. n : h[k] = (IF k = 0 THEN m ELSE F[k][h[k - 1]]) /\ (k # 0 => k \in 1 .. n)
    <2>1. \A k \in 0 .. n : h[k] = IF k = 0 THEN m ELSE F[k][h[k - 1]]
      BY <1>7, Zenon DEF Goes1
    <2>2. \A k \in 0 .. n : k # 0 => k \in 1 .. n
      BY <1>3
    <2> QED BY <2>1, <2>2, Zenon
  <1>10. h = [k \in 0 .. n |-> h[k]]
    BY <1>7
  <1>11. ASSUME NEW k \in 0 .. n
         PROVE  /\ h[k] = IF k = 0 THEN m ELSE Mode!GroupAsAsked(groups[k], um, h[k - 1])
                /\ h[k] = IF k = 0 THEN m ELSE Mode!pgroup(h[k - 1], groups[k], um)
    <2>1. CASE k = 0
      BY <2>1, <1>9
    <2>2. CASE k # 0
      <3>1. k \in 1 .. n /\ h[k] = F[k][h[k - 1]] /\ h[k - 1] \in D
        BY <2>2, <1>8, <1>9
      <3>2. h[k] = Mode!GroupAsAsked(groups[k], um, h[k - 1]) /\ h[k] = Mode!pgroup(h[k - 1], groups[k], um)
        BY <3>1, <1>4, <1>5, Zenon
      <3> QED BY <2>2, <3>2
    <2> QED BY <2>1, <2>2
  <1>12. Codes(h) /\ Asks(h)
    BY <1>10, <1>11, Zenon
  <1>13. Codes(code) /\ Asks(asked)
    BY <1>12, Zenon
  <1> HIDE DEF code, asked
  <1>14. /\ code[0] = m /\ \A k \in 1 .. n : code[k] = Mode!pgroup(code[k - 1], groups[k], um)
         /\ asked[0] = m /\ \A k \in 1 .. n : asked[k] = Mode!GroupAsAsked(groups[k], um, asked[k - 1])
    <2>1. 0 \in 0 .. n
      BY <1>3
    <2> QED BY <1>8, <1>13, <2>1, Zenon
  <1>15. ASSUME NEW k \in 1 .. n, NEW x \in D
         PROVE  /\ code[k - 1] = x => code[k] = F[k][x]
                /\ asked[k - 1] = x => asked[k] = F[k][x]
    <2>1. F[k][x] = Mode!GroupAsAsked(groups[k], um, x) /\ F[k][x] = Mode!pgroup(x, groups[k], um)
      BY <1>4, <1>5, Zenon
    <2>2. /\ code[k] = Mode!pgroup(code[k - 1], groups[k], um)
          /\ asked[k] = Mode!GroupAsAsked(groups[k], um, asked[k - 1])
      BY <1>14, Zenon
    <2> QED BY <2>1, <2>2, Zenon
  <1>16. \A k \in 1 .. n : F[k] \in [D -> D]
    BY <1>5, Zenon
  <1>17. Leads(D, m, n, F) /\ Follows(code, D, m, n, F) /\ Follows(asked, D, m, n, F)
    BY <1>3, <1>6, <1>14, <1>15, <1>16, Zenon DEF Leads, Follows
  <1>18. code[n] = End(n, m, F) /\ asked[n] = End(n, m, F) /\ asked[n] \in D
    <2>1. \A c : Follows(c, D, m, n, F) => c[n] = End(n, m, F) /\ c[n] \in D
      <3> HIDE DEF Codes, Asks
      <3> QED BY <1>17, Reached
    <2> QED BY <1>17, <2>1, Zenon
  <1> QED BY <1>1, <1>2, <1>18, Zenon DEF D

LEMMA SymbolicAsAsked ==
    ASSUME NEW arg \in ModeArguments, NEW um \in SUBSET Mode!Bits, NEW m \in SUBSET Mode!Bits
    PROVE  /\ Mode!symbolic(m, arg.groups, um) = Mode!AsAsked(arg.groups, um, m)
           /\ Mode!AsAsked(arg.groups, um, m) \in SUBSET Mode!Bits
  <1> DEFINE groups == arg.groups
  <1>1. groups \in Seq(Groups)
    BY ModeAssumption DEF Groups
  <1>2. Len(groups) \in Nat /\ DOMAIN groups = 1 .. Len(groups)
    BY <1>1, LenProperties, Zenon
  <1>3. ASSUME NEW i \in 1 .. Len(groups) PROVE IsGroup(groups[i])
    <2>1. groups[i] \in Groups
      BY <1>1, ElementOfSeq, Zenon
    <2>2. groups[i].who \in SUBSET {"u", "g", "o", "a"} /\ groups[i].ops \in ModeOps
      <3> HIDE DEF groups
      <3> QED BY <2>1 DEF Groups
    <2> HIDE DEF groups
    <2> QED BY <2>2, Zenon DEF IsGroup
  <1> HIDE DEF groups
  <1>4. /\ Mode!symbolic(m, groups, um) = Mode!AsAsked(groups, um, m)
        /\ Mode!AsAsked(groups, um, m) \in SUBSET Mode!Bits
    BY <1>2, <1>3, ArgumentDone
  <1> QED BY <1>4 DEF groups

-----------------------------------------------------------------------------
(* A file, one name of the list after the other.                           *)
FileStep(arg, list, um, f, k, x) ==
    IF list[k] # f THEN x
    ELSE IF arg.absolute THEN arg.bits
    ELSE Mode!AsAsked(arg.groups, IF k = 1 THEN um ELSE {}, x)
FileSteps(arg, list, um, f) ==
    [k \in 1 .. Len(list) |-> [x \in SUBSET Mode!Bits |-> FileStep(arg, list, um, f, k, x)]]

Stands(arg, list, um, b, n) ==
    /\ arg \in ModeArguments /\ list \in Lists /\ um \in SUBSET Mode!Bits
    /\ b \in SUBSET Mode!Bits /\ n \in 0 .. Len(list)
FileGoes(arg, list, um, b, n, f) ==
    /\ Leads(SUBSET Mode!Bits, b, n, FileSteps(arg, list, um, f))
    /\ \A k \in 1 .. n : \A x \in SUBSET Mode!Bits :
         FileSteps(arg, list, um, f)[k][x] = FileStep(arg, list, um, f, k, x)

LEMMA ListLength == \A list \in Lists : Len(list) \in Nat
  <1>1. \A list \in Lists : list \in Seq(STRING)
    BY ModeAssumption
  <1> QED BY <1>1, LenProperties, Zenon

LEMMA FileLeads ==
    ASSUME NEW arg, NEW list, NEW um, NEW b, NEW n, Stands(arg, list, um, b, n), NEW f
    PROVE  FileGoes(arg, list, um, b, n, f)
  <1> USE DEF Stands
  <1>1. Len(list) \in Nat
    BY ListLength, Zenon
  <1>2. ASSUME NEW k, NEW x \in SUBSET Mode!Bits PROVE FileStep(arg, list, um, f, k, x) \in SUBSET Mode!Bits
    <2>1. arg.bits \in SUBSET Mode!Bits
      BY ModeAssumption
    <2>2. \A u \in SUBSET Mode!Bits : Mode!AsAsked(arg.groups, u, x) \in SUBSET Mode!Bits
      BY SymbolicAsAsked, Zenon
    <2>3. (IF k = 1 THEN um ELSE {}) \in SUBSET Mode!Bits
      OBVIOUS
    <2>4. Mode!AsAsked(arg.groups, IF k = 1 THEN um ELSE {}, x) \in SUBSET Mode!Bits
      BY <2>2, <2>3, Zenon
    <2> QED BY <2>1, <2>4 DEF FileStep
  <1>3. \A k \in 1 .. n : k \in 1 .. Len(list)
    BY <1>1
  <1>4. \A k \in 1 .. n : /\ FileSteps(arg, list, um, f)[k] \in [SUBSET Mode!Bits -> SUBSET Mode!Bits]
                          /\ \A x \in SUBSET Mode!Bits :
                               FileSteps(arg, list, um, f)[k][x] = FileStep(arg, list, um, f, k, x)
    BY <1>2, <1>3 DEF FileSteps
  <1>5. n \in Nat
    BY <1>1
  <1> QED BY <1>4, <1>5, Zenon DEF Leads, FileGoes

ModeOf(f) == End(mem.i - 1, mem.before[f], FileSteps(mem.arg, mem.list, mem.umask0, f))
ModeInv ==
    /\ pc \in [{0} -> {"args", "file", "end"}]
    /\ mem = [arg |-> mem.arg, list |-> mem.list, before |-> mem.before, mode |-> mem.mode,
              umask0 |-> mem.umask0, umask |-> mem.umask, i |-> mem.i, status |-> mem.status]
    /\ mem.arg \in ModeArguments /\ mem.list \in Lists /\ mem.umask0 \in Umasks
    /\ mem.before \in [ModeFiles -> Modes]
    /\ mem.mode = [f \in ModeFiles |-> mem.mode[f]]
    /\ mem.i \in 1 .. Len(mem.list) + 1
    /\ ~mem.arg.absolute => mem.umask = IF mem.i = 1 THEN mem.umask0 ELSE {}
    /\ \A f \in ModeFiles : mem.mode[f] = ModeOf(f)

LEMMA ModeBegins == Mode!Init => ModeInv
  <1> SUFFICES ASSUME Mode!Init PROVE ModeInv
    OBVIOUS
  <1>1. PICK arg \in ModeArguments, before \in [ModeFiles -> Modes], um \in Umasks, list \in Lists :
          mem = [arg |-> arg, list |-> list, before |-> before, mode |-> before,
                 umask0 |-> um, umask |-> um, i |-> 1, status |-> -1]
    BY Zenon DEF Mode!Init
  <1>2. pc \in [{0} -> {"args", "file", "end"}]
    BY DEF Mode!Init, Mode!main
  <1>3. /\ mem.arg = arg /\ mem.list = list /\ mem.before = before /\ mem.mode = before
        /\ mem.umask0 = um /\ mem.umask = um /\ mem.i = 1
        /\ mem = [arg |-> mem.arg, list |-> mem.list, before |-> mem.before, mode |-> mem.mode,
                  umask0 |-> mem.umask0, umask |-> mem.umask, i |-> mem.i, status |-> mem.status]
    BY <1>1
  <1>4. mem.i \in 1 .. Len(mem.list) + 1
    <2>1. Len(list) \in Nat
      BY ListLength, Zenon
    <2> QED BY <1>3, <2>1
  <1>5. ASSUME NEW f \in ModeFiles PROVE mem.mode[f] = ModeOf(f)
    <2>1. before[f] \in SUBSET Mode!Bits /\ um \in SUBSET Mode!Bits
      BY ModeAssumption
    <2>5. 0 \in 0 .. Len(list)
      <3>1. Len(list) \in Nat
        BY ListLength, Zenon
      <3> QED BY <3>1
    <2>2. Leads(SUBSET Mode!Bits, before[f], 0, FileSteps(arg, list, um, f))
      <3>1. Stands(arg, list, um, before[f], 0)
        BY <2>1, <2>5, Zenon DEF Stands
      <3> QED BY <3>1, FileLeads, Zenon DEF FileGoes
    <2>3. End(0, before[f], FileSteps(arg, list, um, f)) = before[f]
      BY <2>2, EndNext
    <2>4. mem.i - 1 = 0
      BY <1>3
    <2> QED BY <1>3, <2>3, <2>4 DEF ModeOf
  <1>6. mem.mode = [f \in ModeFiles |-> mem.mode[f]]
    BY <1>3
  <1> QED BY <1>2, <1>3, <1>4, <1>5, <1>6, Zenon DEF ModeInv

LEMMA ModeStep == ModeInv /\ (Mode!Next \/ UNCHANGED vars) => ModeInv'
  <1> SUFFICES ASSUME ModeInv, Mode!Next \/ UNCHANGED vars PROVE ModeInv'
    OBVIOUS
  <1>0. ASSUME pc' \in [{0} -> {"args", "file", "end"}],
               mem' = mem \/ \E s : mem' = [mem EXCEPT !.status = s]
        PROVE  ModeInv'
    <2>1. /\ mem'.arg = mem.arg /\ mem'.list = mem.list /\ mem'.before = mem.before /\ mem'.mode = mem.mode
          /\ mem'.umask0 = mem.umask0 /\ mem'.umask = mem.umask /\ mem'.i = mem.i
          /\ mem' = [arg |-> mem'.arg, list |-> mem'.list, before |-> mem'.before, mode |-> mem'.mode,
                     umask0 |-> mem'.umask0, umask |-> mem'.umask, i |-> mem'.i, status |-> mem'.status]
      <3>1. mem = [arg |-> mem.arg, list |-> mem.list, before |-> mem.before, mode |-> mem.mode,
                   umask0 |-> mem.umask0, umask |-> mem.umask, i |-> mem.i, status |-> mem.status]
        BY Zenon DEF ModeInv
      <3> QED BY <1>0, <3>1
    <2>2. \A g \in ModeFiles : ModeOf(g)' = ModeOf(g)
      BY <2>1, Zenon DEF ModeOf
    <2> QED BY <1>0, <2>1, <2>2 DEF ModeInv
  <1>1. CASE UNCHANGED vars
    BY <1>0, <1>1 DEF ModeInv, vars
  <1>2. pc \in [{0} -> {"args", "file", "end"}]
    BY Zenon DEF ModeInv
  <1>3. ASSUME NEW s, Mode!Exit(s) PROVE ModeInv'
    BY <1>0, <1>2, <1>3 DEF Mode!Exit, Mode!main
  <1>4. CASE Mode!Main
    <2>1. Mode!Exit(1) \/ (Mode!Go(0, "args", "file") /\ mem' = mem)
      BY <1>4 DEF Mode!Main, Mode!main
    <2>2. CASE Mode!Go(0, "args", "file") /\ mem' = mem
      BY <1>0, <1>2, <2>2 DEF Mode!Go
    <2> QED BY <1>3, <2>1, <2>2
  <1>5. CASE Mode!File
    <2> DEFINE new == IF mem.arg.absolute THEN mem.arg.bits
                      ELSE Mode!symbolic(mem.mode[mem.list[mem.i]], mem.arg.groups, mem.umask)
               um == IF mem.arg.absolute THEN mem.umask ELSE {}
               Changes == /\ mem.i <= Len(mem.list) /\ mem.list[mem.i] \in ModeFiles /\ pc' = pc
                          /\ mem' = [mem EXCEPT !.mode[mem.list[mem.i]] = new, !.umask = um, !.i = mem.i + 1]
    <2>0. Mode!Exit(0) \/ Mode!Exit(1) \/ Changes
      <3>1. mem.i \in Int /\ Len(mem.list) \in Int
        BY ListLength DEF ModeInv
      <3>2. Mode!Exit(0) \/ Mode!Exit(1) \/ (mem.i <= Len(mem.list) /\ Mode!Found /\ Mode!Change)
        BY <1>5, <3>1 DEF Mode!File
      <3> HIDE DEF new, um
      <3> QED BY <3>2 DEF Mode!Change, Mode!Found, new, um
    <2>1. ASSUME Changes, NEW f \in ModeFiles, f = mem.list[mem.i] PROVE ModeInv'
      <3>1. /\ mem = [arg |-> mem.arg, list |-> mem.list, before |-> mem.before, mode |-> mem.mode,
                      umask0 |-> mem.umask0, umask |-> mem.umask, i |-> mem.i, status |-> mem.status]
            /\ mem.mode = [g \in ModeFiles |-> mem.mode[g]]
            /\ mem.arg \in ModeArguments /\ mem.list \in Lists /\ mem.umask0 \in Umasks
            /\ mem.before \in [ModeFiles -> Modes]
            /\ mem.i \in 1 .. Len(mem.list) + 1
            /\ ~mem.arg.absolute => mem.umask = IF mem.i = 1 THEN mem.umask0 ELSE {}
            /\ \A g \in ModeFiles : mem.mode[g] = ModeOf(g)
        BY Zenon DEF ModeInv
      <3> HIDE DEF new, um
      <3>2. /\ mem' = [arg |-> mem.arg, list |-> mem.list, before |-> mem.before,
                       mode |-> [mem.mode EXCEPT ![f] = new],
                       umask0 |-> mem.umask0, umask |-> um, i |-> mem.i + 1, status |-> mem.status]
        BY <2>1, <3>1
      <3>3. /\ mem'.arg = mem.arg /\ mem'.list = mem.list /\ mem'.before = mem.before
            /\ mem'.mode = [mem.mode EXCEPT ![f] = new] /\ mem'.umask0 = mem.umask0 /\ mem'.umask = um
            /\ mem'.i = mem.i + 1
            /\ mem' = [arg |-> mem'.arg, list |-> mem'.list, before |-> mem'.before, mode |-> mem'.mode,
                       umask0 |-> mem'.umask0, umask |-> mem'.umask, i |-> mem'.i, status |-> mem'.status]
        BY <3>2
      <3>4. /\ mem.i \in Nat \ {0} /\ Len(mem.list) \in Nat /\ mem'.i \in 1 .. Len(mem'.list) + 1
            /\ mem.i \in 1 .. Len(mem.list)
        BY <2>1, <3>1, <3>3, ListLength
      <3>5. ~mem.arg.absolute => mem'.umask = IF mem'.i = 1 THEN mem'.umask0 ELSE {}
        <4>1. mem'.i # 1
          BY <3>3, <3>4
        <4> QED BY <3>3, <4>1, Zenon DEF um
      <3>6. /\ mem'.mode = [g \in ModeFiles |-> mem'.mode[g]]
            /\ mem'.mode[f] = new /\ \A g \in ModeFiles : g # f => mem'.mode[g] = mem.mode[g]
        BY <2>1, <3>1, <3>3
      <3>7. ASSUME NEW g \in ModeFiles
            PROVE  /\ mem.mode[g] \in SUBSET Mode!Bits
                   /\ ModeOf(g)' = FileStep(mem.arg, mem.list, mem.umask0, g, mem.i, mem.mode[g])
        <4> DEFINE n == mem.i
                   p == mem.i - 1
                   F == FileSteps(mem.arg, mem.list, mem.umask0, g)
                   b == mem.before[g]
        <4>1. /\ b \in SUBSET Mode!Bits /\ mem.umask0 \in SUBSET Mode!Bits
              /\ n \in 0 .. Len(mem.list) /\ p \in 0 .. Len(mem.list) /\ n # 0 /\ n \in 1 .. n
          BY <3>1, <3>4, ModeAssumption
        <4>2. ModeOf(g)' = End(n, b, F)
          <5>1. mem'.i - 1 = n
            BY <3>3, <3>4
          <5> QED BY <3>3, <5>1 DEF ModeOf
        <4>3. mem.mode[g] = End(p, b, F)
          BY <3>1, Zenon DEF ModeOf
        <4>4. F = FileSteps(mem.arg, mem.list, mem.umask0, g)
          OBVIOUS
        <4>5. p = n - 1
          OBVIOUS
        <4> HIDE DEF F, b, p, n
        <4>6. /\ Leads(SUBSET Mode!Bits, b, n, F) /\ Leads(SUBSET Mode!Bits, b, p, F)
              /\ \A k \in 1 .. n : \A x \in SUBSET Mode!Bits :
                   F[k][x] = FileStep(mem.arg, mem.list, mem.umask0, g, k, x)
          <5>1. Stands(mem.arg, mem.list, mem.umask0, b, n) /\ Stands(mem.arg, mem.list, mem.umask0, b, p)
            BY <3>1, <4>1, Zenon DEF Stands
          <5>2. /\ FileGoes(mem.arg, mem.list, mem.umask0, b, n, g)
                /\ FileGoes(mem.arg, mem.list, mem.umask0, b, p, g)
            BY <5>1, FileLeads, Zenon
          <5> QED BY <4>4, <5>2, Zenon DEF FileGoes
        <4>7. End(p, b, F) \in SUBSET Mode!Bits
          BY <4>6, EndNext
        <4>8. End(n, b, F) = F[n][End(p, b, F)]
          BY <4>1, <4>5, <4>6, EndNext
        <4> QED BY <4>1, <4>2, <4>3, <4>6, <4>7, <4>8, Zenon DEF n
      <3>8. ~mem.arg.absolute =>
              new = Mode!AsAsked(mem.arg.groups, IF mem.i = 1 THEN mem.umask0 ELSE {}, mem.mode[f])
        <4> SUFFICES ASSUME ~mem.arg.absolute
            PROVE  new = Mode!AsAsked(mem.arg.groups, IF mem.i = 1 THEN mem.umask0 ELSE {}, mem.mode[f])
          OBVIOUS
        <4>1. mem.umask = IF mem.i = 1 THEN mem.umask0 ELSE {}
          BY <3>1
        <4>2. mem.umask \in SUBSET Mode!Bits
          <5>1. mem.umask0 \in SUBSET Mode!Bits /\ {} \in SUBSET Mode!Bits
            BY <3>1, ModeAssumption
          <5> QED BY <4>1, <5>1
        <4>3. new = Mode!symbolic(mem.mode[f], mem.arg.groups, mem.umask)
          BY <2>1, Zenon DEF new
        <4>4. mem.mode[f] \in SUBSET Mode!Bits
          BY <3>7, Zenon
        <4>5. new = Mode!AsAsked(mem.arg.groups, mem.umask, mem.mode[f])
          BY <3>1, <4>2, <4>3, <4>4, SymbolicAsAsked, Zenon
        <4> QED BY <4>1, <4>5, Zenon
      <3>9. mem.arg.absolute => new = mem.arg.bits
        BY Zenon DEF new
      <3>10. new = FileStep(mem.arg, mem.list, mem.umask0, f, mem.i, mem.mode[f])
        <4>1. CASE mem.arg.absolute
          BY <2>1, <3>9, <4>1 DEF FileStep
        <4>2. CASE ~mem.arg.absolute
          <5> DEFINE um1 == IF mem.i = 1 THEN mem.umask0 ELSE {}
          <5>1. new = Mode!AsAsked(mem.arg.groups, um1, mem.mode[f])
            BY <3>8, <4>2, Zenon
          <5>2. FileStep(mem.arg, mem.list, mem.umask0, f, mem.i, mem.mode[f])
                  = Mode!AsAsked(mem.arg.groups, um1, mem.mode[f])
            BY <2>1, <4>2 DEF FileStep
          <5> QED BY <5>1, <5>2, Zenon
        <4> QED BY <4>1, <4>2
      <3>11. ASSUME NEW g \in ModeFiles PROVE mem'.mode[g] = ModeOf(g)'
        <4>1. CASE g = f
          BY <4>1, <3>6, <3>7, <3>10, Zenon
        <4>2. CASE g # f
          <5>1. FileStep(mem.arg, mem.list, mem.umask0, g, mem.i, mem.mode[g]) = mem.mode[g]
            BY <2>1, <4>2 DEF FileStep
          <5> QED BY <4>2, <5>1, <3>6, <3>7, Zenon
        <4> QED BY <4>1, <4>2
      <3>12. pc' \in [{0} -> {"args", "file", "end"}]
        BY <1>2, <2>1
      <3> QED BY <3>1, <3>3, <3>4, <3>5, <3>6, <3>11, <3>12, Zenon DEF ModeInv
    <2>2. Changes => mem.list[mem.i] \in ModeFiles
      OBVIOUS
    <2> HIDE DEF Changes
    <2> QED BY <1>3, <2>0, <2>1, <2>2, Zenon
  <1> QED BY <1>1, <1>4, <1>5 DEF Mode!Next

(* Where no bit is spared, or the bits of the same umask, the groups make  *)
(* the same of a mode.                                                     *)
LEMMA NoneSpared ==
    ASSUME NEW groups, DOMAIN groups = 1 .. Len(groups), Len(groups) \in Nat,
           \A i \in DOMAIN groups : groups[i].who # {}, NEW um, NEW x
    PROVE  Mode!AsAsked(groups, um, x) = Mode!AsAsked(groups, {}, x)
  <1> DEFINE n == Len(groups)
             Asks(u, h) == h = [i \in 0 .. n |-> IF i = 0 THEN x
                                                ELSE Mode!GroupAsAsked(groups[i], u, h[i - 1])]
  <1>1. ASSUME NEW g, g.who # {}, NEW y PROVE Mode!GroupAsAsked(g, um, y) = Mode!GroupAsAsked(g, {}, y)
    <2>1. Mode!Spared(g, um) = Mode!Spared(g, {})
      BY <1>1 DEF Mode!Spared
    <2> QED BY <2>1, Zenon DEF Mode!GroupAsAsked
  <1>2. ASSUME NEW h, NEW i \in 0 .. n, i # 0
        PROVE  Mode!GroupAsAsked(groups[i], um, h[i - 1]) = Mode!GroupAsAsked(groups[i], {}, h[i - 1])
    <2>1. i \in DOMAIN groups
      BY <1>2
    <2> QED BY <1>1, <2>1, Zenon
  <1>3. ASSUME NEW h
        PROVE  [i \in 0 .. n |-> IF i = 0 THEN x ELSE Mode!GroupAsAsked(groups[i], um, h[i - 1])]
                 = [i \in 0 .. n |-> IF i = 0 THEN x ELSE Mode!GroupAsAsked(groups[i], {}, h[i - 1])]
    BY <1>2, Zenon
  <1>4. \A h : Asks(um, h) <=> Asks({}, h)
    BY <1>3, Zenon
  <1>5. (CHOOSE h : Asks(um, h)) = (CHOOSE h : Asks({}, h))
    <2> HIDE DEF Asks
    <2> QED BY <1>4, Zenon
  <1> QED BY <1>5, Zenon DEF Mode!AsAsked

LEMMA ModesMeant == ModeInv => Mode!ModesAsAsked
  <1> SUFFICES ASSUME ModeInv, NEW f \in ModeFiles, Mode!Meant(f)
               PROVE  mem.mode[f] = Mode!ModeAfter(f, mem.i - 1)
    BY Zenon DEF Mode!ModesAsAsked
  <1> DEFINE n == mem.i - 1
             b == mem.before[f]
             D == SUBSET Mode!Bits
             F == FileSteps(mem.arg, mem.list, mem.umask0, f)
             Step(k, x) == FileStep(mem.arg, mem.list, mem.umask0, f, k, x)
             Asked(k, x) == IF mem.list[k] # f THEN x
                            ELSE IF mem.arg.absolute THEN mem.arg.bits
                            ELSE Mode!AsAsked(mem.arg.groups, mem.umask0, x)
             Afters(h) == h = [k \in 0 .. n |-> IF k = 0 THEN b ELSE Asked(k, h[k - 1])]
             after == CHOOSE h : Afters(h)
  <1>0. ASSUME NEW k \in 1 .. n, NEW x PROVE Step(k, x) = Asked(k, x)
    <2>1. CASE mem.list[k] # f \/ mem.arg.absolute \/ k = 1
      BY <2>1 DEF FileStep
    <2>2. CASE mem.list[k] = f /\ ~mem.arg.absolute /\ k # 1
      <3>1. mem.i \in Nat
        BY ListLength DEF ModeInv
      <3>2. k \in 2 .. mem.i - 1
        BY <2>2, <3>1
      <3>3. \A g \in DOMAIN mem.arg.groups : mem.arg.groups[g].who # {}
        BY <2>2, <3>2, Zenon DEF Mode!Meant
      <3> DEFINE groups == mem.arg.groups
      <3>4. groups \in Seq(Groups)
        BY ModeAssumption DEF Groups, ModeInv
      <3>5. Len(groups) \in Nat /\ DOMAIN groups = 1 .. Len(groups)
        BY <3>4, LenProperties, Zenon
      <3>6. \A g \in DOMAIN groups : groups[g].who # {}
        BY <3>3
      <3>7. Mode!AsAsked(groups, mem.umask0, x) = Mode!AsAsked(groups, {}, x)
        <4> HIDE DEF groups
        <4> QED BY <3>5, <3>6, NoneSpared, Zenon
      <3> QED BY <2>2, <3>7 DEF FileStep
    <2> QED BY <2>1, <2>2
  <1>1. Mode!ModeAfter(f, n) = after[n]
    BY Zenon DEF Mode!ModeAfter
  <1>2. mem.mode[f] = End(n, b, F)
    BY Zenon DEF ModeInv, ModeOf
  <1>3. Leads(D, b, n, F) /\ \A k \in 1 .. n : \A x \in D : F[k][x] = Step(k, x)
    <2>1. mem.arg \in ModeArguments /\ mem.list \in Lists /\ mem.umask0 \in SUBSET Mode!Bits /\ b \in D
      BY ModeAssumption DEF ModeInv
    <2>2. n \in 0 .. Len(mem.list)
      <3>1. Len(mem.list) \in Nat /\ mem.i \in 1 .. Len(mem.list) + 1
        BY <2>1, ListLength, Zenon DEF ModeInv
      <3> QED BY <3>1
    <2> HIDE DEF n, b
    <2>3. Stands(mem.arg, mem.list, mem.umask0, b, n)
      BY <2>1, <2>2, Zenon DEF Stands
    <2>4. FileGoes(mem.arg, mem.list, mem.umask0, b, n, f)
      <3> HIDE DEF D, F, Step
      <3> QED BY <2>3, FileLeads, Zenon
    <2>5. Leads(D, b, n, F)
      BY <2>4, Zenon DEF FileGoes
    <2>6. \A k \in 1 .. n : \A x \in D : F[k][x] = Step(k, x)
      BY <2>4, Zenon DEF FileGoes
    <2> QED BY <2>5, <2>6, Zenon
  <1> HIDE DEF n, b, D, F, Step, Asked
  <1>4. b \in D /\ n \in Nat /\ \A k \in 1 .. n : F[k] \in [D -> D]
    BY <1>3, Zenon DEF Leads
  <1>5. PICK h \in [0 .. n -> D] : Goes1(h, n, b, F)
    BY <1>4, StepsEnd
  <1>6. \A k \in 1 .. n : k - 1 \in 0 .. n /\ k \in 0 .. n /\ k # 0 /\ h[k - 1] \in D
    BY <1>4, <1>5
  <1>7. \A k \in 0 .. n : h[k] = (IF k = 0 THEN b ELSE F[k][h[k - 1]]) /\ (k # 0 => k \in 1 .. n)
    <2>1. \A k \in 0 .. n : h[k] = IF k = 0 THEN b ELSE F[k][h[k - 1]]
      BY <1>5, Zenon DEF Goes1
    <2>2. \A k \in 0 .. n : k # 0 => k \in 1 .. n
      BY <1>4
    <2> QED BY <2>1, <2>2, Zenon
  <1>8. h = [k \in 0 .. n |-> h[k]]
    BY <1>5
  <1>9. ASSUME NEW k \in 0 .. n PROVE h[k] = IF k = 0 THEN b ELSE Asked(k, h[k - 1])
    <2>1. CASE k = 0
      BY <2>1, <1>7
    <2>2. CASE k # 0
      <3>1. k \in 1 .. n /\ h[k] = F[k][h[k - 1]] /\ h[k - 1] \in D
        BY <2>2, <1>6, <1>7
      <3>2. h[k] = Asked(k, h[k - 1])
        BY <3>1, <1>0, <1>3, Zenon
      <3> QED BY <2>2, <3>2
    <2> QED BY <2>1, <2>2
  <1>10. Afters(h)
    BY <1>8, <1>9, Zenon
  <1>11. Afters(after)
    BY <1>10, Zenon
  <1> HIDE DEF after
  <1>12. after[0] = b /\ \A k \in 1 .. n : after[k] = Asked(k, after[k - 1])
    <2>1. 0 \in 0 .. n
      BY <1>4
    <2> QED BY <1>6, <1>11, <2>1, Zenon
  <1>13. Follows(after, D, b, n, F)
    <2>1. ASSUME NEW k \in 1 .. n, NEW x \in D, after[k - 1] = x PROVE after[k] = F[k][x]
      BY <1>0, <1>3, <1>12, <2>1, Zenon
    <2> QED BY <1>12, <2>1, Zenon DEF Follows
  <1>14. after[n] = End(n, b, F)
    <2> HIDE DEF Afters
    <2> QED BY <1>3, <1>13, Reached
  <1> QED BY <1>1, <1>2, <1>14, Zenon DEF n

-----------------------------------------------------------------------------
(* BankersProofs about the first banker program; at and cal need what it   *)
(* says of sums.                                                           *)
GrantProofs == INSTANCE BankersProofs WITH
                 Variant <- "grant", NPROC <- Borrowers, NRES <- Kinds, Requests <- Grants

-----------------------------------------------------------------------------
(* at.c: the day of a date, counted from the months before it.             *)
Short(y, l) == IF y % 4 = 0 THEN l ELSE Later!Short(l)
Months(y) == [n \in 1 .. 12 |-> Later!Length(y, n)]
Before(y) ==
    IF y % 4 = 0 THEN <<0, 31, 60, 91, 121, 152, 182, 213, 244, 274, 305, 335>>
    ELSE <<0, 31, 59, 90, 120, 151, 181, 212, 243, 273, 304, 334>>

LEMMA MonthsAdded ==
    ASSUME NEW y \in Nat, NEW m \in 1 .. 12
    PROVE  Later!SumFunction([n \in 1 .. m - 1 |-> Later!Length(y, n)]) = Before(y)[m]
  <1> DEFINE month == Months(y)
             Upto(k) == GrantProofs!SumFunctionOnSet(month, 1 .. k)
  <1>1. /\ month[1] = 31 /\ month[2] = (IF y % 4 = 0 THEN 29 ELSE 28) /\ month[3] = 31 /\ month[4] = 30
        /\ month[5] = 31 /\ month[6] = 30 /\ month[7] = 31 /\ month[8] = 31 /\ month[9] = 30 /\ month[10] = 31
        /\ month[11] = 30 /\ month[12] = 31
    <2> HIDE DEF month
    <2>1. \A n \in 1 .. 12 : month[n] = IF n = 2 THEN (IF y % 4 = 0 THEN 29 ELSE 28)
                                     ELSE IF n \in {4, 6, 9, 11} THEN 30 ELSE 31
      BY DEF month, Months, Later!Length
    <2> QED BY <2>1
  <1>2. \A n \in 1 .. 12 : month[n] \in Int
    BY DEF Months, Later!Length
  <1> HIDE DEF month
  <1>3. Upto(0) = 0
    <2>1. 1 .. 0 = {}
      OBVIOUS
    <2> QED BY <2>1, GrantProofs!SumEmpty
  <1>4. ASSUME NEW k \in 1 .. 12 PROVE Upto(k) = month[k] + Upto(k - 1)
    <2>1. \A x \in 1 .. k : month[x] \in Int
      BY <1>2
    <2>2. k \in Nat \ {0}
      OBVIOUS
    <2> QED BY <2>1, <2>2, GrantProofs!SumNext
  <1>5. Upto(m - 1) = Before(y)[m]
    <2> DEFINE s0 == Upto(0)
               s1 == Upto(1)
               s2 == Upto(2)
               s3 == Upto(3)
               s4 == Upto(4)
               s5 == Upto(5)
               s6 == Upto(6)
               s7 == Upto(7)
               s8 == Upto(8)
               s9 == Upto(9)
               s10 == Upto(10)
               s11 == Upto(11)
    <2>1. /\ s1 = month[1] + s0 /\ s2 = month[2] + s1 /\ s3 = month[3] + s2 /\ s4 = month[4] + s3
          /\ s5 = month[5] + s4 /\ s6 = month[6] + s5 /\ s7 = month[7] + s6 /\ s8 = month[8] + s7
          /\ s9 = month[9] + s8 /\ s10 = month[10] + s9 /\ s11 = month[11] + s10 /\ s0 = 0
      <3> HIDE DEF Upto
      <3> QED BY <1>3, <1>4
    <2> HIDE DEF s0, s1, s2, s3, s4, s5, s6, s7, s8, s9, s10, s11
    <2>2. /\ s0 = 0 /\ s1 = 31 /\ s2 = 59 + (month[2] - 28) /\ s3 = 90 + (month[2] - 28)
          /\ s4 = 120 + (month[2] - 28) /\ s5 = 151 + (month[2] - 28) /\ s6 = 181 + (month[2] - 28)
          /\ s7 = 212 + (month[2] - 28) /\ s8 = 243 + (month[2] - 28) /\ s9 = 273 + (month[2] - 28)
          /\ s10 = 304 + (month[2] - 28) /\ s11 = 334 + (month[2] - 28)
      BY <1>1, <1>2, <2>1
    <2>3. \/ m = 1 \/ m = 2 \/ m = 3 \/ m = 4 \/ m = 5 \/ m = 6
          \/ m = 7 \/ m = 8 \/ m = 9 \/ m = 10 \/ m = 11 \/ m = 12
      OBVIOUS
    <2>4. /\ Upto(1 - 1) = s0 /\ Upto(2 - 1) = s1 /\ Upto(3 - 1) = s2 /\ Upto(4 - 1) = s3
          /\ Upto(5 - 1) = s4 /\ Upto(6 - 1) = s5 /\ Upto(7 - 1) = s6 /\ Upto(8 - 1) = s7
          /\ Upto(9 - 1) = s8 /\ Upto(10 - 1) = s9 /\ Upto(11 - 1) = s10 /\ Upto(12 - 1) = s11
      BY DEF s0, s1, s2, s3, s4, s5, s6, s7, s8, s9, s10, s11
    <2> HIDE DEF Upto
    <2> QED BY <1>1, <2>2, <2>3, <2>4 DEF Before
  <1>6. Later!SumFunction([n \in 1 .. m - 1 |-> Later!Length(y, n)]) = Upto(m - 1)
    <2> DEFINE part == [n \in 1 .. m - 1 |-> Later!Length(y, n)]
               last == m - 1
    <2>1. last \in Nat /\ DOMAIN part = 1 .. last /\ \A x \in 1 .. last : part[x] = month[x]
      BY DEF month, Months
    <2>2. Later!SumFunction(part) = GrantProofs!SumFunctionOnSet(part, DOMAIN part)
      BY Zenon DEF Later!SumFunction, Later!SumFunctionOnSet, Later!FoldFunctionOnSet,
                   Later!MapThenFoldSet, GrantProofs!SumFunctionOnSet,
                   GrantProofs!FoldFunctionOnSet, GrantProofs!MapThenFoldSet
    <2> HIDE DEF part, last
    <2>3. GrantProofs!SumFunctionOnSet(part, 1 .. last)
            = GrantProofs!SumFunctionOnSet(month, 1 .. last)
      BY <2>1, GrantProofs!SumSameUpto
    <2> QED BY <2>1, <2>2, <2>3 DEF part, last
  <1> QED BY <1>5, <1>6

(* A date is the day that getlday says in leap years, and the one before   *)
(* it from March on in the others.                                         *)
LEMMA DayMeans ==
    ASSUME NEW y \in Nat, NEW m \in Nat, NEW d \in Nat, Later!getlday(m, d) # -1
    PROVE  /\ Later!DayOf(y, m, d) = Short(y, Later!getlday(m, d))
           /\ Later!getlday(m, d) \in 0 .. 365
           /\ Short(y, Later!getlday(m, d)) \in Later!InYear(y)
  <1> DEFINE l == Later!getlday(m, d)
             q == y % 4
  <1>1. m \in 1 .. 12 /\ d > 0 /\ d <= Later!dcnt[m] /\ l = d - 1 + Later!cumday[m]
    BY DEF Later!getlday
  <1>2. Later!DayOf(y, m, d) = Before(y)[m] + d - 1
    BY <1>1, MonthsAdded DEF Later!DayOf
  <1>3. /\ Before(y)[m] = IF q # 0 /\ m > 2 THEN Later!cumday[m] - 1 ELSE Later!cumday[m]
        /\ Later!cumday[m] \in 0 .. 335 /\ Later!cumday[m] + Later!dcnt[m] <= 366
        /\ m > 2 => Later!cumday[m] >= 60
        /\ m <= 2 => Later!cumday[m] + Later!dcnt[m] <= 60
    <2>1. \/ m = 1 \/ m = 2 \/ m = 3 \/ m = 4 \/ m = 5 \/ m = 6
          \/ m = 7 \/ m = 8 \/ m = 9 \/ m = 10 \/ m = 11 \/ m = 12
      BY <1>1
    <2> HIDE DEF q
    <2>2. Before(y) = IF q = 0 THEN <<0, 31, 60, 91, 121, 152, 182, 213, 244, 274, 305, 335>>
                      ELSE <<0, 31, 59, 90, 120, 151, 181, 212, 243, 273, 304, 334>>
      BY DEF Before, q
    <2> QED BY <2>1, <2>2 DEF Later!cumday, Later!dcnt
  <1>4. Short(y, l) = IF q # 0 /\ l > 59 THEN l - 1 ELSE l
    BY DEF Short, Later!Short, Later!LEAPDAY
  <1>5. Later!InYear(y) = 0 .. IF q = 0 THEN 365 ELSE 364
    BY DEF Later!InYear
  <1> DEFINE c == Later!cumday[m]
             b == Before(y)[m]
             n == Later!dcnt[m]
             D == Later!DayOf(y, m, d)
             s == Short(y, l)
             I == Later!InYear(y)
  <1> HIDE DEF l, q, c, b, n, D, s, I
  <1>6. /\ d > 0 /\ d <= n /\ l = d - 1 + c /\ D = b + d - 1
        /\ b = (IF q # 0 /\ m > 2 THEN c - 1 ELSE c) /\ c \in 0 .. 335 /\ c + n <= 366
        /\ (m > 2 => c >= 60) /\ (m <= 2 => c + n <= 60)
        /\ s = (IF q # 0 /\ l > 59 THEN l - 1 ELSE l)
        /\ I = 0 .. IF q = 0 THEN 365 ELSE 364
    BY <1>1, <1>2, <1>3, <1>4, <1>5 DEF c, b, n, D, s, I
  <1>7. n \in Int
    <2>1. m \in 1 .. 12
      BY <1>1
    <2> QED BY <2>1 DEF n, Later!dcnt
  <1>8. l > 59 <=> m > 2
    BY <1>6, <1>7
  <1>9. D = s /\ l \in 0 .. 365 /\ s \in I
    BY <1>6, <1>7, <1>8
  <1> QED BY <1>9 DEF l, D, s, I

(* Moments are compared by year, day and time.                             *)
LEMMA LaterMeans ==
    ASSUME NEW a1 \in Int, NEW a2 \in Int, NEW a3 \in Int,
           NEW b1 \in Int, NEW b2 \in Int, NEW b3 \in Int
    PROVE  Later!Later(<<a1, a2, a3>>, <<b1, b2, b3>>) <=>
             \/ a1 > b1 \/ (a1 = b1 /\ a2 > b2) \/ (a1 = b1 /\ a2 = b2 /\ a3 > b3)
  <1> DEFINE a == <<a1, a2, a3>>
             b == <<b1, b2, b3>>
  <1>1. /\ DOMAIN a = 1 .. 3 /\ a[1] = a1 /\ a[2] = a2 /\ a[3] = a3
        /\ b[1] = b1 /\ b[2] = b2 /\ b[3] = b3
    OBVIOUS
  <1> HIDE DEF a, b
  <1>2. Later!Later(a, b) <=> \E k \in 1 .. 3 : a[k] > b[k] /\ \A j \in 1 .. k - 1 : a[j] = b[j]
    BY <1>1 DEF Later!Later
  <1>3. ASSUME NEW k \in 1 .. 3
        PROVE  (\A j \in 1 .. k - 1 : a[j] = b[j]) <=> (k > 1 => a[1] = b[1]) /\ (k > 2 => a[2] = b[2])
    OBVIOUS
  <1>4. Later!Later(a, b) <=>
          \E k \in 1 .. 3 : a[k] > b[k] /\ (k > 1 => a[1] = b[1]) /\ (k > 2 => a[2] = b[2])
    BY <1>2, <1>3
  <1>5. (\E k \in 1 .. 3 : a[k] > b[k] /\ (k > 1 => a[1] = b[1]) /\ (k > 2 => a[2] = b[2])) <=>
          \/ a[1] > b[1] \/ (a[1] = b[1] /\ a[2] > b[2])
          \/ (a[1] = b[1] /\ a[2] = b[2] /\ a[3] > b[3])
    <2>1. 1 \in 1 .. 3 /\ 2 \in 1 .. 3 /\ 3 \in 1 .. 3 /\ \A k \in 1 .. 3 : k = 1 \/ k = 2 \/ k = 3
      OBVIOUS
    <2> QED BY <2>1, <1>1
  <1>6. Later!Later(a, b) <=> \/ a1 > b1 \/ (a1 = b1 /\ a2 > b2) \/ (a1 = b1 /\ a2 = b2 /\ a3 > b3)
    BY <1>1, <1>4, <1>5
  <1> QED BY <1>6 DEF a, b

-----------------------------------------------------------------------------
(* at.c: what was asked for and what the arguments were found to mean.     *)
AtInv ==
    /\ pc \in [{0} -> {"args", "time", "end"}]
    /\ mem = [year |-> mem.year, yday |-> mem.yday, now |-> mem.now, time |-> mem.time,
              date |-> mem.date, ltim |-> mem.ltim, lday |-> mem.lday, job |-> mem.job,
              status |-> mem.status]
    /\ mem.year \in Years /\ mem.yday \in Later!InYear(mem.year)
    /\ mem.now \in Now /\ mem.time \in Times /\ mem.date \in Dates \cup {Later!NoDate}
    /\ pc[0] # "end" => mem.job = <<>>
    /\ pc[0] = "time" =>
         /\ mem.ltim = mem.time
         /\ IF mem.date = Later!NoDate THEN mem.lday = Later!NODAY
            ELSE mem.lday # -1 /\ mem.lday = Later!getlday(mem.date[1], mem.date[2])
    /\ Later!FirstComing

LEMMA AtBegins == Later!Init => AtInv
<1> SUFFICES ASSUME Later!Init PROVE AtInv
  OBVIOUS
<1>1. PICK year \in Years, yday \in Days, now \in Now, t \in Times, date \in Dates \cup {Later!NoDate} :
         /\ year % 4 # 0 => yday < 365
         /\ mem = [year |-> year, yday |-> yday, now |-> now, time |-> t, date |-> date,
                   ltim |-> -1, lday |-> Later!NODAY, job |-> <<>>, status |-> -1]
  BY DEF Later!Init, Later!MAXDAYNR
<1>2. yday \in Later!InYear(year)
  <2> DEFINE q == year % 4
  <2>1. yday \in 0 .. 365 /\ (q # 0 => yday < 365)
    BY <1>1, AtAssumption
  <2> HIDE DEF q
  <2>2. yday \in 0 .. IF q = 0 THEN 365 ELSE 364
    BY <2>1
  <2> QED BY <2>2 DEF q, Later!InYear
<1>3. /\ mem.year = year /\ mem.yday = yday /\ mem.now = now /\ mem.time = t /\ mem.date = date
      /\ mem.job = <<>>
      /\ mem = [year |-> mem.year, yday |-> mem.yday, now |-> mem.now, time |-> mem.time,
              date |-> mem.date, ltim |-> mem.ltim, lday |-> mem.lday, job |-> mem.job,
              status |-> mem.status]
  BY <1>1
<1>4. pc \in [{0} -> {"args", "time", "end"}] /\ pc[0] = "args"
  BY DEF Later!Init, Later!main
<1>5. Later!FirstComing
  BY <1>3 DEF Later!FirstComing
<1> QED
  BY <1>2, <1>3, <1>4, <1>5 DEF AtInv

(* The days that fit, those of them that are still to come, and the first. *)
FitsDay(y, d) == mem.date = Later!NoDate \/ d = Later!DayOf(y, mem.date[1], mem.date[2])
Coming(y, d) ==
    \/ y > mem.year \/ (y = mem.year /\ d > mem.yday)
    \/ (y = mem.year /\ d = mem.yday /\ mem.time > mem.now)
FirstDay(y, d) ==
    /\ y \in {mem.year, mem.year + 1} /\ d \in Later!InYear(y)
    /\ FitsDay(y, d) /\ Coming(y, d)
    /\ \A z \in {mem.year, mem.year + 1} : \A e \in Later!InYear(z) :
         FitsDay(z, e) /\ Coming(z, e) => z > y \/ (z = y /\ e >= d)

(* Without a date: today or tomorrow.                                      *)
LEMMA SoonIsFirst ==
    ASSUME AtInv, pc[0] = "time", mem.date = Later!NoDate
    PROVE  \E y, d \in Nat : Later!Soon = <<y, d>> /\ FirstDay(y, d)
<1> DEFINE year == mem.year
           yday == mem.yday
           now == mem.now
           time == mem.time
           q == year % 4
           q1 == (year + 1) % 4
<1>1. year \in Nat /\ yday \in 0 .. (IF q = 0 THEN 365 ELSE 364) /\ now \in Nat /\ time \in Nat
      /\ mem.ltim = time
  <2>1. /\ mem.year \in Years /\ yday \in Later!InYear(year) /\ now \in Now /\ time \in Times
        /\ mem.ltim = time
    BY Zenon DEF AtInv
  <2>2. yday \in 0 .. (IF q = 0 THEN 365 ELSE 364)
    BY <2>1 DEF Later!InYear
  <2>3. Years \subseteq Nat
    BY AtAssumption
  <2> QED BY <2>1, <2>2, <2>3, AtAssumption
<1>2. Later!InYear(year) = 0 .. (IF q = 0 THEN 365 ELSE 364)
      /\ Later!InYear(year + 1) = 0 .. (IF q1 = 0 THEN 365 ELSE 364)
  BY DEF Later!InYear
<1>3. Later!NewYear(yday + 1) <=> (yday = 364 /\ q # 0) \/ yday = 365
  BY <1>1 DEF Later!NewYear, Later!MAXDAYNR
<1>4. \A z, e : FitsDay(z, e)
  BY DEF FitsDay
<1>5. CASE time > now
  <2>1. Later!Soon = <<year, yday>>
    BY <1>1, <1>5 DEF Later!Soon
  <2>2. FirstDay(year, yday)
    <3>1. yday \in Later!InYear(year) /\ Coming(year, yday)
      BY <1>1, <1>2, <1>5 DEF Coming
    <3>2. ASSUME NEW z \in {year, year + 1}, NEW e \in Later!InYear(z), Coming(z, e)
          PROVE  z > year \/ (z = year /\ e >= yday)
      <4>1. e \in Int
        BY <3>2 DEF Later!InYear
      <4> QED BY <1>1, <3>2, <4>1 DEF Coming
    <3> QED BY <1>4, <3>1, <3>2 DEF FirstDay
  <2> QED BY <1>1, <2>1, <2>2
<1>6. CASE ~(time > now) /\ ~Later!NewYear(yday + 1)
  <2>1. Later!Soon = <<year, yday + 1>>
    BY <1>1, <1>6 DEF Later!Soon
  <2>2. FirstDay(year, yday + 1)
    <3>1. yday + 1 \in Later!InYear(year) /\ Coming(year, yday + 1)
      <4> HIDE DEF q
      <4> QED BY <1>1, <1>2, <1>3, <1>6 DEF Coming
    <3>2. ASSUME NEW z \in {year, year + 1}, NEW e \in Later!InYear(z), Coming(z, e)
          PROVE  z > year \/ (z = year /\ e >= yday + 1)
      <4>1. e \in Int
        BY <3>2 DEF Later!InYear
      <4> QED BY <1>1, <1>6, <3>2, <4>1 DEF Coming
    <3> QED BY <1>4, <3>1, <3>2 DEF FirstDay
  <2> QED BY <1>1, <2>1, <2>2
<1>7. CASE ~(time > now) /\ Later!NewYear(yday + 1)
  <2>1. Later!Soon = <<year + 1, 0>>
    BY <1>1, <1>7 DEF Later!Soon
  <2>2. FirstDay(year + 1, 0)
    <3>1. 0 \in Later!InYear(year + 1) /\ Coming(year + 1, 0)
      <4> HIDE DEF q1
      <4> QED BY <1>1, <1>2 DEF Coming
    <3>2. ASSUME NEW z \in {year, year + 1}, NEW e \in Later!InYear(z), Coming(z, e)
          PROVE  z > year + 1 \/ (z = year + 1 /\ e >= 0)
      <4>1. e \in Nat
        BY <3>2 DEF Later!InYear
      <4>2. z # year
        <5> SUFFICES ASSUME z = year PROVE FALSE
          OBVIOUS
        <5>1. e \in 0 .. (IF q = 0 THEN 365 ELSE 364)
          BY <1>2
        <5> HIDE DEF q
        <5> QED BY <1>1, <1>3, <1>7, <3>2, <4>1, <5>1 DEF Coming
      <4> QED BY <1>1, <3>2, <4>1, <4>2
    <3> QED BY <1>1, <1>4, <3>1, <3>2 DEF FirstDay
  <2> QED BY <1>1, <2>1, <2>2
<1> QED BY <1>5, <1>6, <1>7

(* With a date: in this year or the next.                                  *)
LEMMA OnDateIsFirst ==
    ASSUME AtInv, pc[0] = "time", mem.date # Later!NoDate
    PROVE  \E y, d \in Nat : Later!OnDate(mem.lday) = <<y, d>> /\ FirstDay(y, d)
<1> DEFINE year == mem.year
           yday == mem.yday
           l == mem.lday
           D(z) == Short(z, l)
           here == D(year)
           there == D(year + 1)
           q == year % 4
           p == (year + 1) % 4
<1>1. /\ year \in Nat /\ yday \in Nat /\ mem.now \in Nat /\ mem.time \in Nat /\ mem.ltim = mem.time
      /\ mem.date[1] \in Nat /\ mem.date[2] \in Nat
      /\ l # -1 /\ l = Later!getlday(mem.date[1], mem.date[2])
  <2>1. mem.date \in Nat \X Nat
    BY AtAssumption DEF AtInv
  <2>2. /\ year \in Years /\ yday \in Later!InYear(year) /\ mem.now \in Now /\ mem.time \in Times
        /\ mem.ltim = mem.time /\ l # -1 /\ l = Later!getlday(mem.date[1], mem.date[2])
    BY Zenon DEF AtInv
  <2>3. Years \subseteq Nat /\ Later!InYear(year) \subseteq Nat
    BY AtAssumption DEF Later!InYear
  <2> HIDE DEF year, yday, l
  <2> QED BY <2>1, <2>2, <2>3, AtAssumption
<1>2. ASSUME NEW z \in Nat
      PROVE  /\ Later!DayOf(z, mem.date[1], mem.date[2]) = D(z) /\ D(z) \in Later!InYear(z)
             /\ l \in 0 .. 365
  <2> DEFINE m == mem.date[1]
             d == mem.date[2]
  <2>1. m \in Nat /\ d \in Nat /\ l = Later!getlday(m, d) /\ l # -1
    BY <1>1
  <2> HIDE DEF m, d, l
  <2>2. /\ Later!DayOf(z, m, d) = Short(z, Later!getlday(m, d))
        /\ Later!getlday(m, d) \in 0 .. 365
        /\ Short(z, Later!getlday(m, d)) \in Later!InYear(z)
    BY <2>1, DayMeans
  <2> QED BY <2>1, <2>2 DEF m, d
<1>3. \A z \in Nat : \A e : FitsDay(z, e) <=> e = D(z)
  BY <1>2 DEF FitsDay
<1>4. /\ l \in 0 .. 365 /\ here \in Later!InYear(year) /\ there \in Later!InYear(year + 1)
      /\ here \in Nat /\ there \in Nat
  <2>1. \A z \in Nat : Later!InYear(z) \subseteq Nat
    BY DEF Later!InYear
  <2> QED BY <1>1, <1>2, <2>1
<1>5. /\ here = IF q = 0 THEN l ELSE Later!Short(l)
      /\ there = IF p = 0 THEN l ELSE Later!Short(l)
  BY DEF Short
<1>6. q \in 0 .. 3 /\ (p = 0 <=> q = 3)
  BY <1>1
<1> DEFINE now == Coming(year, here)
<1>7. Later!OnDate(l) = IF now THEN <<year, here>> ELSE <<year + 1, there>>
  <2> DEFINE r == Later!OnDate(l)
             s == Later!Short(l)
             t == mem.time
             n == mem.now
  <2>1. /\ q = 0 => r = IF l < yday \/ (l = yday /\ t <= n) THEN <<year + 1, s>> ELSE <<year, l>>
        /\ q \in {1, 2} => r = <<IF s < yday \/ (s = yday /\ t <= n) THEN year + 1 ELSE year, s>>
        /\ q = 3 => LET y == IF l > 59 THEN yday + 1 ELSE yday
                    IN  r = IF l < y \/ (l = y /\ t <= n) THEN <<year + 1, l>> ELSE <<year, s>>
    BY <1>1 DEF Later!OnDate, Later!Past, Later!LEAPDAY
  <2>2. s = Later!Short(l) /\ s = IF l > 59 THEN l - 1 ELSE l
    BY DEF Later!Short, Later!LEAPDAY
  <2>3. now <=> here > yday \/ (here = yday /\ t > n)
    BY <1>1, <1>4 DEF Coming
  <2>4. year \in Nat /\ yday \in Nat /\ t \in Nat /\ n \in Nat
    BY <1>1
  <2> HIDE DEF now, r, s, t, n, q, p, here, there, year, yday, l
  <2>5. q = 0 => r = IF now THEN <<year, here>> ELSE <<year + 1, there>>
    BY <1>4, <1>5, <1>6, <2>1, <2>2, <2>3, <2>4
  <2>6. q \in {1, 2} => r = IF now THEN <<year, here>> ELSE <<year + 1, there>>
    BY <1>4, <1>5, <1>6, <2>1, <2>2, <2>3, <2>4
  <2>7. q = 3 => r = IF now THEN <<year, here>> ELSE <<year + 1, there>>
    BY <1>4, <1>5, <1>6, <2>1, <2>2, <2>3, <2>4
  <2>8. r = IF now THEN <<year, here>> ELSE <<year + 1, there>>
    BY <1>6, <2>5, <2>6, <2>7
  <2> QED BY <2>8 DEF r
<1>8. CASE now
  <2>1. FirstDay(year, here)
    <3>1. ASSUME NEW z \in {year, year + 1}, NEW e \in Later!InYear(z), FitsDay(z, e), Coming(z, e)
          PROVE  z > year \/ (z = year /\ e >= here)
      <4>1. z \in Nat /\ (z = year => e = here)
        BY <1>1, <1>3, <3>1
      <4> HIDE DEF here
      <4> QED BY <1>1, <1>4, <4>1
    <3>2. FitsDay(year, here)
      BY <1>1, <1>3
    <3> HIDE DEF here
    <3> QED BY <1>4, <1>8, <3>1, <3>2 DEF FirstDay
  <2> HIDE DEF here
  <2> QED BY <1>1, <1>4, <1>7, <1>8, <2>1
<1>9. CASE ~now
  <2>1. FirstDay(year + 1, there)
    <3>1. ASSUME NEW z \in {year, year + 1}, NEW e \in Later!InYear(z), FitsDay(z, e), Coming(z, e)
          PROVE  z > year + 1 \/ (z = year + 1 /\ e >= there)
      <4>1. z \in Nat /\ e = D(z)
        BY <1>1, <1>3, <3>1
      <4>2. z # year
        BY <1>9, <3>1, <4>1
      <4>3. z = year + 1 /\ e = there
        BY <4>1, <4>2
      <4> HIDE DEF there
      <4> QED BY <1>1, <1>4, <4>3
    <3>2. FitsDay(year + 1, there) /\ Coming(year + 1, there)
      <4>1. year + 1 \in Nat /\ year + 1 > year
        BY <1>1
      <4> QED BY <1>3, <4>1 DEF Coming
    <3> HIDE DEF there
    <3> QED BY <1>4, <3>1, <3>2 DEF FirstDay
  <2> HIDE DEF there, here, now
  <2>2. year + 1 \in Nat
    BY <1>1
  <2> QED BY <1>4, <1>7, <1>9, <2>1, <2>2
<1> QED BY <1>8, <1>9

AllComing(year, yday, now, time, date) ==
    {m \in UNION {{y} \X Later!InYear(y) \X {time} : y \in year .. year + 1} :
       /\ date = Later!NoDate \/ m[2] = Later!DayOf(m[1], date[1], date[2])
       /\ Later!Later(m, <<year, yday, now>>)}
Right(year, yday, now, time, date, job) ==
    job # <<>> =>
      /\ job \in AllComing(year, yday, now, time, date)
      /\ \A m \in AllComing(year, yday, now, time, date) : m = job \/ Later!Later(m, job)

LEMMA RightMeans ==
    /\ Later!FirstComing <=>
         Right(mem.year, mem.yday, mem.now, mem.time, mem.date, mem.job)
    /\ (Later!FirstComing)' <=>
         Right(mem'.year, mem'.yday, mem'.now, mem'.time, mem'.date, mem'.job)
<1>1. Later!FirstComing <=>
         Right(mem.year, mem.yday, mem.now, mem.time, mem.date, mem.job)
  BY Zenon DEF Later!FirstComing, Right, AllComing
<1>2. (Later!FirstComing)' <=>
         Right(mem'.year, mem'.yday, mem'.now, mem'.time, mem'.date, mem'.job)
  BY Zenon DEF Later!FirstComing, Right, AllComing, Later!InYear, Later!DayOf, Later!Later,
               Later!NoDate
<1> QED BY <1>1, <1>2

(* No job is made: the file of commands or the pipe is not there, or the   *)
(* job cannot be created.                                                  *)
LEMMA AtGivesUp ==
    ASSUME AtInv, pc' = [pc EXCEPT ![0] = "end"], mem' = [mem EXCEPT !.status = 1]
    PROVE  AtInv'
<1>1. pc' \in [{0} -> {"args", "time", "end"}] /\ pc'[0] = "end"
  BY DEF AtInv
<1>2. mem' = [year |-> mem.year, yday |-> mem.yday, now |-> mem.now, time |-> mem.time,
              date |-> mem.date, ltim |-> mem.ltim, lday |-> mem.lday, job |-> mem.job,
              status |-> 1]
  <2>1. mem = [year |-> mem.year, yday |-> mem.yday, now |-> mem.now, time |-> mem.time,
               date |-> mem.date, ltim |-> mem.ltim, lday |-> mem.lday, job |-> mem.job,
               status |-> mem.status]
    BY Zenon DEF AtInv
  <2> QED BY <2>1
<1>3. /\ mem'.year = mem.year /\ mem'.yday = mem.yday /\ mem'.now = mem.now
      /\ mem'.time = mem.time /\ mem'.date = mem.date /\ mem'.ltim = mem.ltim
      /\ mem'.lday = mem.lday /\ mem'.job = mem.job /\ mem'.status = 1
  BY <1>2
<1>4. (Later!FirstComing)'
  <2>1. Right(mem.year, mem.yday, mem.now, mem.time, mem.date, mem.job)
    BY RightMeans, Zenon DEF AtInv
  <2>2. Right(mem'.year, mem'.yday, mem'.now, mem'.time, mem'.date, mem'.job)
    BY <1>3, <2>1, Zenon
  <2> QED BY <2>2, RightMeans, Zenon
<1>5. /\ mem.year \in Years /\ mem.yday \in Later!InYear(mem.year)
      /\ mem.now \in Now /\ mem.time \in Times /\ mem.date \in Dates \cup {Later!NoDate}
  BY Zenon DEF AtInv
<1> QED
  BY <1>1, <1>2, <1>3, <1>4, <1>5 DEF AtInv, Later!InYear

LEMMA AtGoesOn ==
    ASSUME AtInv, Later!Next \/ UNCHANGED vars
    PROVE  AtInv'
<1>1. CASE UNCHANGED vars
  BY <1>1 DEF vars, AtInv, Later!FirstComing
<1>2. CASE Later!Arguments
  <2>1. pc[0] = "args" /\ mem.job = <<>> /\ pc \in [{0} -> {"args", "time", "end"}]
    BY <1>2 DEF AtInv, Later!Arguments, Later!main
  <2>2. /\ mem = [year |-> mem.year, yday |-> mem.yday, now |-> mem.now, time |-> mem.time,
                  date |-> mem.date, ltim |-> mem.ltim, lday |-> mem.lday, job |-> mem.job,
                  status |-> mem.status]
        /\ mem.year \in Years /\ mem.yday \in Later!InYear(mem.year)
        /\ mem.now \in Now /\ mem.time \in Times /\ mem.date \in Dates \cup {Later!NoDate}
    BY Zenon DEF AtInv
  <2> DEFINE day == Later!getlday(mem.date[1], mem.date[2])
             none == mem.date = Later!NoDate
             lday == IF none THEN Later!NODAY ELSE day
             t == Later!getltim(mem.time)
  <2>3. CASE /\ t # -1 /\ (none \/ day # -1)
             /\ Later!Go(Later!main, "args", "time")
             /\ mem' = [mem EXCEPT !.ltim = t, !.lday = lday]
    <3>1. t = mem.time
      BY <2>3 DEF Later!getltim
    <3>2. pc' \in [{0} -> {"args", "time", "end"}] /\ pc'[0] = "time"
      BY <2>1, <2>3 DEF Later!Go, Later!main
    <3>3. IF none THEN lday = Later!NODAY ELSE lday # -1 /\ lday = day
      BY <2>3
    <3> HIDE DEF t, lday, day, none
    <3>4. /\ mem' = [year |-> mem.year, yday |-> mem.yday, now |-> mem.now, time |-> mem.time,
                     date |-> mem.date, ltim |-> t, lday |-> lday, job |-> mem.job,
                     status |-> mem.status]
      BY <2>2, <2>3
    <3>5. /\ mem'.year = mem.year /\ mem'.yday = mem.yday /\ mem'.now = mem.now
          /\ mem'.time = mem.time /\ mem'.date = mem.date /\ mem'.ltim = t /\ mem'.lday = lday
          /\ mem'.job = mem.job /\ mem'.status = mem.status
      BY <3>4
    <3>6. (Later!FirstComing)'
      BY <2>1, <3>5 DEF Later!FirstComing
    <3>7. IF mem'.date = Later!NoDate THEN mem'.lday = Later!NODAY
          ELSE mem'.lday # -1 /\ mem'.lday = Later!getlday(mem'.date[1], mem'.date[2])
      BY <3>3, <3>5 DEF day, none
    <3> QED
      BY <2>1, <2>2, <3>1, <3>2, <3>4, <3>5, <3>6, <3>7 DEF AtInv, Later!InYear
  <2>4. CASE Later!Go(Later!main, "args", "end") /\ mem' = [mem EXCEPT !.status = 1]
    BY <2>4, AtGivesUp DEF Later!Go, Later!main
  <2> QED
    BY <1>2, <2>3, <2>4, Zenon DEF Later!Arguments
<1>3. CASE Later!Write
  <2>1. /\ pc[0] = "time" /\ pc \in [{0} -> {"args", "time", "end"}]
        /\ pc' = [pc EXCEPT ![0] = "end"]
    BY <1>3 DEF AtInv, Later!Write, Later!Go, Later!main
  <2>2. /\ mem = [year |-> mem.year, yday |-> mem.yday, now |-> mem.now, time |-> mem.time,
                  date |-> mem.date, ltim |-> mem.ltim, lday |-> mem.lday, job |-> mem.job,
                  status |-> mem.status]
        /\ mem.year \in Years /\ mem.yday \in Later!InYear(mem.year)
        /\ mem.now \in Now /\ mem.time \in Times /\ mem.date \in Dates \cup {Later!NoDate}
        /\ mem.ltim = mem.time
    BY <2>1, Zenon DEF AtInv
  <2> DEFINE chosen == IF mem.lday = Later!NODAY THEN Later!Soon ELSE Later!OnDate(mem.lday)
             job == chosen \o <<mem.ltim>>
  <2>3. PICK y \in Nat, d \in Nat : chosen = <<y, d>> /\ FirstDay(y, d)
    <3>1. CASE mem.date = Later!NoDate
      <4>1. mem.lday = Later!NODAY
        BY <2>1, <3>1 DEF AtInv
      <4> QED BY <2>1, <3>1, <4>1, SoonIsFirst
    <3>2. CASE mem.date # Later!NoDate
      <4>1. mem.lday # Later!NODAY
        <5>1. mem.date \in Nat \X Nat /\ mem.lday = Later!getlday(mem.date[1], mem.date[2])
          BY <2>1, <2>2, <3>2, AtAssumption DEF AtInv
        <5>2. mem.lday \in 0 .. 365
          <6> DEFINE m == mem.date[1]
                     n == mem.date[2]
          <6>1. m \in Nat /\ n \in Nat /\ Later!getlday(m, n) # -1 /\ mem.lday = Later!getlday(m, n)
            BY <2>1, <3>2, <5>1 DEF AtInv
          <6>2. 0 \in Nat
            OBVIOUS
          <6> HIDE DEF m, n
          <6>3. Later!getlday(m, n) \in 0 .. 365
            BY <6>1, <6>2, DayMeans, Zenon
          <6> QED BY <6>1, <6>3
        <5> QED BY <5>2 DEF Later!NODAY
      <4> QED BY <2>1, <3>2, <4>1, OnDateIsFirst
    <3> QED BY <3>1, <3>2
  <2>4. job = <<y, d, mem.time>>
    <3> DEFINE t == mem.ltim
    <3>1. job = <<y, d>> \o <<t>>
      BY <2>3
    <3> HIDE DEF t
    <3>2. <<y, d>> \o <<t>> = <<y, d, t>>
      <4>1. t \in Nat
        BY <2>2, AtAssumption DEF t
      <4> DEFINE a == <<y, d>>
                 b == <<t>>
                 c == <<y, d, t>>
      <4>2. a \in Seq(Nat) /\ b \in Seq(Nat) /\ c \in Seq(Nat) /\ Len(a) = 2 /\ Len(b) = 1 /\ Len(c) = 3
            /\ a[1] = y /\ a[2] = d /\ b[1] = t /\ c[1] = y /\ c[2] = d /\ c[3] = t
        BY <4>1
      <4> HIDE DEF a, b, c
      <4>3. a \o b \in Seq(Nat) /\ Len(a \o b) = 3
            /\ \A i \in 1 .. 3 : (a \o b)[i] = c[i]
        <5>a. a \in Seq(Nat) /\ b \in Seq(Nat)
          BY <4>2, Zenon
        <5>0. /\ a \o b \in Seq(Nat)
              /\ Len(a \o b) = Len(a) + Len(b)
              /\ \A i \in 1 .. Len(a) + Len(b) :
                     (a \o b)[i] = IF i <= Len(a) THEN a[i] ELSE b[i - Len(a)]
          BY <5>a, ConcatProperties, Zenon
        <5> DEFINE ab == a \o b
                   la == Len(a)
                   lb == Len(b)
        <5>b. la = 2 /\ lb = 1
          BY <4>2, Zenon
        <5>c. ab \in Seq(Nat) /\ Len(ab) = la + lb
              /\ \A i \in 1 .. la + lb : ab[i] = IF i <= la THEN a[i] ELSE b[i - la]
          BY <5>0, Zenon
        <5> HIDE DEF la, lb, ab
        <5>d. ab[1] = a[1] /\ ab[2] = a[2] /\ ab[3] = b[1]
          BY <5>b, <5>c
        <5>1. a \o b \in Seq(Nat) /\ Len(a \o b) = 3
          BY <5>b, <5>c DEF ab
        <5>2. (a \o b)[1] = a[1] /\ (a \o b)[2] = a[2] /\ (a \o b)[3] = b[1]
          BY <5>d, Zenon DEF ab
        <5>3. \A i \in 1 .. 3 : i = 1 \/ i = 2 \/ i = 3
          OBVIOUS
        <5> QED BY <4>2, <5>1, <5>2, <5>3
      <4>4. a \o b = c
        BY <4>2, <4>3, SeqEqual
      <4> QED BY <4>4 DEF a, b, c
    <3> QED BY <2>2, <3>1, <3>2 DEF t
  <2>5. mem' = [mem EXCEPT !.status = 0, !.job = job]
    BY <1>3, Zenon DEF Later!Write
  <2> HIDE DEF job
  <2>6. mem' = [year |-> mem.year, yday |-> mem.yday, now |-> mem.now, time |-> mem.time,
                date |-> mem.date, ltim |-> mem.ltim, lday |-> mem.lday, job |-> job,
                status |-> 0]
    BY <2>2, <2>5
  <2>7. /\ mem'.year = mem.year /\ mem'.yday = mem.yday /\ mem'.now = mem.now
        /\ mem'.time = mem.time /\ mem'.date = mem.date /\ mem'.ltim = mem.ltim
        /\ mem'.lday = mem.lday /\ mem'.job = job /\ mem'.status = 0
    BY <2>6
  <2>8. (Later!FirstComing)'
    <3> DEFINE now == <<mem.year, mem.yday, mem.now>>
               coming == AllComing(mem.year, mem.yday, mem.now, mem.time, mem.date)
    <3>1. /\ mem.year \in Nat /\ mem.yday \in Nat /\ mem.now \in Nat /\ mem.time \in Nat
      <4>1. Later!InYear(mem.year) \subseteq Nat /\ Years \subseteq Nat
        BY AtAssumption DEF Later!InYear
      <4> QED BY <2>2, <4>1, AtAssumption
    <3>2. ASSUME NEW z \in Nat, NEW e \in Nat
          PROVE  Later!Later(<<z, e, mem.time>>, now) <=> Coming(z, e)
      BY <3>1, LaterMeans DEF Coming
    <3>7. \A m : m \in coming <=>
            /\ m \in UNION {{z} \X Later!InYear(z) \X {mem.time} : z \in mem.year .. mem.year + 1}
            /\ FitsDay(m[1], m[2]) /\ Later!Later(m, now)
      BY Zenon DEF AllComing, FitsDay
    <3> HIDE DEF coming
    <3>3. mem.year .. mem.year + 1 = {mem.year, mem.year + 1}
      BY <3>1
    <3>4. job \in coming
      <4>1. y \in {mem.year, mem.year + 1} /\ d \in Later!InYear(y) /\ FitsDay(y, d)
        BY <2>3 DEF FirstDay
      <4>2. Later!Later(job, now)
        BY <2>3, <2>4, <3>2 DEF FirstDay
      <4>3. job[1] = y /\ job[2] = d
        BY <2>4
      <4>4. job \in {y} \X Later!InYear(y) \X {mem.time}
        BY <2>4, <4>1
      <4> HIDE DEF now
      <4> QED BY <3>3, <3>7, <4>1, <4>2, <4>3, <4>4
    <3>5. ASSUME NEW m \in coming PROVE m = job \/ Later!Later(m, job)
      <4>1. PICK z \in {mem.year, mem.year + 1} : m \in {z} \X Later!InYear(z) \X {mem.time}
        BY <3>3, <3>5, <3>7
      <4>2. PICK e \in Later!InYear(z) : m = <<z, e, mem.time>>
        BY <4>1
      <4>3. z \in Nat /\ e \in Nat
        BY <3>1 DEF Later!InYear
      <4>4. FitsDay(z, e) /\ Coming(z, e)
        <5>1. FitsDay(m[1], m[2]) /\ Later!Later(m, now) /\ m[1] = z /\ m[2] = e
          BY <3>5, <3>7, <4>2
        <5> HIDE DEF now
        <5> QED BY <3>2, <4>2, <4>3, <5>1
      <4>5. z > y \/ (z = y /\ e >= d)
        BY <2>3, <4>4 DEF FirstDay
      <4>6. Later!Later(<<z, e, mem.time>>, <<y, d, mem.time>>) <=>
              z > y \/ (z = y /\ e > d) \/ (z = y /\ e = d /\ mem.time > mem.time)
        BY <2>3, <3>1, <4>3, LaterMeans
      <4> QED BY <2>3, <2>4, <4>2, <4>3, <4>5, <4>6
    <3>6. Right(mem.year, mem.yday, mem.now, mem.time, mem.date, job)
      BY <3>4, <3>5 DEF Right, coming
    <3> QED
      BY <2>7, <3>6, RightMeans
  <2>9. pc' \in [{0} -> {"args", "time", "end"}] /\ pc'[0] = "end"
    BY <2>1
  <2> QED
    BY <2>2, <2>6, <2>7, <2>8, <2>9 DEF AtInv, Later!InYear
<1>4. CASE Later!Refused
  BY <1>4, AtGivesUp DEF Later!Refused, Later!Go, Later!main
<1> QED
  BY <1>1, <1>2, <1>3, <1>4 DEF Later!Next

-----------------------------------------------------------------------------
(* cal.c: on what day of the week a year begins.                           *)
Centuries(y) == IF y > 1800 THEN (y - 1601) \div 400 - (y - 1701) \div 100 ELSE 0
LeapsBefore(y) == (y - 1) \div 4 + Centuries(y)
Leaps(y) == {z \in 1 .. y - 1 : Cal!Leap(z)}

LEMMA NextQuotient ==
    ASSUME NEW n \in Int, NEW k \in {4, 100, 400}
    PROVE  (n + 1) \div k = n \div k + (IF (n + 1) % k = 0 THEN 1 ELSE 0)
  <1>1. CASE k = 4
    BY <1>1
  <1>2. CASE k = 100
    BY <1>2
  <1>3. CASE k = 400
    BY <1>3
  <1> QED BY <1>1, <1>2, <1>3

LEMMA NextLeaps ==
    ASSUME NEW y \in Nat \ {0}
    PROVE  LeapsBefore(y) \in Int /\ LeapsBefore(y + 1) = LeapsBefore(y) + (IF Cal!Leap(y) THEN 1 ELSE 0)
  <1> DEFINE by4 == (y - 1) \div 4
             next4 == y \div 4
             by100 == (y - 1701) \div 100
             next100 == (y - 1700) \div 100
             by400 == (y - 1601) \div 400
             next400 == (y - 1600) \div 400
  <1>1. /\ by4 \in Int /\ by100 \in Int /\ by400 \in Int
        /\ next4 \in Int /\ next100 \in Int /\ next400 \in Int
    OBVIOUS
  <1>2. next4 = by4 + (IF y % 4 = 0 THEN 1 ELSE 0)
    <2>1. y - 1 \in Int /\ (y - 1) + 1 = y
      OBVIOUS
    <2> QED BY <2>1, NextQuotient
  <1>3. next100 = by100 + (IF y % 100 = 0 THEN 1 ELSE 0)
    <2> DEFINE n == y - 1701
    <2>1. n \in Int /\ n + 1 = y - 1700 /\ (y - 1700) % 100 = y % 100
      OBVIOUS
    <2>2. (n + 1) \div 100 = n \div 100 + (IF (n + 1) % 100 = 0 THEN 1 ELSE 0)
      BY <2>1, NextQuotient
    <2> QED BY <2>1, <2>2
  <1>4. next400 = by400 + (IF y % 400 = 0 THEN 1 ELSE 0)
    <2> DEFINE n == y - 1601
    <2>1. n \in Int /\ n + 1 = y - 1600 /\ (y - 1600) % 400 = y % 400
      OBVIOUS
    <2>2. (n + 1) \div 400 = n \div 400 + (IF (n + 1) % 400 = 0 THEN 1 ELSE 0)
      BY <2>1, NextQuotient
    <2> QED BY <2>1, <2>2
  <1>5. /\ LeapsBefore(y) = by4 + (IF y > 1800 THEN by400 - by100 ELSE 0)
        /\ LeapsBefore(y + 1) = next4 + (IF y + 1 > 1800 THEN next400 - next100 ELSE 0)
    <2>1. (y + 1) - 1 = y /\ (y + 1) - 1601 = y - 1600 /\ (y + 1) - 1701 = y - 1700
      OBVIOUS
    <2> QED BY <2>1 DEF LeapsBefore, Centuries
  <1>6. y = 1800 => next400 = 0 /\ next100 = 1
    OBVIOUS
  <1>7. /\ y % 400 = 0 => y % 100 = 0
        /\ y % 100 = 0 => y % 4 = 0
        /\ y > 1752 /\ y < 1800 => y % 100 # 0
        /\ y = 1800 => y % 100 = 0 /\ y % 400 # 0
    OBVIOUS
  <1>8. Cal!Leap(y) <=> y % 4 = 0 /\ (y > 1752 /\ y % 100 = 0 => y % 400 = 0)
    BY DEF Cal!Leap
  <1> DEFINE d4 == y % 4 = 0
             d100 == y % 100 = 0
             d400 == y % 400 = 0
             leap == Cal!Leap(y)
  <1>9. /\ next4 = by4 + (IF d4 THEN 1 ELSE 0) /\ next100 = by100 + (IF d100 THEN 1 ELSE 0) /\ next400 = by400 + (IF d400 THEN 1 ELSE 0)
        /\ (d400 => d100) /\ (d100 => d4) /\ (y > 1752 /\ y < 1800 => ~d100)
        /\ (y = 1800 => d100 /\ ~d400)
        /\ leap <=> d4 /\ (y > 1752 /\ d100 => d400)
    BY <1>2, <1>3, <1>4, <1>7, <1>8
  <1> HIDE DEF d4, d100, d400, leap, by4, by100, by400, next4, next100, next400
  <1>10. LeapsBefore(y) \in Int /\ LeapsBefore(y + 1) = LeapsBefore(y) + (IF leap THEN 1 ELSE 0)
    BY <1>1, <1>5, <1>6, <1>9
  <1> QED BY <1>10 DEF leap

LEMMA LeapsCounted ==
    ASSUME NEW y \in Nat \ {0}
    PROVE  Cardinality(Leaps(y)) = LeapsBefore(y)
  <1> DEFINE Wrong == {z \in Nat \ {0} : Cardinality(Leaps(z)) # LeapsBefore(z)}
  <1> SUFFICES ASSUME Wrong # {} PROVE FALSE
    OBVIOUS
  <1>1. PICK l \in Wrong : \A m \in Wrong : l <= m
    <2>1. Wrong \in SUBSET Nat
      OBVIOUS
    <2> HIDE DEF Wrong
    <2> QED BY <2>1, FirstOf
  <1>2. l # 1
    <2>1. Leaps(1) = {}
      BY DEF Leaps
    <2>2. LeapsBefore(1) = 0
      BY DEF LeapsBefore, Centuries
    <2> QED BY <2>1, <2>2, FS_EmptySet
  <1> DEFINE k == l - 1
  <1>3. k \in Nat \ {0} /\ k \notin Wrong /\ l = k + 1
    BY <1>1, <1>2
  <1>4. Leaps(l) = IF Cal!Leap(k) THEN Leaps(k) \cup {k} ELSE Leaps(k)
    BY <1>3 DEF Leaps
  <1>5. IsFiniteSet(Leaps(k)) /\ k \notin Leaps(k)
    <2>1. IsFiniteSet(1 .. k - 1) /\ Leaps(k) \subseteq 1 .. k - 1
      BY <1>3, FS_Interval DEF Leaps
    <2> QED BY <1>3, <2>1, FS_Subset
  <1>6. Cardinality(Leaps(l)) = Cardinality(Leaps(k)) + (IF Cal!Leap(k) THEN 1 ELSE 0)
    <2>1. CASE Cal!Leap(k)
      BY <1>4, <1>5, <2>1, FS_AddElement
    <2>2. CASE ~Cal!Leap(k)
      <3>1. Cardinality(Leaps(k)) \in Nat
        BY <1>5, FS_CardinalityType
      <3> QED BY <1>4, <2>2, <3>1
    <2> QED BY <2>1, <2>2
  <1>7. LeapsBefore(l) = LeapsBefore(k) + (IF Cal!Leap(k) THEN 1 ELSE 0)
    BY <1>3, NextLeaps
  <1>8. Cardinality(Leaps(k)) = LeapsBefore(k)
    BY <1>3
  <1> QED BY <1>6, <1>7, <1>8

(* The code's sum for January 1 and the days counted from the year 1 on    *)
(* differ by whole weeks.                                                  *)
NewYears(y) == 365 * (y - 1) + Cardinality(Leaps(y)) - (IF y > 1752 THEN 11 ELSE 0)
Sum1(y) ==
    y + 4 + (y + 3) \div 4
      + (IF y > 1800 THEN (y - 1601) \div 400 - (y - 1701) \div 100 ELSE 0)
      + (IF y > 1752 THEN 3 ELSE 0)

LEMMA Weeks == ASSUME NEW a \in Int, NEW w \in Int PROVE (a + 7 * w) % 7 = a % 7
  OBVIOUS

LEMMA Sum1Means ==
    ASSUME NEW y \in Nat \ {0}
    PROVE  /\ Cal!Jan1(y) = Sum1(y) % 7
           /\ Sum1(y) = y + 5 + LeapsBefore(y) + (IF y > 1752 THEN 3 ELSE 0)
           /\ Sum1(y) \in Int
  <1>1. (y + 3) \div 4 = (y - 1) \div 4 + 1
    OBVIOUS
  <1>2. Cal!Jan1(y) = Sum1(y) % 7
    BY Zenon DEF Cal!Jan1, Sum1
  <1>3. Sum1(y) = y + 4 + (y + 3) \div 4 + Centuries(y) + (IF y > 1752 THEN 3 ELSE 0)
    BY Zenon DEF Sum1, Centuries
  <1>4. (y - 1) \div 4 \in Int /\ Centuries(y) \in Int
    BY DEF Centuries
  <1> QED BY <1>1, <1>2, <1>3, <1>4 DEF LeapsBefore

LEMMA YearBegins ==
    ASSUME NEW y \in Nat \ {0}
    PROVE  Cal!Jan1(y) = (NewYears(y) + 6) % 7 /\ NewYears(y) \in Int
  <1>1. LeapsBefore(y) \in Int /\ Cardinality(Leaps(y)) = LeapsBefore(y)
    BY LeapsCounted, NextLeaps
  <1> DEFINE w == 52 * (y - 1) - (IF y > 1752 THEN 2 ELSE 0)
             a == Sum1(y)
             b == NewYears(y) + 6
  <1>2. w \in Int /\ a \in Int /\ b = a + 7 * w /\ NewYears(y) \in Int
    BY <1>1, Sum1Means DEF NewYears
  <1> HIDE DEF w, a, b
  <1>3. b % 7 = a % 7
    BY <1>2, Weeks
  <1> QED BY <1>2, <1>3, Sum1Means DEF a, b

(* How far January 1 moves tells what year it is.                          *)
MovesBy(y) == IF y = 1752 THEN 5 ELSE IF Cal!Leap(y) THEN 2 ELSE 1
LEMMA JanuaryMoves ==
    ASSUME NEW y \in Nat \ {0}
    PROVE  (Cal!Jan1(y + 1) + 7 - Cal!Jan1(y)) % 7 = MovesBy(y)
  <1> DEFINE a == Sum1(y)
             d == MovesBy(y)
             this == Cal!Jan1(y)
             next == Cal!Jan1(y + 1)
  <1>1. y + 1 \in Nat \ {0}
    OBVIOUS
  <1>2. y = 1752 => Cal!Leap(y)
    BY DEF Cal!Leap
  <1>3. a \in Int /\ d \in 1 .. 6 /\ Sum1(y + 1) = a + d
    <2>1. LeapsBefore(y) \in Int /\ LeapsBefore(y + 1) = LeapsBefore(y) + (IF Cal!Leap(y) THEN 1 ELSE 0)
      BY <1>1, NextLeaps
    <2>2. /\ Sum1(y) = y + 5 + LeapsBefore(y) + (IF y > 1752 THEN 3 ELSE 0)
          /\ Sum1(y + 1) = (y + 1) + 5 + LeapsBefore(y + 1) + (IF y + 1 > 1752 THEN 3 ELSE 0)
          /\ Sum1(y) \in Int
      BY <1>1, Sum1Means
    <2> QED BY <1>2, <2>1, <2>2 DEF MovesBy
  <1>4. this = a % 7 /\ next = (a + d) % 7
    BY <1>1, <1>3, Sum1Means
  <1> HIDE DEF a, d, this, next
  <1>5. (next + 7 - this) % 7 = d
    BY <1>3, <1>4
  <1> QED BY <1>5, Zenon DEF d, this, next

(* The months: the code's days of a month are the dates it has.            *)
Size(y, n) ==
    CASE n \in {4, 6, 11} -> 30
      [] n = 9 -> (IF y = 1752 THEN 19 ELSE 30)
      [] n = 2 -> (IF Cal!Leap(y) THEN 29 ELSE 28)
      [] OTHER -> 31
Sizes(y) == [n \in 1 .. 12 |-> Size(y, n)]

LEMMA DaysOfMonth ==
    ASSUME NEW y \in Nat \ {0}, NEW n \in 1 .. 12
    PROVE  /\ Cal!lengths(y)[n] = Size(y, n) /\ Size(y, n) \in 19 .. 31
           /\ Cal!lengths(y)[9] = (IF y = 1752 THEN 19 ELSE 30)
  <1> DEFINE moved == (Cal!Jan1(y + 1) + 7 - Cal!Jan1(y)) % 7
             days == [Cal!day_month EXCEPT ![2] = IF moved = 1 THEN 28 ELSE 29,
                                           ![9] = IF moved \in {1, 2} THEN 30 ELSE 19]
             leap == Cal!Leap(y)
  <1>1. Cal!lengths(y) = days
    BY Zenon DEF Cal!lengths
  <1>2. moved = (IF y = 1752 THEN 5 ELSE IF leap THEN 2 ELSE 1)
    <2>1. moved = MovesBy(y)
      BY JanuaryMoves, Zenon
    <2> QED BY <2>1, Zenon DEF MovesBy
  <1>3. y = 1752 => leap
    BY DEF Cal!Leap
  <1>4. Size(y, n) = CASE n \in {4, 6, 11} -> 30
                        [] n = 9 -> (IF y = 1752 THEN 19 ELSE 30)
                        [] n = 2 -> (IF leap THEN 29 ELSE 28)
                        [] OTHER -> 31
    BY Zenon DEF Size
  <1> HIDE DEF moved, leap
  <1>5. /\ days[9] = (IF y = 1752 THEN 19 ELSE 30)
        /\ days[2] = (IF leap THEN 29 ELSE 28)
        /\ n \notin {2, 9} => days[n] = Cal!day_month[n]
    BY <1>2, <1>3 DEF Cal!day_month
  <1>6. n \notin {2, 9} => Cal!day_month[n] = IF n \in {4, 6, 11} THEN 30 ELSE 31
    BY DEF Cal!day_month
  <1> HIDE DEF days
  <1>7. days[n] = Size(y, n) /\ Size(y, n) \in 19 .. 31
    <2>1. CASE n = 2
      BY <1>4, <1>5, <2>1
    <2>2. CASE n = 9
      BY <1>4, <1>5, <2>2
    <2>3. CASE n \notin {2, 9}
      BY <1>4, <1>5, <1>6, <2>3
    <2> QED BY <2>1, <2>2, <2>3
  <1> QED BY <1>1, <1>5, <1>7

LEMMA Between ==
    ASSUME NEW a \in Int, NEW b \in Int, a <= b
    PROVE  IsFiniteSet(a .. b) /\ Cardinality(a .. b) = b - a + 1
  <1>1. IsFiniteSet(a .. b) /\ Cardinality(a .. b) = IF a > b THEN 0 ELSE b - a + 1
    BY FS_Interval
  <1> QED BY <1>1

LEMMA Upto ==
    ASSUME NEW k \in Nat PROVE IsFiniteSet(1 .. k) /\ Cardinality(1 .. k) = k
  <1>1. IsFiniteSet(1 .. k) /\ Cardinality(1 .. k) = IF 1 > k THEN 0 ELSE k - 1 + 1
    BY FS_Interval
  <1> QED BY <1>1

Skipped == 3 .. 13
LEMMA DatesKept ==
    ASSUME NEW k \in Nat, k >= 13
    PROVE  Cardinality((1 .. k) \ Skipped) = k - 11
  <1>1. IsFiniteSet(Skipped) /\ Cardinality(Skipped) = 11
    <2> DEFINE a == 3
               b == 13
    <2>1. a \in Int /\ b \in Int /\ a <= b /\ b - a + 1 = 11 /\ Skipped = a .. b
      BY DEF Skipped
    <2> HIDE DEF a, b
    <2> QED BY <2>1, Between
  <1>2. (1 .. k) \cap Skipped = Skipped
    BY DEF Skipped
  <1>3. Cardinality((1 .. k) \ Skipped) = Cardinality(1 .. k) - Cardinality((1 .. k) \cap Skipped)
    BY Upto, FS_Difference
  <1> QED BY <1>1, <1>2, <1>3, Upto

LEMMA DatesCounted ==
    ASSUME NEW y \in Nat \ {0}, NEW n \in 1 .. 12
    PROVE  Cardinality(Cal!DatesOf(y, n)) = Size(y, n)
  <1>1. CASE y = 1752 /\ n = 9
    <2>1. Cal!DatesOf(y, n) = (1 .. 30) \ Skipped
      BY <1>1 DEF Cal!DatesOf, Skipped
    <2>2. Size(y, n) = 19
      BY <1>1 DEF Size
    <2> QED BY <2>1, <2>2, DatesKept
  <1>2. CASE ~(y = 1752 /\ n = 9)
    <2>1. Cal!DatesOf(y, n) = 1 .. Size(y, n)
      BY <1>2 DEF Cal!DatesOf, Size
    <2>2. Size(y, n) \in Nat
      BY DaysOfMonth
    <2> QED BY <2>1, <2>2, Upto
  <1> QED BY <1>1, <1>2

(* The day of the week a month begins with is the one its date stands for. *)
Past(y, m) == GrantProofs!SumFunctionOnSet(Sizes(y), 1 .. m - 1)

LEMMA DaysAdded ==
    ASSUME NEW y \in Nat \ {0}, NEW m \in 1 .. 12
    PROVE  /\ Cal!SumFunctionOnSet(Cal!lengths(y), 1 .. m - 1) = Past(y, m)
           /\ Cal!SumFunction([n \in 1 .. m - 1 |-> Cardinality(Cal!DatesOf(y, n))]) = Past(y, m)
           /\ Past(y, m) \in Int
  <1> DEFINE days == Cal!lengths(y)
             counts == [n \in 1 .. m - 1 |-> Cardinality(Cal!DatesOf(y, n))]
             sizes == Sizes(y)
             k == m - 1
  <1>1. k \in Nat /\ \A n \in 1 .. k : n \in 1 .. 12
    OBVIOUS
  <1>2. \A n \in 1 .. k : days[n] = sizes[n] /\ counts[n] = sizes[n] /\ sizes[n] \in Int
    BY DaysOfMonth, DatesCounted DEF Sizes
  <1>3. DOMAIN counts = 1 .. k
    OBVIOUS
  <1>4. \A f, S : Cal!SumFunctionOnSet(f, S) = GrantProofs!SumFunctionOnSet(f, S)
    BY Zenon DEF Cal!SumFunctionOnSet, GrantProofs!SumFunctionOnSet, Cal!FoldFunctionOnSet,
                 GrantProofs!FoldFunctionOnSet, Cal!MapThenFoldSet, GrantProofs!MapThenFoldSet
  <1>5. Cal!SumFunction(counts) = Cal!SumFunctionOnSet(counts, 1 .. k)
    BY <1>3, Zenon DEF Cal!SumFunction
  <1> HIDE DEF days, counts, sizes, k
  <1>6. /\ GrantProofs!SumFunctionOnSet(days, 1 .. k) = GrantProofs!SumFunctionOnSet(sizes, 1 .. k)
        /\ GrantProofs!SumFunctionOnSet(counts, 1 .. k) = GrantProofs!SumFunctionOnSet(sizes, 1 .. k)
    BY <1>1, <1>2, GrantProofs!SumSameUpto, Zenon
  <1>7. GrantProofs!SumFunctionOnSet(sizes, 1 .. k) \in Int
    BY <1>1, <1>2, GrantProofs!SumIntUpto, Zenon
  <1> QED BY <1>4, <1>5, <1>6, <1>7, Zenon DEF Past, days, counts, sizes, k

Starts(y, m) == (Cal!DaysBefore(y, m) + 6) % 7
LEMMA MonthBegins ==
    ASSUME NEW y \in Nat \ {0}, NEW m \in 1 .. 12
    PROVE  Cal!setmonth(y, m).dow_first = Starts(y, m) /\ Starts(y, m) \in 0 .. 6
  <1> DEFINE past == Past(y, m)
             before == NewYears(y) + 6
             jan1 == Cal!Jan1(y)
  <1>1. jan1 = before % 7 /\ before \in Int /\ past \in Int
    <2>1. jan1 = before % 7 /\ NewYears(y) \in Int
      BY YearBegins, Zenon
    <2>2. past \in Int
      BY DaysAdded, Zenon
    <2> QED BY <2>1, <2>2
  <1>2. Cal!setmonth(y, m).dow_first = (jan1 + past) % 7
    <2>1. Cal!SumFunctionOnSet(Cal!lengths(y), 1 .. m - 1) = past
      BY DaysAdded, Zenon
    <2> QED BY <2>1 DEF Cal!setmonth
  <1>3. Cal!DaysBefore(y, m) = NewYears(y) + past
    <2> DEFINE counted == Cal!SumFunction([n \in 1 .. m - 1 |-> Cardinality(Cal!DatesOf(y, n))])
    <2>1. counted = past
      BY DaysAdded, Zenon
    <2>2. Cal!DaysBefore(y, m) = NewYears(y) + counted
      BY Zenon DEF Cal!DaysBefore, NewYears, Leaps, Cal!Cardinality, Cardinality
    <2> HIDE DEF counted
    <2> QED BY <2>1, <2>2
  <1>4. Starts(y, m) = (before + past) % 7
    <2>1. NewYears(y) \in Int
      BY YearBegins
    <2> QED BY <1>1, <1>3, <2>1 DEF Starts
  <1> HIDE DEF past, before, jan1
  <1>5. (jan1 + past) % 7 = (before + past) % 7 /\ (before + past) % 7 \in 0 .. 6
    BY <1>1
  <1> QED BY <1>2, <1>4, <1>5

-----------------------------------------------------------------------------
(* The page of a month.                                                    *)
Date(y, m, today) == IF y = 1752 /\ m = 9 /\ today >= 3 THEN today + 11 ELSE today

LEMMA DateInOrder ==
    ASSUME NEW y \in Nat \ {0}, NEW m \in 1 .. 12, NEW t \in 1 .. Size(y, m)
    PROVE  /\ Date(y, m, t) \in Cal!DatesOf(y, m)
           /\ Cardinality({d \in Cal!DatesOf(y, m) : d < Date(y, m, t)}) = t - 1
  <1>1. t \in Nat /\ t - 1 \in Nat /\ Size(y, m) \in 19 .. 31
    BY DaysOfMonth
  <1>2. CASE y = 1752 /\ m = 9
    <2>1. Cal!DatesOf(y, m) = (1 .. 30) \ Skipped /\ t <= 19
      BY <1>2 DEF Cal!DatesOf, Skipped, Size
    <2>2. CASE t >= 3
      <3> DEFINE k == t + 10
      <3>1. Date(y, m, t) = t + 11
        BY <1>2, <2>2 DEF Date
      <3>2. {d \in (1 .. 30) \ Skipped : d < t + 11} = (1 .. k) \ Skipped /\ k \in Nat /\ k >= 13 /\ k - 11 = t - 1
        BY <1>1, <2>1, <2>2
      <3>3. t + 11 \in (1 .. 30) \ Skipped
        BY <1>1, <2>1, <2>2 DEF Skipped
      <3> HIDE DEF k
      <3>4. Cardinality((1 .. k) \ Skipped) = k - 11
        BY <3>2, DatesKept
      <3> QED BY <2>1, <3>1, <3>2, <3>3, <3>4
    <2>3. CASE ~(t >= 3)
      <3>1. Date(y, m, t) = t /\ {d \in (1 .. 30) \ Skipped : d < t} = 1 .. t - 1 /\ t \in (1 .. 30) \ Skipped
        BY <1>1, <2>3 DEF Date, Skipped
      <3> QED BY <1>1, <2>1, <3>1, Upto
    <2> QED BY <2>2, <2>3
  <1>3. CASE ~(y = 1752 /\ m = 9)
    <2>1. Cal!DatesOf(y, m) = 1 .. Size(y, m)
      BY <1>3 DEF Cal!DatesOf, Size
    <2>2. Date(y, m, t) = t
      BY <1>3 DEF Date
    <2>3. {d \in 1 .. Size(y, m) : d < t} = 1 .. t - 1
      BY <1>1
    <2> QED BY <1>1, <2>1, <2>2, <2>3, Upto
  <1> QED BY <1>2, <1>3

ShownOn(page) == {n \in 0 .. 41 : page[n \div 7][n % 7] # 0}
LEMMA PageShows ==
    ASSUME NEW y \in Nat \ {0}, NEW m \in 1 .. 12,
           NEW n \in 0 .. 41
    PROVE  Cal!calendar(y, m).page[n \div 7][n % 7] =
             (IF n - Starts(y, m) + 1 \in 1 .. Size(y, m)
              THEN Date(y, m, n - Starts(y, m) + 1) ELSE 0)
  <1> DEFINE info == Cal!setmonth(y, m)
             w == n \div 7
             d == n % 7
             f == Starts(y, m)
             s == Size(y, m)
  <1>1. w \in 0 .. 5 /\ d \in 0 .. 6 /\ w * 7 + d = n
    OBVIOUS
  <1>2. /\ info.days_in_month = s /\ info.this_month = m
        /\ info.sept = (IF y = 1752 THEN 19 ELSE 30) /\ s \in 19 .. 31
    BY DaysOfMonth DEF Cal!setmonth
  <1>3. info.dow_first = f /\ f \in 0 .. 6
    BY MonthBegins
  <1>4. Cal!calendar(y, m).page = [week \in 0 .. 5 |-> [wday \in 0 .. 6 |-> Cal!getdate(info, week, wday)]]
    BY DEF Cal!calendar
  <1>5. Cal!calendar(y, m).page[w][d] = Cal!getdate(info, w, d)
    <2> HIDE DEF info, w, d
    <2> QED BY <1>1, <1>4
  <1> DEFINE t == n - f + 1
             date == Date(y, m, t)
  <1>6. date = IF y = 1752 /\ m = 9 /\ t >= 3 THEN t + 11 ELSE t
    BY DEF Date
  <1>7. Cal!getdate(info, w, d) = IF t \in 1 .. s THEN date ELSE 0
    <2> HIDE DEF info, w, d, f, s, date
    <2>1. w * 7 + d - info.dow_first + 1 = t /\ t \in Int
      BY <1>1, <1>3
    <2> HIDE DEF t
    <2> QED BY <1>2, <1>6, <2>1 DEF Cal!getdate
  <1> HIDE DEF info, w, d
  <1> QED BY <1>5, <1>7, Zenon DEF w, d

RunsOn(month, y, m) ==
    /\ month.year = y /\ month.month = m
    /\ ShownOn(month.page) = Starts(y, m) .. Starts(y, m) + Cardinality(Cal!DatesOf(y, m)) - 1
    /\ \A n \in ShownOn(month.page) :
         /\ month.page[n \div 7][n % 7] \in Cal!DatesOf(y, m)
         /\ Cardinality({d \in Cal!DatesOf(y, m) : d < month.page[n \div 7][n % 7]})
              = n - Starts(y, m)

LEMMA MonthRunsOn ==
    ASSUME NEW y \in Nat \ {0}, NEW m \in 1 .. 12, NEW month, month = Cal!calendar(y, m)
    PROVE  RunsOn(month, y, m)
  <1> DEFINE f == Starts(y, m)
             s == Size(y, m)
             dates == Cal!DatesOf(y, m)
             On(n) == month.page[n \div 7][n % 7]
             shown == {n \in 0 .. 41 : On(n) # 0}
             DateAt(t) == Date(y, m, t)
  <1>1. month.year = y /\ month.month = m
    BY DEF Cal!calendar
  <1>2. f \in 0 .. 6 /\ s \in 19 .. 31
    BY MonthBegins, DaysOfMonth
  <1>3. ASSUME NEW n \in 0 .. 41 PROVE On(n) = IF n - f + 1 \in 1 .. s THEN DateAt(n - f + 1) ELSE 0
    BY PageShows, Zenon
  <1>4. ASSUME NEW t \in 1 .. s
        PROVE  DateAt(t) # 0 /\ DateAt(t) \in dates /\ Cardinality({d \in dates : d < DateAt(t)}) = t - 1
    <2>1. DateAt(t) # 0
      BY <1>2 DEF Date
    <2> QED BY <2>1, DateInOrder, Zenon
  <1>5. Cardinality(dates) = s
    BY DatesCounted
  <1> HIDE DEF f, s, dates, On, DateAt
  <1>6. shown = f .. f + s - 1
    <2>1. ASSUME NEW n \in 0 .. 41 PROVE On(n) # 0 <=> n \in f .. f + s - 1
      <3>1. n - f + 1 \in 1 .. s <=> n \in f .. f + s - 1
        BY <1>2
      <3> QED BY <3>1, <1>3, <1>4
    <2>2. f .. f + s - 1 \subseteq 0 .. 41
      BY <1>2
    <2> QED BY <2>1, <2>2
  <1>7. ASSUME NEW n \in f .. f + s - 1
        PROVE  On(n) \in dates /\ Cardinality({d \in dates : d < On(n)}) = n - f
    <2> DEFINE t == n - f + 1
    <2>1. n \in 0 .. 41 /\ t \in 1 .. s /\ t - 1 = n - f
      BY <1>2
    <2>2. On(n) = DateAt(t)
      BY <1>3, <2>1
    <2> HIDE DEF t
    <2> QED BY <1>4, <2>1, <2>2
  <1> QED BY <1>1, <1>5, <1>6, <1>7, Zenon DEF RunsOn, ShownOn, f, s, dates, On

-----------------------------------------------------------------------------
(* What is laid out and printed are months.                                *)
Pages == UNION {{Cal!calendar(y, m) : m \in 1 .. 12} : y \in Nat \ {0}}
CalInv ==
    /\ pc \in [{0} -> {"args", "month", "end"}]
    /\ mem = [argv |-> mem.argv, year |-> mem.year, next |-> mem.next, last |-> mem.last,
              layout |-> mem.layout, printed |-> mem.printed, status |-> mem.status]
    /\ mem.argv \in Commands
    /\ mem.layout \in Seq(Pages) /\ mem.printed \in Seq(Pages)
    /\ pc[0] = "month" =>
         mem.year \in Nat \ {0} /\ mem.next \in 1 .. mem.last /\ mem.last \in 1 .. 12

LEMMA CalBegins == Cal!Init => CalInv
  <1> SUFFICES ASSUME Cal!Init PROVE CalInv
    OBVIOUS
  <1>1. <<>> \in Seq(Pages)
    OBVIOUS
  <1> QED BY <1>1 DEF Cal!Init, Cal!main, CalInv

LEMMA CalStep == CalInv /\ (Cal!Next \/ UNCHANGED vars) => CalInv'
  <1> SUFFICES ASSUME CalInv, Cal!Next \/ UNCHANGED vars PROVE CalInv'
    OBVIOUS
  <1>1. CASE UNCHANGED vars
    BY <1>1 DEF CalInv, vars
  <1>2. CASE Cal!Arguments
    <2>1. /\ pc[0] = "args" /\ pc \in [{0} -> {"args", "month", "end"}]
          /\ mem.argv \in Commands
          /\ mem = [argv |-> mem.argv, year |-> mem.year, next |-> mem.next, last |-> mem.last,
                    layout |-> mem.layout, printed |-> mem.printed, status |-> mem.status]
          /\ mem.layout \in Seq(Pages) /\ mem.printed \in Seq(Pages)
      BY <1>2, Zenon DEF Cal!Arguments, Cal!main, CalInv
    <2>2. CASE Cal!Exit(1)
      <3>1. pc' \in [{0} -> {"args", "month", "end"}] /\ pc'[0] = "end"
        BY <2>1, <2>2 DEF Cal!Exit, Cal!Go, Cal!main
      <3>2. mem' = [argv |-> mem.argv, year |-> mem.year, next |-> mem.next, last |-> mem.last,
                    layout |-> mem.layout, printed |-> mem.printed, status |-> 1]
        BY <2>1, <2>2 DEF Cal!Exit
      <3> QED BY <2>1, <3>1, <3>2 DEF CalInv
    <2>3. ASSUME NEW y \in Int, NEW m \in Int, NEW n \in Int, ~(y < 1), 1 <= m, m <= n, n <= 12,
                 Cal!Show(y, m, n)
          PROVE  CalInv'
      <3>1. pc' \in [{0} -> {"args", "month", "end"}] /\ pc'[0] = "month"
        BY <2>1, <2>3 DEF Cal!Show, Cal!Go, Cal!main
      <3>2. mem' = [argv |-> mem.argv, year |-> y, next |-> m, last |-> n,
                    layout |-> mem.layout, printed |-> mem.printed, status |-> mem.status]
        BY <2>1, <2>3 DEF Cal!Show
      <3>3. y \in Nat \ {0} /\ m \in 1 .. n /\ n \in 1 .. 12
        BY <2>3
      <3> QED BY <2>1, <3>1, <3>2, <3>3 DEF CalInv
    <2>4. ASSUME NEW y \in Int, Cal!doyear(y) PROVE CalInv'
      <3>1. CASE y < 1 \/ y > 9999
        BY <2>2, <2>4, <3>1 DEF Cal!doyear
      <3>2. CASE ~(y < 1 \/ y > 9999)
        <4>1. Cal!Show(y, 1, 12)
          BY <2>4, <3>2 DEF Cal!doyear
        <4> QED BY <2>3, <3>2, <4>1
      <3> QED BY <3>1, <3>2
    <2>5. ASSUME NEW y \in Int, NEW m \in Int, Cal!domonth(y, m) PROVE CalInv'
      <3>1. CASE y < 1 \/ y > 9999 \/ m <= 0 \/ m > 12
        BY <2>2, <2>5, <3>1 DEF Cal!domonth
      <3>2. CASE ~(y < 1 \/ y > 9999 \/ m <= 0 \/ m > 12)
        <4>1. Cal!Show(y, m, m)
          BY <2>5, <3>2 DEF Cal!domonth
        <4> QED BY <2>3, <3>2, <4>1
      <3> QED BY <3>1, <3>2
    <2>6. ASSUME NEW k \in 1 .. Len(mem.argv) PROVE mem.argv[k].val \in Int
      <3>1. mem.argv \in Seq([val : Int, len : Nat])
        BY <2>1, CalAssumption, Zenon
      <3>2. mem.argv[k] \in [val : Int, len : Nat]
        BY <3>1, ElementOfSeq, Zenon
      <3> QED BY <3>2
    <2>7. Len(mem.argv) \in Nat
      <3>1. mem.argv \in Seq([val : Int, len : Nat])
        BY <2>1, CalAssumption, Zenon
      <3> QED BY <3>1, LenProperties, Zenon
    <2>8. CASE Len(mem.argv) = 0
      BY <1>2, <2>2, <2>8 DEF Cal!Arguments
    <2>9. CASE Len(mem.argv) = 1
      <3>1. mem.argv[1].val \in Int
        BY <2>6, <2>9
      <3>2. \/ Cal!doyear(mem.argv[1].val)
            \/ \E y \in AnyYear : Cal!domonth(y, mem.argv[1].val)
        BY <1>2, <2>9 DEF Cal!Arguments
      <3> QED BY <2>4, <2>5, <3>1, <3>2, CalAssumption
    <2>10. CASE Len(mem.argv) # 0 /\ Len(mem.argv) # 1
      <3>1. mem.argv[1].val \in Int /\ mem.argv[2].val \in Int
        <4> DEFINE n == Len(mem.argv)
        <4>1. n \in Nat /\ n # 0 /\ n # 1
          BY <2>7, <2>10
        <4> HIDE DEF n
        <4>2. 1 \in 1 .. n /\ 2 \in 1 .. n
          BY <4>1
        <4> QED BY <2>6, <4>2, Zenon DEF n
      <3>2. \/ Cal!domonth(mem.argv[1].val, mem.argv[2].val)
            \/ Cal!domonth(mem.argv[2].val, mem.argv[1].val)
        BY <1>2, <2>10 DEF Cal!Arguments
      <3> QED BY <2>5, <3>1, <3>2
    <2> QED BY <2>8, <2>9, <2>10
  <1>3. CASE Cal!Month
    <2> DEFINE page == Cal!calendar(mem.year, mem.next)
               laid == Append(mem.layout, page)
               done == Cal!LineDone
               layout == IF done THEN <<>> ELSE laid
               printed == IF done THEN mem.printed \o laid ELSE mem.printed
               status == IF mem.next = mem.last THEN 0 ELSE mem.status
    <2>1. /\ pc[0] = "month" /\ pc \in [{0} -> {"args", "month", "end"}]
          /\ mem.argv \in Commands
          /\ mem = [argv |-> mem.argv, year |-> mem.year, next |-> mem.next, last |-> mem.last,
                    layout |-> mem.layout, printed |-> mem.printed, status |-> mem.status]
          /\ mem.layout \in Seq(Pages) /\ mem.printed \in Seq(Pages)
          /\ mem.year \in Nat \ {0} /\ mem.next \in 1 .. mem.last /\ mem.last \in 1 .. 12
      BY <1>3, Zenon DEF Cal!Month, Cal!main, CalInv
    <2>2. page \in Pages
      <3>1. mem.next \in 1 .. 12
        BY <2>1
      <3> QED BY <2>1, <3>1 DEF Pages
    <2>3. laid \in Seq(Pages)
      <3> HIDE DEF page
      <3> QED BY <2>1, <2>2, AppendProperties
    <2>4. mem' = [mem EXCEPT !.layout = layout, !.printed = printed, !.next = mem.next + 1,
                             !.status = status]
      BY <1>3, Zenon DEF Cal!Month
    <2>5. layout \in Seq(Pages) /\ printed \in Seq(Pages)
      <3> HIDE DEF laid, done
      <3>1. <<>> \in Seq(Pages) /\ mem.printed \o laid \in Seq(Pages)
        BY <2>1, <2>3, ConcatProperties
      <3> QED BY <2>1, <2>3, <3>1
    <2> HIDE DEF page, laid, done, layout, printed, status
    <2>6. mem' = [argv |-> mem.argv, year |-> mem.year, next |-> mem.next + 1, last |-> mem.last,
                  layout |-> layout, printed |-> printed, status |-> status]
      BY <2>1, <2>4
    <2>7. CASE mem.next = mem.last
      <3>1. pc' \in [{0} -> {"args", "month", "end"}] /\ pc'[0] = "end"
        BY <1>3, <2>1, <2>7 DEF Cal!Month, Cal!Go, Cal!main
      <3> QED BY <2>1, <2>5, <2>6, <3>1 DEF CalInv
    <2>8. CASE mem.next # mem.last
      <3>1. pc' = pc
        BY <1>3, <2>8 DEF Cal!Month
      <3>2. mem.next + 1 \in 1 .. mem.last
        BY <2>1, <2>8
      <3> QED BY <2>1, <2>5, <2>6, <3>1, <3>2 DEF CalInv
    <2> QED BY <2>7, <2>8
  <1> QED BY <1>1, <1>2, <1>3 DEF Cal!Next

LEMMA CalGoesOn == CalInv => Cal!CalendarRunsOn
  <1> SUFFICES ASSUME CalInv, NEW k \in DOMAIN mem.printed
      PROVE  LET m == mem.printed[k]
                 first == (Cal!DaysBefore(m.year, m.month) + 6) % 7
                 shown == {n \in 0 .. 41 : m.page[n \div 7][n % 7] # 0}
                 dates == Cal!DatesOf(m.year, m.month)
             IN  /\ shown = first .. first + Cardinality(dates) - 1
                 /\ \A n \in shown :
                      /\ m.page[n \div 7][n % 7] \in dates
                      /\ Cardinality({d \in dates : d < m.page[n \div 7][n % 7]}) = n - first
    BY Zenon DEF Cal!CalendarRunsOn, Cal!Cardinality, Cardinality
  <1>1. mem.printed[k] \in Pages
    <2>1. mem.printed \in Seq(Pages)
      BY DEF CalInv
    <2> QED BY <2>1
  <1>2. PICK y \in Nat \ {0}, m \in 1 .. 12 : mem.printed[k] = Cal!calendar(y, m)
    BY <1>1 DEF Pages
  <1> DEFINE month == mem.printed[k]
  <1>3. RunsOn(month, y, m)
    BY <1>2, MonthRunsOn, Zenon
  <1> HIDE DEF month
  <1> QED BY <1>3, Zenon DEF RunsOn, ShownOn, Starts, month

-----------------------------------------------------------------------------
(* The three banker programs, of any size: BankersProofs is about each of  *)
(* them, about the first one as GrantProofs above.                         *)
UndoneProofs == INSTANCE BankersProofs WITH
                  Variant <- "request", NPROC <- Borrowers, NRES <- Kinds, Requests <- Trials
DetectProofs == INSTANCE BankersProofs WITH
                  Variant <- "cal", NPROC <- Borrowers, NRES <- Kinds, Units <- Copies,
                  Requests <- 0

LEMMA BankSizes == GrantProofs!Sizes /\ UndoneProofs!Sizes /\ DetectProofs!Sizes
BY BankAssumption DEF GrantProofs!Sizes, UndoneProofs!Sizes, DetectProofs!Sizes

LEMMA GrantBegins == Grant!Init => GrantProofs!BankInv
<1>1. Grant!Init => GrantProofs!Init
  BY Zenon DEF Grant!Init, GrantProofs!Init, Grant!Procs, GrantProofs!Procs, Grant!Res,
               GrantProofs!Res, Grant!main, GrantProofs!main, Grant!None, GrantProofs!None,
               Grant!SumFunction, GrantProofs!SumFunction, Grant!SumFunctionOnSet,
               GrantProofs!SumFunctionOnSet, Grant!FoldFunctionOnSet,
               GrantProofs!FoldFunctionOnSet, Grant!MapThenFoldSet, GrantProofs!MapThenFoldSet
<1> QED BY <1>1, BankSizes, GrantProofs!BankStart

LEMMA GrantSteps ==
    ASSUME GrantProofs!BankInv, Grant!Next \/ UNCHANGED vars
    PROVE  GrantProofs!BankInv'
<1>1. Grant!Next => GrantProofs!Next
  BY Zenon DEF Grant!Next, GrantProofs!Next, Grant!Complete, GrantProofs!Complete, Grant!Verdict,
               GrantProofs!Verdict, Grant!Ask, GrantProofs!Ask, Grant!Go, GrantProofs!Go,
               Grant!Undo, GrantProofs!Undo, Grant!Move, GrantProofs!Move, Grant!safe,
               GrantProofs!safe, Grant!Able, GrantProofs!Able, Grant!find, GrantProofs!find,
               Grant!Released, GrantProofs!Released, Grant!vadd, GrantProofs!vadd, Grant!vcmp,
               GrantProofs!vcmp, Grant!Min, GrantProofs!Min, Grant!Procs, GrantProofs!Procs,
               Grant!Res, GrantProofs!Res, Grant!main, GrantProofs!main, Grant!None,
               GrantProofs!None
<1>2. UNCHANGED vars => UNCHANGED GrantProofs!vars
  BY DEF vars, GrantProofs!vars
<1> QED BY <1>1, <1>2, BankSizes, GrantProofs!BankStep, GrantProofs!BankRests

LEMMA GrantRight ==
    ASSUME GrantProofs!BankInv
    PROVE  Grant!SafeExactly /\ Grant!GrantedIsSafe /\ Grant!NothingLost
<1>1. GrantProofs!SafeExactly => Grant!SafeExactly
  BY Zenon DEF Grant!SafeExactly, GrantProofs!SafeExactly, Grant!LastLeast,
               GrantProofs!LastLeast, Grant!LastMost, GrantProofs!LastMost,
               Grant!Safe, GrantProofs!Safe,
               Grant!safe, GrantProofs!safe, Grant!Able, GrantProofs!Able, Grant!vcmp,
               GrantProofs!vcmp, Grant!Procs, GrantProofs!Procs, Grant!Res, GrantProofs!Res,
               Grant!main, GrantProofs!main, Grant!None, GrantProofs!None, Grant!SumFunction,
               GrantProofs!SumFunction, Grant!SumFunctionOnSet, GrantProofs!SumFunctionOnSet,
               Grant!FoldFunctionOnSet, GrantProofs!FoldFunctionOnSet, Grant!MapThenFoldSet,
               GrantProofs!MapThenFoldSet
<1>2. GrantProofs!GrantedIsSafe => Grant!GrantedIsSafe
  BY Zenon DEF Grant!GrantedIsSafe, GrantProofs!GrantedIsSafe, Grant!Safe, GrantProofs!Safe,
               Grant!Procs, GrantProofs!Procs, Grant!Res, GrantProofs!Res, Grant!main,
               GrantProofs!main, Grant!None, GrantProofs!None, Grant!SumFunction,
               GrantProofs!SumFunction, Grant!SumFunctionOnSet, GrantProofs!SumFunctionOnSet,
               Grant!FoldFunctionOnSet, GrantProofs!FoldFunctionOnSet, Grant!MapThenFoldSet,
               GrantProofs!MapThenFoldSet
<1>3. GrantProofs!NothingLost => Grant!NothingLost
  BY Zenon DEF Grant!NothingLost, GrantProofs!NothingLost, Grant!Procs, GrantProofs!Procs,
               Grant!Res, GrantProofs!Res, Grant!main, GrantProofs!main, Grant!None,
               GrantProofs!None, Grant!SumFunction, GrantProofs!SumFunction,
               Grant!SumFunctionOnSet, GrantProofs!SumFunctionOnSet, Grant!FoldFunctionOnSet,
               GrantProofs!FoldFunctionOnSet, Grant!MapThenFoldSet, GrantProofs!MapThenFoldSet
<1> QED BY <1>1, <1>2, <1>3, BankSizes, GrantProofs!BankExact, GrantProofs!BankGranted,
           GrantProofs!BankConserves

LEMMA UndoneBegins == Undone!Init => UndoneProofs!BankInv
<1>1. Undone!Init => UndoneProofs!Init
  BY Zenon DEF Undone!Init, UndoneProofs!Init, Undone!Procs, UndoneProofs!Procs, Undone!Res,
               UndoneProofs!Res, Undone!main, UndoneProofs!main, Undone!None, UndoneProofs!None,
               Undone!SumFunction, UndoneProofs!SumFunction, Undone!SumFunctionOnSet,
               UndoneProofs!SumFunctionOnSet, Undone!FoldFunctionOnSet,
               UndoneProofs!FoldFunctionOnSet, Undone!MapThenFoldSet, UndoneProofs!MapThenFoldSet
<1> QED BY <1>1, BankSizes, UndoneProofs!BankStart

LEMMA UndoneSteps ==
    ASSUME UndoneProofs!BankInv, Undone!Next \/ UNCHANGED vars
    PROVE  UndoneProofs!BankInv'
<1>1. Undone!Next => UndoneProofs!Next
  BY Zenon DEF Undone!Next, UndoneProofs!Next, Undone!Complete, UndoneProofs!Complete,
               Undone!Verdict, UndoneProofs!Verdict, Undone!Ask, UndoneProofs!Ask, Undone!Go,
               UndoneProofs!Go, Undone!Undo, UndoneProofs!Undo, Undone!Move, UndoneProofs!Move,
               Undone!safe, UndoneProofs!safe, Undone!Able, UndoneProofs!Able, Undone!find,
               UndoneProofs!find, Undone!Released, UndoneProofs!Released, Undone!vadd,
               UndoneProofs!vadd, Undone!vcmp, UndoneProofs!vcmp, Undone!Min, UndoneProofs!Min,
               Undone!Procs, UndoneProofs!Procs, Undone!Res, UndoneProofs!Res, Undone!main,
               UndoneProofs!main, Undone!None, UndoneProofs!None
<1>2. UNCHANGED vars => UNCHANGED UndoneProofs!vars
  BY DEF vars, UndoneProofs!vars
<1> QED BY <1>1, <1>2, BankSizes, UndoneProofs!BankStep, UndoneProofs!BankRests

LEMMA UndoneRight ==
    ASSUME UndoneProofs!BankInv
    PROVE  Undone!SafeExactly /\ Undone!GrantedIsSafe /\ Undone!NothingLost
<1>1. UndoneProofs!SafeExactly => Undone!SafeExactly
  BY Zenon DEF Undone!SafeExactly, UndoneProofs!SafeExactly, Undone!LastLeast,
               UndoneProofs!LastLeast, Undone!LastMost, UndoneProofs!LastMost,
               Undone!Safe, UndoneProofs!Safe,
               Undone!safe, UndoneProofs!safe, Undone!Able, UndoneProofs!Able, Undone!vcmp,
               UndoneProofs!vcmp, Undone!Procs, UndoneProofs!Procs, Undone!Res, UndoneProofs!Res,
               Undone!main, UndoneProofs!main, Undone!None, UndoneProofs!None, Undone!SumFunction,
               UndoneProofs!SumFunction, Undone!SumFunctionOnSet, UndoneProofs!SumFunctionOnSet,
               Undone!FoldFunctionOnSet, UndoneProofs!FoldFunctionOnSet, Undone!MapThenFoldSet,
               UndoneProofs!MapThenFoldSet
<1>2. UndoneProofs!GrantedIsSafe => Undone!GrantedIsSafe
  BY Zenon DEF Undone!GrantedIsSafe, UndoneProofs!GrantedIsSafe, Undone!Safe, UndoneProofs!Safe,
               Undone!Procs, UndoneProofs!Procs, Undone!Res, UndoneProofs!Res, Undone!main,
               UndoneProofs!main, Undone!None, UndoneProofs!None, Undone!SumFunction,
               UndoneProofs!SumFunction, Undone!SumFunctionOnSet, UndoneProofs!SumFunctionOnSet,
               Undone!FoldFunctionOnSet, UndoneProofs!FoldFunctionOnSet, Undone!MapThenFoldSet,
               UndoneProofs!MapThenFoldSet
<1>3. UndoneProofs!NothingLost => Undone!NothingLost
  BY Zenon DEF Undone!NothingLost, UndoneProofs!NothingLost, Undone!Procs, UndoneProofs!Procs,
               Undone!Res, UndoneProofs!Res, Undone!main, UndoneProofs!main, Undone!None,
               UndoneProofs!None, Undone!SumFunction, UndoneProofs!SumFunction,
               Undone!SumFunctionOnSet, UndoneProofs!SumFunctionOnSet, Undone!FoldFunctionOnSet,
               UndoneProofs!FoldFunctionOnSet, Undone!MapThenFoldSet, UndoneProofs!MapThenFoldSet
<1> QED BY <1>1, <1>2, <1>3, BankSizes, UndoneProofs!BankExact, UndoneProofs!BankGranted,
           UndoneProofs!BankConserves

LEMMA DetectBegins == Detect!Init => DetectProofs!BankInv
<1>1. Detect!Init => DetectProofs!Init
  BY Zenon DEF Detect!Init, DetectProofs!Init, Detect!Procs, DetectProofs!Procs, Detect!Res,
               DetectProofs!Res, Detect!main, DetectProofs!main, Detect!None, DetectProofs!None,
               Detect!SumFunction, DetectProofs!SumFunction, Detect!SumFunctionOnSet,
               DetectProofs!SumFunctionOnSet, Detect!FoldFunctionOnSet,
               DetectProofs!FoldFunctionOnSet, Detect!MapThenFoldSet, DetectProofs!MapThenFoldSet
<1> QED BY <1>1, BankSizes, DetectProofs!BankStart

LEMMA DetectSteps ==
    ASSUME DetectProofs!BankInv, Detect!Next \/ UNCHANGED vars
    PROVE  DetectProofs!BankInv'
<1>1. Detect!Next => DetectProofs!Next
  BY Zenon DEF Detect!Next, DetectProofs!Next, Detect!Complete, DetectProofs!Complete,
               Detect!Verdict, DetectProofs!Verdict, Detect!Ask, DetectProofs!Ask, Detect!Go,
               DetectProofs!Go, Detect!Undo, DetectProofs!Undo, Detect!Move, DetectProofs!Move,
               Detect!safe, DetectProofs!safe, Detect!Able, DetectProofs!Able, Detect!find,
               DetectProofs!find, Detect!Released, DetectProofs!Released, Detect!vadd,
               DetectProofs!vadd, Detect!vcmp, DetectProofs!vcmp, Detect!Min, DetectProofs!Min,
               Detect!Procs, DetectProofs!Procs, Detect!Res, DetectProofs!Res, Detect!main,
               DetectProofs!main, Detect!None, DetectProofs!None
<1>2. UNCHANGED vars => UNCHANGED DetectProofs!vars
  BY DEF vars, DetectProofs!vars
<1> QED BY <1>1, <1>2, BankSizes, DetectProofs!BankStep, DetectProofs!BankRests

LEMMA DetectRight ==
    ASSUME DetectProofs!BankInv
    PROVE  Detect!SafeExactly
<1>1. DetectProofs!SafeExactly => Detect!SafeExactly
  BY Zenon DEF Detect!SafeExactly, DetectProofs!SafeExactly, Detect!LastLeast,
               DetectProofs!LastLeast, Detect!LastMost, DetectProofs!LastMost,
               Detect!Safe, DetectProofs!Safe,
               Detect!safe, DetectProofs!safe, Detect!Able, DetectProofs!Able, Detect!vcmp,
               DetectProofs!vcmp, Detect!Procs, DetectProofs!Procs, Detect!Res, DetectProofs!Res,
               Detect!main, DetectProofs!main, Detect!None, DetectProofs!None, Detect!SumFunction,
               DetectProofs!SumFunction, Detect!SumFunctionOnSet, DetectProofs!SumFunctionOnSet,
               Detect!FoldFunctionOnSet, DetectProofs!FoldFunctionOnSet, Detect!MapThenFoldSet,
               DetectProofs!MapThenFoldSet
<1> QED BY <1>1, BankSizes, DetectProofs!BankExact
===============================================================================
