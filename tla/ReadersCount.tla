----------------------------- MODULE ReadersCount -----------------------------
(***************************************************************************)
(* Readers that count themselves, the first locking the writers out:       *)
(* OS-ane/pthread_ipc/readerWriter.c with threads, and OS-ane/             *)
(* readerWriterV.c with processes, where reader_count is each process's    *)
(* own (Shared = FALSE) and the mutexes are System V semaphores.           *)
(***************************************************************************)
EXTENDS PosixIpc

CONSTANTS Readers, Writers, Shared

(* Whose reader_count a reader changes.                                    *)
CountOf(r) == IF Shared THEN CHOOSE x \in Readers : TRUE ELSE r

Init ==
    /\ pc = [t \in Readers \cup Writers |->
               IF t \in Readers THEN "entry" ELSE "lock"]
    /\ sem = [readers_mutex |-> 1, writers_mutex |-> 1]
    /\ asleep = {}
    /\ mem = [resource |-> 0, reader_count |-> [r \in Readers |-> 0],
              reg |-> [w \in Writers |-> 0]]

LockWriters(w) ==
    Go(w, "lock", "load") /\ Down("writers_mutex") /\ UNCHANGED <<asleep, mem>>
Load(w) ==
    /\ Go(w, "load", "store")
    /\ mem' = [mem EXCEPT !.reg[w] = mem.resource]
    /\ UNCHANGED <<sem, asleep>>
Store(w) ==
    /\ Go(w, "store", "unlock")
    /\ mem' = [mem EXCEPT !.resource = mem.reg[w] + 1]
    /\ UNCHANGED <<sem, asleep>>
UnlockWriters(w) ==
    Go(w, "unlock", "end") /\ Up("writers_mutex") /\ UNCHANGED <<asleep, mem>>
Writer(w) == LockWriters(w) \/ Load(w) \/ Store(w) \/ UnlockWriters(w)

Entry(r) ==
    Go(r, "entry", "count") /\ Down("readers_mutex") /\ UNCHANGED <<asleep, mem>>
Count(r) ==
    /\ Go(r, "count", IF mem.reader_count[CountOf(r)] = 0 THEN "first" ELSE "entered")
    /\ mem' = [mem EXCEPT !.reader_count[CountOf(r)] = @ + 1]
    /\ UNCHANGED <<sem, asleep>>
FirstReader(r) ==
    Go(r, "first", "entered") /\ Down("writers_mutex") /\ UNCHANGED <<asleep, mem>>
Entered(r) ==
    Go(r, "entered", "read") /\ Up("readers_mutex") /\ UNCHANGED <<asleep, mem>>
Exit(r) ==
    Go(r, "read", "uncount") /\ Down("readers_mutex") /\ UNCHANGED <<asleep, mem>>
Uncount(r) ==
    /\ Go(r, "uncount", IF mem.reader_count[CountOf(r)] = 1 THEN "last" ELSE "left")
    /\ mem' = [mem EXCEPT !.reader_count[CountOf(r)] = @ - 1]
    /\ UNCHANGED <<sem, asleep>>
LastReader(r) ==
    Go(r, "last", "left") /\ Up("writers_mutex") /\ UNCHANGED <<asleep, mem>>
Left(r) ==
    Go(r, "left", "end") /\ Up("readers_mutex") /\ UNCHANGED <<asleep, mem>>
Reader(r) ==
    \/ Entry(r) \/ Count(r) \/ FirstReader(r) \/ Entered(r)
    \/ Exit(r) \/ Uncount(r) \/ LastReader(r) \/ Left(r)

Next == (\E r \in Readers : Reader(r)) \/ (\E w \in Writers : Writer(w))

Spec == Init /\ [][Next]_vars
FairSpec == Spec /\ WF_vars(Next)

Finished == \A t \in Readers \cup Writers : pc[t] = "end"

(* A writer is alone with the resource, so that no increment is lost.      *)
Apart ==
    /\ \A w \in At(Writers, {"load", "store", "unlock"}) :
         At(Readers, {"read"}) = {} /\ At(Writers, {"load", "store", "unlock"}) = {w}
    /\ mem.resource = Cardinality(At(Writers, {"unlock", "end"}))

(* readerWriterV.c line 207, "waiting for all child processes to           *)
(* terminate": they all do.                                                *)
AllTerminate == <>Finished
===============================================================================
