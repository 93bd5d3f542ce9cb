----------------------------- MODULE ReadWriteLock -----------------------------
(***************************************************************************)
(* ClassicalIPC-Problems/reader-writer.c: the lock rwl, its readers, which *)
(* stop when they read 0, and its writer, which writes 2, 3, ... and then  *)
(* 0.  Each lock operation is one step under mut.                          *)
(***************************************************************************)
EXTENDS PosixIpc

CONSTANTS Readers, Writers, MAXCOUNT

Init ==
    /\ pc = [t \in Readers \cup Writers |->
               IF t \in Readers THEN "readlock" ELSE "writelock"]
    /\ sem = <<>>
    /\ asleep = {}
    /\ mem = [readers |-> 0, writers |-> 0, waiting |-> 0, data |-> 1,
              d |-> [r \in Readers |-> 1], i |-> [w \in Writers |-> 2]]

-----------------------------------------------------------------------------
SleepOn(t, blocked) ==
    asleep' = IF blocked THEN asleep \cup {t} ELSE asleep

readlock(r) ==
    LET blocked == mem.writers > 0 \/ mem.waiting > 0
    IN  /\ Go(r, "readlock", IF blocked THEN "readOK" ELSE "read")
        /\ SleepOn(r, blocked)
        /\ mem' = [mem EXCEPT !.readers = IF blocked THEN @ ELSE @ + 1]
        /\ UNCHANGED sem

(* A reader that was blocked enters whatever the number of waiting writers.*)
ReaderWoken(r) ==
    LET blocked == mem.writers > 0
    IN  /\ Woken(r)
        /\ Go(r, "readOK", IF blocked THEN "readOK" ELSE "read")
        /\ SleepOn(r, blocked)
        /\ mem' = [mem EXCEPT !.readers = IF blocked THEN @ ELSE @ + 1]
        /\ UNCHANGED sem

Read(r) ==
    /\ Go(r, "read", "readunlock")
    /\ mem' = [mem EXCEPT !.d[r] = mem.data]
    /\ UNCHANGED <<sem, asleep>>

readunlock(r) ==
    /\ Go(r, "readunlock", IF mem.d[r] # 0 THEN "readlock" ELSE "end")
    /\ mem' = [mem EXCEPT !.readers = @ - 1]
    /\ Signal(Writers)
    /\ UNCHANGED sem

Reader(r) == readlock(r) \/ ReaderWoken(r) \/ Read(r) \/ readunlock(r)

-----------------------------------------------------------------------------
(* writelock counts the writer as waiting until it has the lock.           *)
writelock(w) ==
    LET blocked == mem.readers > 0 \/ mem.writers > 0
    IN  /\ Go(w, "writelock", IF blocked THEN "writeOK" ELSE "write")
        /\ SleepOn(w, blocked)
        /\ mem' = IF blocked THEN [mem EXCEPT !.waiting = @ + 1]
                  ELSE [mem EXCEPT !.writers = @ + 1]
        /\ UNCHANGED sem

WriterWoken(w) ==
    LET blocked == mem.readers > 0 \/ mem.writers > 0
    IN  /\ Woken(w)
        /\ Go(w, "writeOK", IF blocked THEN "writeOK" ELSE "write")
        /\ SleepOn(w, blocked)
        /\ mem' = IF blocked THEN mem
                  ELSE [mem EXCEPT !.waiting = @ - 1, !.writers = @ + 1]
        /\ UNCHANGED sem

Write(w) ==
    /\ Go(w, "write", "writeunlock")
    /\ mem' = [mem EXCEPT !.data = IF mem.i[w] < MAXCOUNT THEN mem.i[w] ELSE 0]
    /\ UNCHANGED <<sem, asleep>>

WakeOne(w) ==                                                \* faulty variant
    /\ Go(w, "writeunlock", IF mem.i[w] < MAXCOUNT THEN "writelock" ELSE "end")
    /\ mem' = [mem EXCEPT !.writers = @ - 1, !.i[w] = @ + 1]
    /\ Signal(Readers)
    /\ UNCHANGED sem
writeunlock(w) ==
    /\ Go(w, "writeunlock", IF mem.i[w] < MAXCOUNT THEN "writelock" ELSE "end")
    /\ mem' = [mem EXCEPT !.writers = @ - 1, !.i[w] = @ + 1]
    /\ Broadcast(Readers)
    /\ UNCHANGED sem

Writer(w) == writelock(w) \/ WriterWoken(w) \/ Write(w) \/ writeunlock(w)

Next == (\E r \in Readers : Reader(r)) \/ (\E w \in Writers : Writer(w))

Finished == \A t \in Readers \cup Writers : pc[t] = "end"

(* A writer in its section is alone, and nothing is written between a      *)
(* reader's reading of data and its readunlock.                            *)
ReadersUndisturbed ==
    /\ \A w \in At(Writers, {"write", "writeunlock"}) :
         /\ At(Readers, {"read", "readunlock"}) = {}
         /\ At(Writers, {"write", "writeunlock"}) = {w}
    /\ \A r \in At(Readers, {"readunlock"}) : mem.d[r] = mem.data

(* A thread sleeps only while somebody is there who will wake it: a reader *)
(* needs a writer that has the lock or waits for it, a writer a reader or  *)
(* a writer inside.                                                        *)
NobodyOversleeps ==
    /\ asleep \cap Readers # {} => mem.writers > 0 \/ mem.waiting > 0
    /\ asleep \cap Writers # {} => mem.writers > 0 \/ mem.readers > 0
===============================================================================
