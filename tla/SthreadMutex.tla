----------------------------- MODULE SthreadMutex -----------------------------
(***************************************************************************)
(* The mutex of OS-master/shishir-sync/syn.c.  Its waiting list starts     *)
(* with the owner; a waiter calls schedule() until it finds itself owner.  *)
(* Both functions block signals, so that each visit to the lock is one     *)
(* step.  owner is not reset when the mutex becomes free.                  *)
(***************************************************************************)
EXTENDS Sthread

VARIABLES lock, owner, waiters

mutexVars == <<lock, owner, waiters>>

sthread_self == current

MutexInit == lock = 0 /\ owner = Main /\ waiters = <<>>

(* sthread_mutex_lock: taken at once, refused to its owner, or queued for. *)
BargeIn ==                                                   \* faulty variant
    lock' = 1 /\ owner' = sthread_self /\ waiters' = <<sthread_self>>
Lock ==
    IF lock = 0
    THEN lock' = 1 /\ owner' = sthread_self /\ waiters' = <<sthread_self>>
    ELSE /\ waiters' = IF owner = sthread_self THEN waiters
                       ELSE Append(waiters, sthread_self)
         /\ UNCHANGED <<lock, owner>>

(* sthread_mutex_unlock: the lock passes to the thread that waits longest. *)
NoHandOver ==                                                \* faulty variant
    /\ waiters' = Tail(waiters)
    /\ lock' = IF Len(waiters) = 1 THEN 0 ELSE 1
    /\ UNCHANGED owner
Unlock ==
    IF owner # sthread_self
    THEN UNCHANGED mutexVars
    ELSE /\ waiters' = IF waiters = <<>> THEN <<>> ELSE Tail(waiters)
         /\ lock' = IF waiters' = <<>> THEN 0 ELSE 1
         /\ owner' = IF waiters' = <<>> THEN owner ELSE Head(waiters')
=============================================================================
