----------------------------- MODULE SthreadProofs -----------------------------
(***************************************************************************)
(* Safety of the user thread library, its mutex and its application, for   *)
(* any number of threads, any MAX_THREAD and signals anywhere.             *)
(***************************************************************************)
EXTENDS SthreadApp, FiniteSetTheorems, SequenceTheorems, TLAPS

-----------------------------------------------------------------------------
(* Sequences as queues in which nothing is twice: the first goes to the    *)
(* end, goes away, or another one comes.                                   *)
Members(q) == {q[i] : i \in 1 .. Len(q)}
Once(q) == \A i, j \in 1 .. Len(q) : q[i] = q[j] => i = j

LEMMA RotateLemma ==
    ASSUME NEW S, NEW q \in Seq(S), Len(q) >= 2, Once(q)
    PROVE  LET r == Tail(Append(q, Head(q)))
           IN  /\ r \in Seq(S) /\ Once(r) /\ Len(r) = Len(q)
               /\ r[1] = q[2] /\ Members(r) = Members(q)
  <1> DEFINE r == Tail(Append(q, Head(q)))
  <1>1. /\ r \in Seq(S) /\ Len(r) = Len(q)
        /\ \A i \in 1 .. Len(q) : r[i] = IF i = Len(q) THEN q[1] ELSE q[i + 1]
    OBVIOUS
  <1>2. Once(r)
    BY <1>1 DEF Once
  <1>3. Members(r) \subseteq Members(q)
    BY <1>1 DEF Members
  <1>4. Members(q) \subseteq Members(r)
    <2> SUFFICES ASSUME NEW i \in 1 .. Len(q) PROVE \E j \in 1 .. Len(r) : r[j] = q[i]
      BY DEF Members
    <2>1. CASE i = 1
      BY <2>1, <1>1
    <2>2. CASE i # 1
      <3>1. i - 1 \in 1 .. Len(r) /\ r[i - 1] = q[i]
        BY <2>2, <1>1
      <3> QED BY <3>1
    <2> QED BY <2>1, <2>2
  <1> QED BY <1>1, <1>2, <1>3, <1>4

LEMMA TailLemma ==
    ASSUME NEW S, NEW q \in Seq(S), q # <<>>, Once(q)
    PROVE  /\ Tail(q) \in Seq(S) /\ Once(Tail(q)) /\ Len(Tail(q)) = Len(q) - 1
           /\ \A i \in 1 .. Len(q) - 1 : Tail(q)[i] = q[i + 1]
           /\ Head(q) = q[1] /\ Head(q) \in S
           /\ Members(Tail(q)) = Members(q) \ {q[1]}
  <1>1. /\ Tail(q) \in Seq(S) /\ Len(Tail(q)) = Len(q) - 1
        /\ \A i \in 1 .. Len(q) - 1 : Tail(q)[i] = q[i + 1]
        /\ Head(q) = q[1] /\ Head(q) \in S
    OBVIOUS
  <1>2. Once(Tail(q))
    BY <1>1 DEF Once
  <1>3. Members(Tail(q)) \subseteq Members(q) \ {q[1]}
    BY <1>1 DEF Members, Once
  <1>4. Members(q) \ {q[1]} \subseteq Members(Tail(q))
    <2> SUFFICES ASSUME NEW i \in 1 .. Len(q), i # 1
                 PROVE  \E j \in 1 .. Len(Tail(q)) : Tail(q)[j] = q[i]
      BY DEF Members
    <2>1. i - 1 \in 1 .. Len(Tail(q)) /\ Tail(q)[i - 1] = q[i]
      BY <1>1
    <2> QED BY <2>1
  <1> QED BY <1>1, <1>2, <1>3, <1>4

LEMMA AppendLemma ==
    ASSUME NEW S, NEW q \in Seq(S), Once(q), NEW x \in S, x \notin Members(q)
    PROVE  /\ Append(q, x) \in Seq(S) /\ Once(Append(q, x))
           /\ Len(Append(q, x)) = Len(q) + 1
           /\ Append(q, x)[1] = IF q = <<>> THEN x ELSE q[1]
           /\ Members(Append(q, x)) = Members(q) \cup {x}
  <1>1. /\ Append(q, x) \in Seq(S) /\ Len(Append(q, x)) = Len(q) + 1
        /\ \A i \in 1 .. Len(q) : Append(q, x)[i] = q[i]
        /\ Append(q, x)[Len(q) + 1] = x
    OBVIOUS
  <1>2. Once(Append(q, x))
    BY <1>1 DEF Once, Members
  <1>3. Members(Append(q, x)) \subseteq Members(q) \cup {x}
    BY <1>1 DEF Members
  <1>4. Members(q) \cup {x} \subseteq Members(Append(q, x))
    BY <1>1 DEF Members
  <1>5. Append(q, x)[1] = IF q = <<>> THEN x ELSE q[1]
    BY <1>1
  <1> QED BY <1>1, <1>2, <1>3, <1>4, <1>5

-----------------------------------------------------------------------------
(* The queue holds main and running threads, each once, the current one    *)
(* first.                                                                  *)
Places == Tasks \cup {NULL}
Known == running \cup {Main}
QueueInv ==
    /\ queue \in Seq(Tasks) /\ Once(queue) /\ Members(queue) \subseteq Known
    /\ running \subseteq Threads /\ count = Cardinality(running)
    /\ current \in Places
    /\ queue # <<>> => current = queue[1] /\ armed = TRUE
    /\ armed \in BOOLEAN /\ last \subseteq Tasks

(* Each flow is saved once, at home, or in a task from which the swap it   *)
(* has yet to make leads nowhere.                                          *)
Call == [save : Places, to : Places]
Stale(f, g) == Len(swaps[f]) = 1 /\ swaps[f][1].to = NULL /\ swaps[f][1].save # g
Settled(g) == ctx[g] # cpu /\ ((ctx[g] = g /\ Len(swaps[g]) = 0) \/ Stale(ctx[g], g))
ContextInv ==
    /\ ctx \in [Tasks -> Places] /\ cpu \in Tasks
    /\ swaps \in [Tasks -> Seq(Call)]
    /\ \A f \in Tasks : Len(swaps[f]) <= 1 \/ (Len(swaps[f]) = 2 /\ "late" \in mishaps)
    /\ \A g \in Tasks : ctx[g] # NULL => Settled(g)
    /\ \A g, h \in Tasks : ctx[g] # NULL /\ ctx[g] = ctx[h] => g = h

(* The flow that executes is the current one, or is about to swap: it      *)
(* yields, and perhaps once more after a late signal; it goes for good and *)
(* leaves the queue empty; or it has been resumed where it does not belong *)
(* and cannot get away.                                                    *)
Pending == Len(swaps[cpu])
TopSave == swaps[cpu][Len(swaps[cpu])].save
TopTo == swaps[cpu][Len(swaps[cpu])].to
Runs == Pending = 0 /\ cpu \in Known /\ current \in {cpu, NULL}
Yields ==
    /\ Pending = 1 /\ TopTo = NULL /\ current \in Known /\ TopSave # current
    /\ TopSave = NULL \/ (TopSave = cpu /\ cpu \in Known)
YieldsTwice ==
    /\ Pending = 2 /\ TopTo = NULL /\ current \in Known /\ TopSave # current
    /\ TopSave \in Known /\ swaps[cpu][1].to = NULL /\ swaps[cpu][1].save # TopSave
Quits ==
    /\ Pending \in {1, 2} /\ TopSave = NULL /\ TopTo \in Known
    /\ current \in {TopTo, NULL} /\ queue = <<>>
Astray ==
    /\ Pending = 1 /\ TopTo = NULL
    /\ current # NULL => ctx[current] = NULL /\ TopSave # current
ControlInv == Runs \/ Yields \/ YieldsTwice \/ Quits \/ Astray

(* As long as no task has been refused, nobody is missing in the queue.    *)
CensusInv ==
    "full" \notin mishaps =>
      /\ queue # <<>> => /\ Known \subseteq Members(queue)
                         /\ Len(queue) = count + 1 /\ Len(queue) >= 2
      /\ queue = <<>> => running = {}

(* As long as no signal has come late either, everybody is at home.        *)
Regular ==
    \/ Runs
    \/ (Yields \/ Quits) /\ Pending = 1 /\ (TopSave = NULL => cpu \notin Known)
HomeInv ==
    mishaps = {} =>
      /\ \A t \in Known : t # cpu => ctx[t] = t /\ Len(swaps[t]) = 0
      /\ Regular

LibInv == QueueInv /\ ContextInv /\ ControlInv /\ CensusInv /\ HomeInv

(* Where main and the threads are, and which of them are running.          *)
ThreadPlaces == {"lock", "spin", "load", "store", "unlock", "return", "kill", "dead"}
MainPlaces == {"create", "torn", "made", "wait", "yield", "print", "end"}
Creating == {"create", "torn", "made"}
Created == IF pc[Main] \in Creating THEN 0 .. k - 1 ELSE Threads
PlaceTypes ==
    /\ pc \in [Tasks -> ThreadPlaces \cup MainPlaces]
    /\ pc[Main] \in MainPlaces /\ \A t \in Threads : pc[t] \in ThreadPlaces
    /\ k \in 0 .. NThreads
    /\ pc[Main] \in {"print", "end"} => \A t \in Threads : pc[t] = "dead"
PlaceInv ==
    /\ pc[Main] \notin {"print", "end"} => k < NThreads
    /\ pc[Main] \in {"wait", "yield"} => \A t \in running : k <= t
    /\ pc[Main] = "made" => ctx[k] = k
    /\ running = {t \in Created : pc[t] # "dead"}
    /\ \A t \in Threads \ Created : pc[t] = "lock" /\ Len(swaps[t]) = 0

(* The waiting list holds who spins and who is inside, the owner first.    *)
WaitInv ==
    /\ lock \in {0, 1} /\ owner \in Tasks /\ waiters \in Seq(Threads) /\ Once(waiters)
    /\ lock = 0 <=> waiters = <<>>
    /\ waiters # <<>> => owner = waiters[1]
    /\ Members(waiters) = {t \in Threads : pc[t] \in {"spin", "load", "store", "unlock"}}
    /\ \A t \in Inside : owner = t

(* The sum counts the threads that have stored theirs.                     *)
Stored == {t \in Threads : pc[t] \in {"unlock", "return", "kill", "dead"}}
SumInv ==
    /\ global_sum = Cardinality(Stored)
    /\ reg \in [Threads -> 0 .. NThreads]
    /\ \A t \in Threads : pc[t] = "store" => reg[t] = global_sum

EndInv ==
    /\ MAX_THREAD \in Limits
    /\ mishaps \subseteq {"late", "full"}
    /\ fate \in {"ok", "null", "wild", "bare", "refused"}

Inv ==
    /\ LibInv /\ PlaceTypes /\ WaitInv /\ SumInv /\ EndInv
    /\ fate = "ok" => PlaceInv

-----------------------------------------------------------------------------
(* The library.                                                            *)
LEMMA ThreadsFinite ==
    ASSUME NEW S \in SUBSET Threads
    PROVE  IsFiniteSet(S) /\ Cardinality(S) \in 0 .. NThreads
  <1>1. IsFiniteSet(Threads) /\ Cardinality(Threads) = NThreads
    BY SthreadAssumption, FS_Interval DEF Threads
  <1>2. IsFiniteSet(S) /\ Cardinality(S) <= NThreads
    BY <1>1, FS_Subset
  <1> QED BY <1>2, FS_CardinalityType, SthreadAssumption

LEMMA NullIsNoTask ==
    /\ NULL \notin Tasks /\ Main \in Tasks /\ Main \notin Threads
    /\ Threads \subseteq Tasks /\ Tasks \subseteq Places /\ NULL \in Places
  BY DEF Tasks, Threads, Main, NULL, Places

LEMMA KnownTasks == QueueInv => Known \subseteq Tasks /\ NULL \notin Known
  BY NullIsNoTask DEF QueueInv, Known

(* A library that stops is left as it was.                                 *)
LEMMA StopKeeps ==
    ASSUME LibInv, NEW why, Stop(why), mishaps \subseteq mishaps'
    PROVE  LibInv' /\ UNCHANGED schedVars /\ fate' = why
  <1>1. UNCHANGED schedVars /\ fate' = why
    BY DEF Stop
  <1>2. /\ UNCHANGED <<queue, current, count, running, ctx, cpu, swaps, armed, last>>
        /\ "late" \in mishaps => "late" \in mishaps'
        /\ "full" \in mishaps => "full" \in mishaps'
        /\ mishaps' = {} => mishaps = {}
    BY <1>1 DEF schedVars
  <1>3. QueueInv'
    BY <1>2 DEF LibInv, QueueInv, Known
  <1>4. ContextInv'
    BY <1>2 DEF LibInv, ContextInv, Settled, Stale
  <1>5. /\ Runs' = Runs /\ Yields' = Yields /\ YieldsTwice' = YieldsTwice
        /\ Quits' = Quits /\ Astray' = Astray /\ Regular' = Regular /\ Known' = Known
    BY <1>2 DEF Runs, Yields, YieldsTwice, Quits, Astray, Regular, Known, Pending, TopSave, TopTo
  <1>6. ControlInv' /\ HomeInv'
    BY <1>2, <1>5 DEF LibInv, ControlInv, HomeInv
  <1>7. CensusInv'
    BY <1>2, <1>5 DEF LibInv, CensusInv
  <1> QED BY <1>1, <1>3, <1>4, <1>6, <1>7 DEF LibInv

(* What the library is in cannot change without one of these variables.    *)
LEMMA LibKept ==
    ASSUME LibInv, UNCHANGED <<queue, current, count, running, ctx, cpu, swaps, armed, mishaps>>,
           last' \subseteq Tasks
    PROVE  LibInv'
  <1>1. QueueInv'
    BY DEF LibInv, QueueInv, Known
  <1>2. ContextInv'
    BY DEF LibInv, ContextInv, Settled, Stale
  <1>3. /\ Runs' = Runs /\ Yields' = Yields /\ YieldsTwice' = YieldsTwice
        /\ Quits' = Quits /\ Astray' = Astray /\ Regular' = Regular /\ Known' = Known
    BY DEF Runs, Yields, YieldsTwice, Quits, Astray, Regular, Known, Pending, TopSave, TopTo
  <1>4. ControlInv' /\ HomeInv' /\ CensusInv'
    BY <1>3 DEF LibInv, ControlInv, HomeInv, CensusInv
  <1> QED BY <1>1, <1>2, <1>4 DEF LibInv

(* A swap put on top of what the executing flow has yet to make.           *)
LEMMA Pushed ==
    ASSUME ContextInv, NEW save \in Places, NEW to \in Places, SwapLater(cpu, save, to)
    PROVE  /\ swaps' \in [Tasks -> Seq(Call)]
           /\ \A f \in Tasks : f # cpu => swaps'[f] = swaps[f]
           /\ Len(swaps'[cpu]) = Len(swaps[cpu]) + 1
           /\ swaps'[cpu][Len(swaps[cpu]) + 1].save = save
           /\ swaps'[cpu][Len(swaps[cpu]) + 1].to = to
           /\ \A i \in 1 .. Len(swaps[cpu]) : swaps'[cpu][i] = swaps[cpu][i]
           /\ Len(swaps[cpu]) \in Nat
  <1> DEFINE c == [save |-> save, to |-> to]
  <1>1. c \in Call /\ c.save = save /\ c.to = to
    BY DEF Call
  <1>2. cpu \in Tasks /\ swaps[cpu] \in Seq(Call) /\ swaps \in [Tasks -> Seq(Call)]
    BY DEF ContextInv
  <1>3. swaps' = [swaps EXCEPT ![cpu] = Append(swaps[cpu], c)]
    BY DEF SwapLater
  <1> HIDE DEF c
  <1>4. /\ Append(swaps[cpu], c) \in Seq(Call) /\ Len(swaps[cpu]) \in Nat
        /\ Len(Append(swaps[cpu], c)) = Len(swaps[cpu]) + 1
        /\ Append(swaps[cpu], c)[Len(swaps[cpu]) + 1] = c
        /\ \A i \in 1 .. Len(swaps[cpu]) : Append(swaps[cpu], c)[i] = swaps[cpu][i]
    BY <1>1, <1>2
  <1> QED BY <1>1, <1>2, <1>3, <1>4

LEMMA ContextPushed ==
    ASSUME ContextInv, NEW save \in Places, NEW to \in Places, SwapLater(cpu, save, to),
           Len(swaps[cpu]) = 0 \/ (Len(swaps[cpu]) = 1 /\ "late" \in mishaps'),
           mishaps \subseteq mishaps', UNCHANGED <<ctx, cpu>>
    PROVE  ContextInv'
  <1>1. /\ swaps' \in [Tasks -> Seq(Call)]
        /\ \A f \in Tasks : f # cpu => swaps'[f] = swaps[f]
        /\ Len(swaps'[cpu]) = Len(swaps[cpu]) + 1
    BY Pushed
  <1>2. \A f \in Tasks : Len(swaps'[f]) <= 1 \/ (Len(swaps'[f]) = 2 /\ "late" \in mishaps')
    <2> SUFFICES ASSUME NEW f \in Tasks
                 PROVE  Len(swaps'[f]) <= 1 \/ (Len(swaps'[f]) = 2 /\ "late" \in mishaps')
      OBVIOUS
    <2>1. Len(swaps[f]) <= 1 \/ (Len(swaps[f]) = 2 /\ "late" \in mishaps)
      BY DEF ContextInv
    <2>2. CASE f = cpu
      <3>1. CASE Len(swaps[cpu]) = 0
        <4>1. Len(swaps'[cpu]) = 1
          BY <1>1, <3>1
        <4>2. Len(swaps'[f]) = 1
          BY <4>1, <2>2, Zenon
        <4>3. Len(swaps'[f]) <= 1
          BY <4>2
        <4> QED BY <4>3, Zenon
      <3>2. CASE Len(swaps[cpu]) = 1 /\ "late" \in mishaps'
        <4>1. Len(swaps'[cpu]) = 2
          BY <1>1, <3>2
        <4> QED BY <4>1, <3>2, <2>2, Zenon
      <3> QED BY <3>1, <3>2, Zenon
    <2>3. CASE f # cpu
      <3>1. "late" \in mishaps => "late" \in mishaps'
        OBVIOUS
      <3> QED BY <1>1, <2>1, <2>3, <3>1, Zenon
    <2> QED BY <2>2, <2>3
  <1>3. ASSUME NEW g \in Tasks, ctx[g] # NULL
        PROVE  Settled(g)'
    <2>1. ctx[g] # cpu /\ ctx[g] \in Tasks
      BY <1>3 DEF ContextInv, Settled, Places
    <2>2. swaps'[ctx[g]] = swaps[ctx[g]]
      BY <2>1, <1>1
    <2>3. (ctx[g] = g /\ Len(swaps[g]) = 0) \/ Stale(ctx[g], g)
      BY <1>3 DEF ContextInv, Settled
    <2> QED BY <2>1, <2>2, <2>3 DEF Settled, Stale
  <1>4. \A g, h \in Tasks : ctx'[g] # NULL /\ ctx'[g] = ctx'[h] => g = h
    BY DEF ContextInv
  <1>5. ctx' \in [Tasks -> Places] /\ cpu' \in Tasks
    BY DEF ContextInv
  <1> QED BY <1>1, <1>2, <1>3, <1>4, <1>5 DEF ContextInv

LEMMA Executing ==
    ASSUME LibInv, NEW f \in Tasks, Executes(f)
    PROVE  /\ cpu = f /\ Len(swaps[cpu]) = 0 /\ Runs /\ f \in Known
           /\ queue # <<>> => current = f /\ Head(queue) = f /\ queue[1] = f
           /\ fate = "ok" /\ current \in {f, NULL}
  <1>1. cpu = f /\ swaps[f] = <<>> /\ fate = "ok"
    BY DEF Executes
  <1>2. Len(swaps[cpu]) = 0
    BY <1>1
  <1>3. Runs
    BY <1>2 DEF LibInv, ControlInv, Yields, YieldsTwice, Quits, Astray, Pending
  <1>4. ASSUME queue # <<>> PROVE current = f /\ Head(queue) = f /\ queue[1] = f
    <2>1. queue \in Seq(Tasks) /\ current = queue[1]
      BY <1>4 DEF LibInv, QueueInv
    <2>2. queue[1] \in Tasks /\ Head(queue) = queue[1]
      BY <1>4, <2>1
    <2> QED BY <1>1, <1>3, <2>1, <2>2, NullIsNoTask DEF Runs
  <1> QED BY <1>1, <1>2, <1>3, <1>4 DEF Runs

(* The queue after its head has gone to the tail, or been refused there.   *)
LEMMA QueueTurned ==
    ASSUME QueueInv, queue # <<>>, Len(queue) # 1, queue' = Tail(Requeue(Head(queue)))
    PROVE  /\ queue' \in Seq(Tasks) /\ Once(queue') /\ queue' # <<>>
           /\ Members(queue') \subseteq Members(queue)
           /\ queue[1] # queue[2] /\ queue'[1] = queue[2]
           /\ queue[1] \in Known /\ queue[2] \in Known /\ Head(queue) = queue[1]
           /\ Len(queue) >= 2
           /\ count # MAX_THREAD =>
                Members(queue') = Members(queue) /\ Len(queue') = Len(queue)
  <1>1. queue \in Seq(Tasks) /\ Once(queue) /\ Members(queue) \subseteq Known
    BY DEF QueueInv
  <1>2. Len(queue) >= 2 /\ Len(queue) \in Nat /\ Head(queue) = queue[1]
    BY <1>1
  <1>3. queue[1] \in Members(queue) /\ queue[2] \in Members(queue)
    BY <1>2 DEF Members
  <1>4. queue[1] # queue[2]
    BY <1>1, <1>2 DEF Once
  <1>5. CASE count # MAX_THREAD
    <2>1. queue' = Tail(Append(queue, Head(queue)))
      BY <1>5 DEF Requeue
    <2>2. /\ queue' \in Seq(Tasks) /\ Once(queue') /\ Len(queue') = Len(queue)
          /\ queue'[1] = queue[2] /\ Members(queue') = Members(queue)
      BY <1>1, <1>2, <2>1, RotateLemma
    <2>3. queue' # <<>>
      BY <1>2, <2>2
    <2> QED BY <1>1, <1>2, <1>3, <1>4, <2>2, <2>3
  <1>6. CASE count = MAX_THREAD
    <2>1. queue' = Tail(queue)
      BY <1>6 DEF Requeue
    <2>2. /\ queue' \in Seq(Tasks) /\ Once(queue') /\ Len(queue') = Len(queue) - 1
          /\ queue'[1] = queue[2] /\ Members(queue') \subseteq Members(queue)
      <3>1. /\ Tail(queue) \in Seq(Tasks) /\ Once(Tail(queue))
            /\ Len(Tail(queue)) = Len(queue) - 1 /\ Tail(queue)[1] = queue[2]
            /\ Members(Tail(queue)) = Members(queue) \ {queue[1]}
        BY <1>1, <1>2, TailLemma
      <3> QED BY <2>1, <3>1
    <2>3. queue' # <<>>
      <3>1. Len(queue') # 0
        BY <1>2, <2>2
      <3> QED BY <3>1
    <2> QED BY <1>1, <1>2, <1>3, <1>4, <1>6, <2>2, <2>3
  <1> QED BY <1>5, <1>6

(* schedule(): by the flow that executes, or on top of a swap it has still *)
(* to make.                                                                *)
LEMMA ScheduleStep ==
    ASSUME LibInv, Len(swaps[cpu]) <= 1, schedule(cpu)
    PROVE  /\ LibInv' /\ running' = running
           /\ \A t \in Tasks \ Known : t # cpu => ctx'[t] = ctx[t] /\ swaps'[t] = swaps[t]
           /\ ctx' = ctx /\ (Len(swaps[cpu]) = 0 => cpu \in Known)
           /\ IF queue = <<>> THEN queue' = <<>> /\ fate' = "null" ELSE fate' = fate
           /\ mishaps' \subseteq mishaps \cup {"late", "full"}
  <1>0. QueueInv /\ ContextInv /\ ControlInv /\ CensusInv /\ HomeInv /\ cpu \in Tasks
    BY DEF LibInv, ContextInv
  <1>1. /\ mishaps' = mishaps \cup Mishap(cpu) /\ mishaps \subseteq mishaps'
        /\ mishaps' \subseteq mishaps \cup {"late", "full"}
    BY DEF schedule, Mishap
  <1>2. Len(swaps[cpu]) = 0 => Runs
    BY <1>0 DEF ControlInv, Yields, YieldsTwice, Quits, Astray, Pending
  <1>3. CASE queue = <<>>
    <2>1. Stop("null")
      BY <1>3 DEF schedule
    <2>2. LibInv' /\ UNCHANGED schedVars /\ fate' = "null"
      BY <1>1, <2>1, StopKeeps
    <2> QED BY <1>1, <1>2, <1>3, <2>2 DEF schedVars, Runs
  <1>4. CASE queue # <<>>
    <2>1. /\ queue \in Seq(Tasks) /\ current = queue[1] /\ Members(queue) \subseteq Known
          /\ Known \subseteq Tasks /\ Len(queue) \in Nat /\ Len(queue) # 0
      BY <1>0, <1>4, KnownTasks DEF QueueInv
    <2>2. queue[1] \in Known /\ Head(queue) = queue[1] /\ current # NULL /\ current \in Tasks
      <3>1. queue[1] \in Members(queue)
        BY <2>1 DEF Members
      <3> QED BY <2>1, <3>1, NullIsNoTask
    <2>3. UNCHANGED <<count, running, ctx, cpu, armed, last, fate>>
      BY <1>4 DEF schedule
    <2>4. Known' = Known /\ Len(swaps[cpu]) \in Nat
      BY <1>0, <2>3 DEF Known, ContextInv
    <2>5. Len(swaps[cpu]) = 0 \/ (Len(swaps[cpu]) = 1 /\ "late" \in mishaps')
      <3>1. CASE Len(swaps[cpu]) = 0
        BY <3>1
      <3>2. CASE Len(swaps[cpu]) # 0
        <4>1. swaps[cpu] # <<>> /\ Len(swaps[cpu]) = 1
          <5>1. \A n \in Nat : n <= 1 /\ n # 0 => n = 1
            OBVIOUS
          <5>2. Len(swaps[cpu]) = 1
            BY <2>4, <3>2, <5>1, Zenon
          <5>3. swaps[cpu] # <<>>
            BY <3>2
          <5> QED BY <5>2, <5>3
        <4>2. "late" \in Mishap(cpu)
          BY <4>1 DEF Mishap
        <4>3. "late" \in mishaps'
          BY <1>1, <4>2
        <4> QED BY <4>1, <4>3, Zenon
      <3> QED BY <3>1, <3>2, Zenon
    <2>6. CASE Len(queue) = 1
      <3>1. queue' = <<>> /\ SwapLater(cpu, NULL, Head(queue)) /\ current' = current
        BY <1>4, <2>2, <2>6, Zenon DEF schedule
      <3>2. ContextInv'
        <4>1. SwapLater(cpu, NULL, queue[1]) /\ queue[1] \in Places /\ NULL \in Places
          BY <2>1, <2>2, <3>1, NullIsNoTask
        <4>2. UNCHANGED <<ctx, cpu>>
          BY <2>3
        <4> QED BY <1>0, <1>1, <2>5, <4>1, <4>2, ContextPushed, Zenon
      <3>3. /\ Len(swaps'[cpu]) = Len(swaps[cpu]) + 1
            /\ swaps'[cpu][Len(swaps[cpu]) + 1].save = NULL
            /\ swaps'[cpu][Len(swaps[cpu]) + 1].to = queue[1]
            /\ \A f \in Tasks : f # cpu => swaps'[f] = swaps[f]
        <4>1. SwapLater(cpu, NULL, queue[1]) /\ queue[1] \in Places /\ NULL \in Places
          BY <2>1, <2>2, <3>1, NullIsNoTask
        <4> QED BY <1>0, <4>1, Pushed
      <3>4. QueueInv'
        <4>1. Once(<<>>) /\ Members(<<>>) = {} /\ <<>> \in Seq(Tasks)
          BY DEF Once, Members
        <4>2. Once(queue') /\ Members(queue') \subseteq Known' /\ queue' \in Seq(Tasks)
          BY <3>1, <4>1
        <4> QED BY <1>0, <2>3, <2>4, <3>1, <4>2 DEF QueueInv
      <3>5. Quits'
        BY <2>1, <2>2, <2>3, <2>4, <2>5, <3>1, <3>3 DEF Quits, Pending, TopSave, TopTo
      <3>6. "full" \in mishaps
        BY <1>0, <1>4, <2>6 DEF CensusInv
      <3>7. "full" \in mishaps' /\ mishaps' # {}
        BY <1>1, <3>6
      <3>8. CensusInv' /\ HomeInv'
        BY <3>7 DEF CensusInv, HomeInv
      <3>9. LibInv'
        BY <3>2, <3>4, <3>5, <3>8 DEF LibInv, ControlInv
      <3> QED BY <1>1, <1>2, <1>4, <2>3, <3>3, <3>9 DEF Runs
    <2>7. CASE Len(queue) # 1
      <3>1. /\ queue' = Tail(Requeue(Head(queue))) /\ SwapLater(cpu, Head(queue), NULL)
            /\ current' = queue[2]
        BY <1>4, <2>2, <2>7, Zenon DEF schedule
      <3>2. /\ queue' \in Seq(Tasks) /\ Once(queue') /\ queue' # <<>>
            /\ Members(queue') \subseteq Members(queue)
            /\ queue[1] # queue[2] /\ queue'[1] = queue[2]
            /\ queue[2] \in Known /\ Len(queue) >= 2
            /\ count # MAX_THREAD =>
                 Members(queue') = Members(queue) /\ Len(queue') = Len(queue)
        BY <1>0, <1>4, <2>7, <3>1, QueueTurned
      <3>3. ContextInv'
        <4>1. SwapLater(cpu, queue[1], NULL) /\ queue[1] \in Places /\ NULL \in Places
          BY <2>1, <2>2, <3>1, NullIsNoTask
        <4>2. UNCHANGED <<ctx, cpu>>
          BY <2>3
        <4> QED BY <1>0, <1>1, <2>5, <4>1, <4>2, ContextPushed, Zenon
      <3>4. /\ Len(swaps'[cpu]) = Len(swaps[cpu]) + 1
            /\ swaps'[cpu][Len(swaps[cpu]) + 1].save = queue[1]
            /\ swaps'[cpu][Len(swaps[cpu]) + 1].to = NULL
            /\ \A i \in 1 .. Len(swaps[cpu]) : swaps'[cpu][i] = swaps[cpu][i]
            /\ \A f \in Tasks : f # cpu => swaps'[f] = swaps[f]
        BY <1>0, <2>1, <2>2, <3>1, Pushed, NullIsNoTask
      <3>5. QueueInv'
        BY <1>0, <1>4, <2>1, <2>3, <2>4, <3>1, <3>2, NullIsNoTask DEF QueueInv
      <3>6. ASSUME Len(swaps[cpu]) = 0 PROVE Yields' /\ TopSave' # NULL /\ Pending' = 1
        <4>1. cpu \in Known /\ queue[1] = cpu
          BY <1>2, <2>1, <2>2, <3>6 DEF Runs
        <4> QED BY <1>0, <2>3, <2>4, <3>1, <3>2, <3>4, <3>6, <4>1, NullIsNoTask
            DEF Yields, Pending, TopSave, TopTo
      <3>7. ASSUME Len(swaps[cpu]) = 1 PROVE YieldsTwice'
        <4>1. ~Runs /\ ~YieldsTwice /\ ~Quits
          BY <1>4, <3>7 DEF Runs, YieldsTwice, Quits, Pending
        <4>2. Yields \/ Astray
          BY <1>0, <4>1 DEF ControlInv
        <4>3. swaps[cpu][1].to = NULL /\ swaps[cpu][1].save # queue[1]
          BY <2>1, <2>2, <3>7, <4>2 DEF Yields, Astray, TopSave, TopTo
        <4>4. swaps'[cpu][1] = swaps[cpu][1]
          BY <3>4, <3>7
        <4>5. Pending' = 2 /\ TopSave' = queue[1] /\ TopTo' = NULL
          BY <2>3, <3>4, <3>7 DEF Pending, TopSave, TopTo
        <4> QED BY <2>2, <2>3, <2>4, <3>1, <3>2, <4>3, <4>4, <4>5 DEF YieldsTwice
      <3>8. ControlInv'
        BY <2>5, <3>6, <3>7 DEF ControlInv
      <3>9. "full" \notin mishaps' => "full" \notin mishaps /\ count # MAX_THREAD
        <4>1. Len(queue) > 1
          BY <2>1, <3>2
        <4>2. count = MAX_THREAD => "full" \in Mishap(cpu)
          BY <4>1 DEF Mishap
        <4> QED BY <1>1, <4>2
      <3>10. CensusInv'
        BY <1>0, <1>4, <2>3, <2>4, <3>2, <3>9 DEF CensusInv
      <3>11. HomeInv'
        <4> SUFFICES ASSUME mishaps' = {}
                     PROVE  /\ \A t \in Known' : t # cpu' => ctx'[t] = t /\ Len(swaps'[t]) = 0
                            /\ Regular'
          BY DEF HomeInv
        <4>1. mishaps = {} /\ "late" \notin mishaps'
          BY <1>1
        <4>2. Len(swaps[cpu]) = 0
          BY <2>5, <4>1
        <4>3. \A t \in Known : t # cpu => ctx[t] = t /\ Len(swaps[t]) = 0
          BY <1>0, <4>1 DEF HomeInv
        <4>4. \A t \in Known' : t # cpu' => ctx'[t] = t /\ Len(swaps'[t]) = 0
          BY <2>1, <2>3, <2>4, <3>4, <4>3
        <4>5. Regular'
          BY <3>6, <4>2 DEF Regular
        <4> QED BY <4>4, <4>5
      <3>12. LibInv'
        BY <3>3, <3>5, <3>8, <3>10, <3>11 DEF LibInv
      <3> QED BY <1>1, <1>2, <1>4, <2>3, <3>4, <3>12 DEF Runs
    <2> QED BY <2>6, <2>7
  <1> QED BY <1>3, <1>4

(* The swapcontext itself.                                                 *)
Target == IF TopTo = NULL THEN current ELSE TopTo
Saved == IF TopSave = NULL THEN ctx ELSE [ctx EXCEPT ![TopSave] = cpu]

LEMMA SwapGoes ==
    ASSUME LibInv, Yields \/ YieldsTwice \/ Quits
    PROVE  /\ Target \in Known /\ Target \in Tasks /\ TopSave \in Places
           /\ TopSave # Target /\ current \in {Target, NULL}
           /\ queue # <<>> => TopTo = NULL
           /\ Saved[Target] = ctx[Target]
  <1>1. QueueInv /\ ctx \in [Tasks -> Places] /\ cpu \in Tasks
    BY DEF LibInv, ContextInv
  <1>2. Known \subseteq Tasks /\ NULL \notin Known
    BY <1>1, KnownTasks
  <1>3. /\ Target \in Known /\ TopSave \in Places /\ TopSave # Target
        /\ current \in {Target, NULL} /\ (queue # <<>> => TopTo = NULL)
    <2>1. CASE Yields
      BY <1>1, <1>2, <2>1, NullIsNoTask DEF Yields, Target
    <2>2. CASE YieldsTwice
      BY <1>1, <1>2, <2>2, NullIsNoTask DEF YieldsTwice, Target
    <2>3. CASE Quits
      BY <1>1, <1>2, <2>3, NullIsNoTask DEF Quits, Target
    <2> QED BY <2>1, <2>2, <2>3
  <1>4. Saved[Target] = ctx[Target]
    BY <1>1, <1>2, <1>3 DEF Saved
  <1> QED BY <1>2, <1>3, <1>4

(* What a swap that succeeds leaves behind.                                *)
Swapped ==
    /\ cpu' = Saved[Target] /\ ctx' = [Saved EXCEPT ![Target] = NULL]
    /\ swaps' = [swaps EXCEPT ![cpu] = SubSeq(@, 1, Len(@) - 1)]
    /\ armed' = (armed /\ TopTo = NULL)
    /\ last' = IF TopSave = NULL THEN last \ {cpu} ELSE last
    /\ UNCHANGED <<queue, current, count, running, fate, mishaps>>

LEMMA SwapCases ==
    ASSUME LibInv, NEW f \in Tasks, Swap(f)
    PROVE  /\ cpu = f /\ Pending # 0 /\ ~Runs /\ mishaps' = mishaps
           /\ \/ Target = NULL /\ Stop("null")
              \/ Target # NULL /\ Saved[Target] = NULL /\ Stop("wild")
              \/ Target # NULL /\ Saved[Target] # NULL /\ Swapped
  <1>1. cpu = f /\ swaps[cpu] # <<>> /\ mishaps' = mishaps
    BY DEF Swap
  <1>2. swaps[cpu] \in Seq(Call)
    BY DEF LibInv, ContextInv
  <1>3. Pending # 0
    BY <1>1, <1>2 DEF Pending
  <1>4. Target = NULL => Stop("null")
    BY <1>1, Zenon DEF Swap, Target, TopTo
  <1>5. Target # NULL /\ Saved[Target] = NULL => Stop("wild")
    BY <1>1, Zenon DEF Swap, Target, TopTo, TopSave, Saved
  <1>6. Target # NULL /\ Saved[Target] # NULL => Swapped
    BY <1>1, Zenon DEF Swap, Target, TopTo, TopSave, Saved, Swapped
  <1> QED BY <1>1, <1>3, <1>4, <1>5, <1>6 DEF Runs

(* The stack of the flow that has swapped.                                 *)
LEMMA Popped ==
    ASSUME ContextInv, Pending \in {1, 2},
           swaps' = [swaps EXCEPT ![cpu] = SubSeq(@, 1, Len(@) - 1)]
    PROVE  /\ swaps' \in [Tasks -> Seq(Call)]
           /\ \A t \in Tasks : t # cpu => swaps'[t] = swaps[t]
           /\ Len(swaps'[cpu]) = Pending - 1
           /\ Pending = 2 => swaps'[cpu][1] = swaps[cpu][1]
  <1>1. cpu \in Tasks /\ swaps[cpu] \in Seq(Call) /\ swaps \in [Tasks -> Seq(Call)]
    BY DEF ContextInv
  <1> DEFINE s == SubSeq(swaps[cpu], 1, Len(swaps[cpu]) - 1)
  <1>2. s \in Seq(Call) /\ Len(s) = Pending - 1 /\ (Pending = 2 => s[1] = swaps[cpu][1])
    <2>1. CASE Pending = 1
      BY <1>1, <2>1 DEF Pending
    <2>2. CASE Pending = 2
      <3>1. \A r \in Seq(Call) : Len(r) = 2 => /\ SubSeq(r, 1, 1) \in Seq(Call)
                                              /\ Len(SubSeq(r, 1, 1)) = 1
                                              /\ SubSeq(r, 1, 1)[1] = r[1]
        OBVIOUS
      <3>2. Len(swaps[cpu]) = 2
        BY <2>2 DEF Pending
      <3>3. s = SubSeq(swaps[cpu], 1, 1)
        BY <3>2
      <3>4. s \in Seq(Call) /\ Len(s) = 1 /\ s[1] = swaps[cpu][1]
        BY <1>1, <3>1, <3>2, <3>3
      <3> QED BY <2>2, <3>4
    <2> QED BY <2>1, <2>2
  <1>3. swaps' = [swaps EXCEPT ![cpu] = s]
    OBVIOUS
  <1> HIDE DEF s
  <1> QED BY <1>1, <1>2, <1>3

LEMMA SwappedContexts ==
    ASSUME LibInv, Yields \/ YieldsTwice \/ Quits, Saved[Target] # NULL, Swapped
    PROVE  /\ ContextInv' /\ cpu' # cpu /\ cpu' = ctx[Target]
           /\ ctx' \in [Tasks -> Places] /\ ctx'[Target] = NULL
           /\ \A g \in Tasks : g # Target => ctx'[g] = IF g = TopSave THEN cpu ELSE ctx[g]
           /\ \A t \in Tasks : t # cpu => swaps'[t] = swaps[t]
           /\ Len(swaps'[cpu]) = Pending - 1
  <1>0. ContextInv /\ cpu \in Tasks /\ ctx \in [Tasks -> Places]
    BY DEF LibInv, ContextInv
  <1>1. /\ Target \in Known /\ Target \in Tasks /\ TopSave \in Places
        /\ TopSave # Target /\ Saved[Target] = ctx[Target]
    BY SwapGoes
  <1>2. Pending \in {1, 2}
    BY DEF Yields, YieldsTwice, Quits
  <1>3. /\ swaps' \in [Tasks -> Seq(Call)]
        /\ \A t \in Tasks : t # cpu => swaps'[t] = swaps[t]
        /\ Len(swaps'[cpu]) = Pending - 1
        /\ Pending = 2 => swaps'[cpu][1] = swaps[cpu][1]
    BY <1>0, <1>2, Popped DEF Swapped
  <1>4. cpu' = ctx[Target] /\ ctx[Target] # NULL /\ ctx[Target] # cpu /\ ctx[Target] \in Tasks
    BY <1>0, <1>1 DEF Swapped, ContextInv, Settled, Places
  <1>5. /\ ctx' \in [Tasks -> Places] /\ ctx'[Target] = NULL
        /\ \A g \in Tasks : g # Target => ctx'[g] = IF g = TopSave THEN cpu ELSE ctx[g]
    <2>1. Saved \in [Tasks -> Places] /\ \A g \in Tasks : Saved[g] = IF g = TopSave THEN cpu ELSE ctx[g]
      BY <1>0, NullIsNoTask DEF Saved
    <2>2. ctx' = [Saved EXCEPT ![Target] = NULL]
      BY DEF Swapped
    <2> QED BY <1>1, <2>1, <2>2, NullIsNoTask
  <1>6. \A t \in Tasks : Len(swaps'[t]) <= 1 \/ (Len(swaps'[t]) = 2 /\ "late" \in mishaps')
    <2> SUFFICES ASSUME NEW t \in Tasks
                 PROVE  Len(swaps'[t]) <= 1 \/ (Len(swaps'[t]) = 2 /\ "late" \in mishaps')
      OBVIOUS
    <2>1. CASE t = cpu
      <3>1. Len(swaps'[cpu]) <= 1
        BY <1>2, <1>3
      <3>2. Len(swaps'[t]) <= 1
        BY <2>1, <3>1, Zenon
      <3> QED BY <3>2, Zenon
    <2>2. CASE t # cpu
      <3>1. swaps'[t] = swaps[t] /\ mishaps' = mishaps
        BY <1>3, <2>2 DEF Swapped
      <3> QED BY <1>0, <3>1 DEF ContextInv
    <2> QED BY <2>1, <2>2
  <1>7. ASSUME NEW g \in Tasks, ctx'[g] # NULL
        PROVE  Settled(g)'
    <2>1. g # Target
      BY <1>5, <1>7
    <2>2. CASE g = TopSave
      <3>1. ctx'[g] = cpu
        BY <1>5, <2>1, <2>2
      <3>2. CASE Pending = 1
        <4>1. g = cpu
          BY <2>2, <3>2, NullIsNoTask DEF Yields, YieldsTwice, Quits
        <4> QED BY <1>3, <1>4, <3>1, <3>2, <4>1 DEF Settled
      <3>3. CASE Pending = 2
        <4>1. YieldsTwice
          BY <2>2, <3>3, NullIsNoTask DEF Yields, Quits
        <4>2. swaps[cpu][1].to = NULL /\ swaps[cpu][1].save # g
          BY <2>2, <4>1 DEF YieldsTwice
        <4>3. Len(swaps'[cpu]) = 1 /\ swaps'[cpu][1] = swaps[cpu][1]
          BY <1>3, <3>3
        <4> QED BY <1>4, <3>1, <4>2, <4>3 DEF Settled, Stale
      <3> QED BY <1>2, <3>2, <3>3
    <2>3. CASE g # TopSave
      <3>1. ctx'[g] = ctx[g] /\ ctx[g] # cpu /\ ctx[g] \in Tasks
        BY <1>0, <1>5, <1>7, <2>1, <2>3 DEF ContextInv, Settled, Places
      <3>2. ctx[g] # ctx[Target]
        BY <1>0, <1>1, <1>7, <2>1, <3>1 DEF ContextInv
      <3>3. swaps'[ctx[g]] = swaps[ctx[g]]
        BY <1>3, <3>1
      <3>4. (ctx[g] = g /\ Len(swaps[g]) = 0) \/ Stale(ctx[g], g)
        BY <1>0, <1>7, <3>1 DEF ContextInv, Settled
      <3>5. CASE ctx[g] = g
        BY <1>4, <3>1, <3>2, <3>3, <3>4, <3>5 DEF Settled, Stale
      <3>6. CASE Stale(ctx[g], g)
        BY <1>4, <3>1, <3>2, <3>3, <3>6 DEF Settled, Stale
      <3> QED BY <3>4, <3>5, <3>6
    <2> QED BY <2>2, <2>3
  <1>8. ASSUME NEW g \in Tasks, NEW h \in Tasks, ctx'[g] # NULL, ctx'[g] = ctx'[h] PROVE g = h
    <2>1. g # Target /\ h # Target
      BY <1>5, <1>8
    <2>2. \A t \in Tasks : ctx[t] # cpu
      BY <1>0, NullIsNoTask DEF ContextInv, Settled
    <2>3. CASE g = TopSave \/ h = TopSave
      BY <1>5, <2>1, <2>2, <2>3, <1>8
    <2>4. CASE g # TopSave /\ h # TopSave
      BY <1>0, <1>5, <1>8, <2>1, <2>4 DEF ContextInv
    <2> QED BY <2>3, <2>4
  <1>9. ContextInv'
    <2>1. cpu' \in Tasks
      BY <1>4
    <2> QED BY <1>3, <1>5, <1>6, <1>7, <1>8, <2>1 DEF ContextInv
  <1> QED BY <1>3, <1>4, <1>5, <1>9

LEMMA SwapLemma ==
    ASSUME LibInv, NEW f \in Tasks, Swap(f)
    PROVE  /\ LibInv' /\ running' = running /\ mishaps' = mishaps
           /\ \A t \in Tasks \ Known : Len(swaps[t]) = 0 =>
                 Len(swaps'[t]) = 0 /\ ctx'[t] = ctx[t]
           /\ fate' \in {fate, "null", "wild"} /\ (fate' # fate => mishaps # {})
  <1>0. QueueInv /\ ContextInv /\ ControlInv /\ CensusInv /\ HomeInv /\ cpu \in Tasks
    BY DEF LibInv, ContextInv
  <1>1. /\ cpu = f /\ Pending # 0 /\ ~Runs /\ mishaps' = mishaps
        /\ \/ Target = NULL /\ Stop("null")
           \/ Target # NULL /\ Saved[Target] = NULL /\ Stop("wild")
           \/ Target # NULL /\ Saved[Target] # NULL /\ Swapped
    BY SwapCases
  <1>2. Known \subseteq Tasks /\ NULL \notin Known
    BY <1>0, KnownTasks
  <1>3. ASSUME mishaps = {}
        PROVE  /\ Yields \/ Quits
               /\ Pending = 1 /\ Target # cpu
               /\ TopSave = cpu \/ (TopSave = NULL /\ cpu \notin Known)
               /\ ctx[Target] = Target /\ Len(swaps[Target]) = 0
               /\ Target # NULL /\ Saved[Target] # NULL
    <2>1. (Yields \/ Quits) /\ Pending = 1 /\ (TopSave = NULL => cpu \notin Known)
      BY <1>0, <1>1, <1>3 DEF HomeInv, Regular
    <2>2. Target \in Known /\ TopSave # Target /\ Saved[Target] = ctx[Target]
      BY <2>1, SwapGoes
    <2>3. TopSave = NULL \/ TopSave = cpu
      BY <2>1 DEF Yields, Quits
    <2>4. Target # cpu
      BY <2>1, <2>2, <2>3
    <2>5. ctx[Target] = Target /\ Len(swaps[Target]) = 0
      BY <1>0, <1>3, <2>2, <2>4 DEF HomeInv
    <2> QED BY <1>2, <2>1, <2>2, <2>3, <2>4, <2>5
  <1>4. CASE Stop("null") \/ Stop("wild")
    <2>1. PICK why \in {"null", "wild"} : Stop(why)
      BY <1>4
    <2>2. LibInv' /\ UNCHANGED schedVars /\ fate' = why
      BY <1>1, <2>1, StopKeeps
    <2>3. fate' # fate => mishaps # {}
      <3>1. CASE Target = NULL \/ Saved[Target] = NULL
        BY <1>3, <3>1
      <3>2. CASE Swapped
        BY <3>2 DEF Swapped
      <3> QED BY <1>1, <3>1, <3>2
    <2> QED BY <1>1, <2>2, <2>3 DEF schedVars
  <1>5. CASE Target # NULL /\ Saved[Target] # NULL /\ Swapped
    <2>1. ~Astray
      BY <1>0, <1>5 DEF Astray, Target, Saved, ContextInv, QueueInv
    <2>2. Yields \/ YieldsTwice \/ Quits
      BY <1>0, <1>1, <2>1 DEF ControlInv
    <2>3. /\ Target \in Known /\ Target \in Tasks /\ TopSave # Target
          /\ current \in {Target, NULL} /\ (queue # <<>> => TopTo = NULL)
          /\ Saved[Target] = ctx[Target]
      BY <2>2, SwapGoes
    <2>4. /\ ContextInv' /\ cpu' # cpu /\ cpu' = ctx[Target]
          /\ ctx' \in [Tasks -> Places] /\ ctx'[Target] = NULL
          /\ \A g \in Tasks : g # Target => ctx'[g] = IF g = TopSave THEN cpu ELSE ctx[g]
          /\ \A t \in Tasks : t # cpu => swaps'[t] = swaps[t]
          /\ Len(swaps'[cpu]) = Pending - 1
      BY <1>5, <2>2, SwappedContexts
    <2>5. UNCHANGED <<queue, current, count, running, fate, mishaps>> /\ Known' = Known
      BY <1>5 DEF Swapped, Known
    <2>6. QueueInv'
      <3>1. last' \subseteq Tasks /\ armed' \in BOOLEAN /\ (queue # <<>> => armed' = TRUE)
        BY <1>0, <1>5, <2>3 DEF Swapped, QueueInv
      <3> QED BY <1>0, <2>5, <3>1 DEF QueueInv
    <2>7. ctx[Target] # NULL /\ cpu' \in Tasks /\ swaps'[cpu'] = swaps[ctx[Target]]
      BY <1>5, <2>3, <2>4 DEF ContextInv
    <2>8. ASSUME ctx[Target] = Target /\ Len(swaps[Target]) = 0
          PROVE  ControlInv' /\ HomeInv'
      <3>1. Runs'
        BY <2>3, <2>4, <2>5, <2>7, <2>8 DEF Runs, Pending
      <3>2. HomeInv'
        <4> SUFFICES ASSUME mishaps = {}, NEW t \in Known, t # cpu'
                     PROVE  ctx'[t] = t /\ Len(swaps'[t]) = 0
          BY <2>5, <3>1 DEF HomeInv, Regular
        <4>1. Pending = 1 /\ (TopSave = cpu \/ (TopSave = NULL /\ cpu \notin Known))
          BY <1>3
        <4>2. t # Target /\ t \in Tasks
          BY <1>2, <2>4, <2>8
        <4>3. CASE t = cpu
          BY <2>4, <4>1, <4>2, <4>3
        <4>4. CASE t # cpu
          <5>1. ctx[t] = t /\ Len(swaps[t]) = 0
            BY <1>0, <4>4 DEF HomeInv
          <5>2. t # TopSave
            BY <1>2, <4>1, <4>4
          <5> QED BY <2>4, <4>2, <4>4, <5>1, <5>2
        <4> QED BY <4>3, <4>4
      <3> QED BY <3>1, <3>2 DEF ControlInv
    <2>9. ASSUME Stale(ctx[Target], Target) PROVE ControlInv' /\ HomeInv'
      <3>1. /\ Len(swaps'[cpu']) = 1 /\ swaps'[cpu'][1].to = NULL
            /\ swaps'[cpu'][1].save # Target
        BY <2>4, <2>7, <2>9 DEF Stale
      <3>2. Astray'
        BY <2>3, <2>4, <2>5, <3>1 DEF Astray, Pending, TopTo, TopSave
      <3>3. mishaps # {}
        <4> SUFFICES ASSUME mishaps = {} PROVE FALSE
          OBVIOUS
        <4>1. ctx[Target] = Target /\ Len(swaps[Target]) = 0
          BY <1>3
        <4> QED BY <2>9, <4>1 DEF Stale
      <3> QED BY <2>5, <3>2, <3>3 DEF ControlInv, HomeInv
    <2>10. ControlInv' /\ HomeInv'
      <3>1. Settled(Target)
        BY <1>0, <2>3, <2>7 DEF ContextInv
      <3> QED BY <2>8, <2>9, <3>1 DEF Settled
    <2>11. CensusInv'
      BY <1>0, <2>5 DEF CensusInv
    <2>12. ASSUME NEW t \in Tasks \ Known, Len(swaps[t]) = 0
           PROVE  Len(swaps'[t]) = 0 /\ ctx'[t] = ctx[t]
      <3>1. t # cpu
        BY <1>1, <2>12 DEF Pending
      <3>2. t # Target /\ t # TopSave
        BY <2>2, <2>3, <3>1, NullIsNoTask DEF Yields, YieldsTwice, Quits
      <3> QED BY <2>4, <2>12, <3>1, <3>2
    <2> QED BY <1>1, <2>4, <2>5, <2>6, <2>10, <2>11, <2>12 DEF LibInv
  <1> QED BY <1>1, <1>4, <1>5

(* kill_thread(): the thread that executes leaves the queue for good.      *)
LEMMA KillStep ==
    ASSUME LibInv, NEW t \in Threads, Executes(t), kill_thread(t)
    PROVE  /\ LibInv' /\ mishaps' = mishaps /\ ctx' = ctx
           /\ \A u \in Tasks \ Known : Len(swaps'[u]) = Len(swaps[u])
           /\ \/ fate' = "ok" /\ running' = running \ {t}
              \/ fate' = "null" /\ mishaps # {} /\ running' = running
  <1>0. QueueInv /\ ContextInv /\ ControlInv /\ CensusInv /\ HomeInv /\ t \in Tasks /\ t # Main
    BY NullIsNoTask DEF LibInv
  <1>1. /\ cpu = t /\ Len(swaps[t]) = 0 /\ Runs /\ t \in Known
        /\ queue # <<>> => current = t /\ Head(queue) = t /\ queue[1] = t
        /\ fate = "ok"
    BY <1>0, Executing
  <1>2. t \in running /\ IsFiniteSet(running) /\ count = Cardinality(running)
        /\ running \subseteq Threads
    BY <1>0, <1>1, ThreadsFinite DEF Known, QueueInv
  <1>3. queue \in Seq(Tasks) /\ Once(queue) /\ Members(queue) \subseteq Known
        /\ Known \subseteq Tasks /\ Len(queue) \in Nat
    BY <1>0, KnownTasks DEF QueueInv
  <1>4. CASE Len(queue) < 2
    <2>1. Stop("null") /\ mishaps' = mishaps
      BY <1>4 DEF kill_thread
    <2>2. LibInv' /\ UNCHANGED schedVars /\ fate' = "null"
      BY <2>1, StopKeeps
    <2>3. mishaps # {}
      <3> SUFFICES ASSUME mishaps = {} PROVE FALSE
        OBVIOUS
      <3>1. queue = <<>> => running = {}
        BY <1>0 DEF CensusInv
      <3>2. queue # <<>> => Len(queue) >= 2
        BY <1>0 DEF CensusInv
      <3> QED BY <1>2, <1>3, <1>4, <3>1, <3>2
    <2> QED BY <2>1, <2>2, <2>3 DEF schedVars
  <1>5. CASE ~(Len(queue) < 2)
    <2>1. /\ queue # <<>> /\ Len(queue) >= 2 /\ queue[1] = t /\ Head(queue) = t /\ current = t
          /\ queue[2] \in Known /\ queue[2] # t /\ queue[2] \in Tasks
      <3>1. queue # <<>> /\ Len(queue) >= 2
        BY <1>3, <1>5
      <3>2. queue[2] \in Members(queue)
        BY <1>3, <3>1 DEF Members
      <3>3. queue[2] # queue[1]
        BY <1>3, <3>1 DEF Once
      <3> QED BY <1>1, <1>3, <3>1, <3>2, <3>3
    <2>2. /\ count' = count - 1 /\ running' = running \ {t}
          /\ UNCHANGED <<ctx, cpu, armed, last, mishaps, fate>>
      BY <1>5, <2>1 DEF kill_thread
    <2>3. Known' = Known \ {t} /\ queue[2] \in Known'
      BY <1>0, <2>1, <2>2 DEF Known
    <2>4. Cardinality(running') = count' /\ count \in Nat /\ running' \subseteq Threads
      BY <1>2, <2>2, FS_RemoveElement, FS_CardinalityType
    <2>5. PICK to \in Places : SwapLater(cpu, NULL, to)
      BY <1>1, <1>5, <2>1, NullIsNoTask DEF kill_thread
    <2>6. ContextInv'
      <3>1. UNCHANGED <<ctx, cpu>> /\ mishaps \subseteq mishaps' /\ Len(swaps[cpu]) = 0
            /\ NULL \in Places
        BY <1>1, <2>2, NullIsNoTask
      <3> QED BY <1>0, <2>5, <3>1, ContextPushed, Zenon
    <2>7. \A u \in Tasks : u # cpu => swaps'[u] = swaps[u]
      BY <1>0, <2>5, Pushed, NullIsNoTask
    <2>8. CASE Len(queue) = 2
      <3>1. current' = NULL /\ queue' = <<>> /\ SwapLater(cpu, NULL, queue[2])
        BY <1>1, <1>5, <2>8 DEF kill_thread
      <3>2. /\ Len(swaps'[cpu]) = 1 /\ swaps'[cpu][1].save = NULL
            /\ swaps'[cpu][1].to = queue[2]
        BY <1>0, <1>1, <2>1, <3>1, Pushed, NullIsNoTask
      <3>3. QueueInv'
        <4>1. Once(<<>>) /\ Members(<<>>) = {} /\ <<>> \in Seq(Tasks)
          BY DEF Once, Members
        <4>2. Once(queue') /\ Members(queue') \subseteq Known' /\ queue' \in Seq(Tasks)
          BY <3>1, <4>1
        <4> QED BY <1>0, <2>2, <2>4, <3>1, <4>2, NullIsNoTask DEF QueueInv
      <3>4. Quits' /\ Pending' = 1
        BY <2>2, <2>3, <3>1, <3>2 DEF Quits, Pending, TopSave, TopTo
      <3>5. ASSUME "full" \notin mishaps' PROVE running' = {}
        <4>1. Len(queue) = count + 1
          BY <1>0, <2>1, <2>2, <3>5 DEF CensusInv
        <4>2. count + 1 = 2
          BY <2>8, <4>1, Zenon
        <4>3. count' = 0
          BY <2>2, <2>4, <4>2
        <4>4. IsFiniteSet(running')
          BY <2>4, ThreadsFinite
        <4> QED BY <2>4, <4>3, <4>4, FS_EmptySet
      <3>6. CensusInv'
        BY <3>1, <3>5 DEF CensusInv
      <3>7. HomeInv'
        <4> SUFFICES ASSUME mishaps' = {}
                     PROVE  /\ \A u \in Known' : u # cpu' => ctx'[u] = u /\ Len(swaps'[u]) = 0
                            /\ Regular'
          BY DEF HomeInv
        <4>1. mishaps = {} /\ cpu' = t /\ cpu' \notin Known' /\ Known' \subseteq Known
          BY <1>1, <2>2, <2>3
        <4>2. \A u \in Known : u # cpu => ctx[u] = u /\ Len(swaps[u]) = 0
          BY <1>0, <4>1 DEF HomeInv
        <4>3. ASSUME NEW u \in Known' PROVE ctx'[u] = u /\ Len(swaps'[u]) = 0
          <5>1. u \in Known /\ u # cpu /\ u \in Tasks
            BY <1>3, <1>1, <4>1, <4>3
          <5>2. ctx[u] = u /\ Len(swaps[u]) = 0 /\ swaps'[u] = swaps[u] /\ ctx'[u] = ctx[u]
            BY <2>2, <2>7, <4>2, <5>1
          <5> QED BY <5>2
        <4>4. Regular'
          BY <3>4, <4>1 DEF Regular
        <4> QED BY <4>3, <4>4
      <3>8. LibInv'
        BY <2>6, <3>3, <3>4, <3>6, <3>7 DEF LibInv, ControlInv
      <3> QED BY <1>1, <2>2, <2>7, <3>8
    <2>9. CASE Len(queue) # 2
      <3>1. current' = queue[2] /\ queue' = Tail(queue) /\ SwapLater(cpu, NULL, NULL)
        BY <1>1, <1>5, <2>9 DEF kill_thread
      <3>2. /\ Len(swaps'[cpu]) = 1 /\ swaps'[cpu][1].save = NULL
            /\ swaps'[cpu][1].to = NULL
        BY <1>0, <1>1, <2>1, <3>1, Pushed, NullIsNoTask
      <3>3. /\ queue' \in Seq(Tasks) /\ Once(queue') /\ Len(queue') = Len(queue) - 1
            /\ queue'[1] = queue[2] /\ Members(queue') = Members(queue) \ {t}
        <4>1. /\ Tail(queue) \in Seq(Tasks) /\ Once(Tail(queue))
              /\ Len(Tail(queue)) = Len(queue) - 1 /\ Tail(queue)[1] = queue[2]
              /\ Members(Tail(queue)) = Members(queue) \ {queue[1]}
          BY <1>3, <2>1, TailLemma
        <4> QED BY <2>1, <3>1, <4>1
      <3>4. QueueInv'
        BY <1>0, <1>3, <2>1, <2>2, <2>3, <2>4, <3>1, <3>3, NullIsNoTask DEF QueueInv
      <3>5. Yields' /\ Pending' = 1 /\ TopSave' = NULL
        <4>1. queue[2] # NULL
          BY <2>1, NullIsNoTask
        <4> QED BY <2>2, <2>3, <3>1, <3>2, <4>1 DEF Yields, Pending, TopSave, TopTo
      <3>6. CensusInv'
        <4>1. Len(queue) >= 3
          <5>1. \A n \in Nat : n >= 2 /\ n # 2 => n >= 3
            OBVIOUS
          <5> QED BY <1>3, <2>1, <2>9, <5>1, Zenon
        <4>2. queue' # <<>>
          <5>1. Len(queue') # 0
            BY <1>3, <2>1, <3>3, <4>1
          <5> QED BY <5>1
        <4>3. "full" \notin mishaps' =>
                 Known' \subseteq Members(queue') /\ Len(queue') = count' + 1 /\ Len(queue') >= 2
          BY <1>0, <1>3, <2>1, <2>2, <2>3, <2>4, <3>3, <4>1 DEF CensusInv
        <4> QED BY <4>2, <4>3 DEF CensusInv
      <3>7. HomeInv'
        <4> SUFFICES ASSUME mishaps' = {}
                     PROVE  /\ \A u \in Known' : u # cpu' => ctx'[u] = u /\ Len(swaps'[u]) = 0
                            /\ Regular'
          BY DEF HomeInv
        <4>1. mishaps = {} /\ cpu' = t /\ cpu' \notin Known' /\ Known' \subseteq Known
          BY <1>1, <2>2, <2>3
        <4>2. \A u \in Known : u # cpu => ctx[u] = u /\ Len(swaps[u]) = 0
          BY <1>0, <4>1 DEF HomeInv
        <4>3. ASSUME NEW u \in Known' PROVE ctx'[u] = u /\ Len(swaps'[u]) = 0
          <5>1. u \in Known /\ u # cpu /\ u \in Tasks
            BY <1>3, <1>1, <4>1, <4>3
          <5>2. ctx[u] = u /\ Len(swaps[u]) = 0 /\ swaps'[u] = swaps[u] /\ ctx'[u] = ctx[u]
            BY <2>2, <2>7, <4>2, <5>1
          <5> QED BY <5>2
        <4>4. Regular'
          BY <3>5, <4>1 DEF Regular
        <4> QED BY <4>3, <4>4
      <3>8. LibInv'
        BY <2>6, <3>4, <3>5, <3>6, <3>7 DEF LibInv, ControlInv
      <3> QED BY <1>1, <2>2, <2>7, <3>8
    <2> QED BY <2>8, <2>9
  <1> QED BY <1>4, <1>5

(* add_to_queue of a new task by main.                                     *)
LEMMA AddStep ==
    ASSUME LibInv, NEW t \in Threads, t \notin running, ctx[t] = t, Len(swaps[t]) = 0,
           Executes(Main), AddNew(t)
    PROVE  /\ LibInv' /\ mishaps' = mishaps /\ ctx' = ctx /\ swaps' = swaps
           /\ \/ fate' = "ok" /\ running' = running \cup {t}
              \/ fate' = "refused" /\ running' = running
  <1>0. /\ QueueInv /\ ContextInv /\ ControlInv /\ CensusInv /\ HomeInv
        /\ t # Main /\ t \in Tasks /\ Main \in Tasks
    BY NullIsNoTask DEF LibInv
  <1>1. /\ cpu = Main /\ Len(swaps[cpu]) = 0 /\ Runs /\ fate = "ok"
        /\ queue # <<>> => current = Main /\ queue[1] = Main
    BY <1>0, Executing
  <1>2. CASE queue # <<>> /\ count = MAX_THREAD
    <2>1. Stop("refused") /\ mishaps' = mishaps
      BY <1>2 DEF AddNew
    <2>2. LibInv' /\ UNCHANGED schedVars /\ fate' = "refused"
      BY <2>1, StopKeeps
    <2> QED BY <2>1, <2>2 DEF schedVars
  <1>3. CASE ~(queue # <<>> /\ count = MAX_THREAD)
    <2>1. /\ count' = count + 1 /\ running' = running \cup {t}
          /\ UNCHANGED <<ctx, cpu, swaps, mishaps, fate>>
      BY <1>3, Zenon DEF AddNew
    <2>2. /\ running \subseteq Threads /\ IsFiniteSet(running)
          /\ count = Cardinality(running) /\ count \in Nat
      BY <1>0, ThreadsFinite, FS_CardinalityType DEF QueueInv
    <2>3. count' = Cardinality(running') /\ running' \subseteq Threads
      BY <2>1, <2>2, FS_AddElement
    <2>4. Known' = Known \cup {t} /\ t \notin Known
      BY <1>0, <2>1 DEF Known
    <2>5. ContextInv'
      <3>1. \A g \in Tasks : Settled(g)' <=> Settled(g)
        BY <2>1 DEF Settled, Stale
      <3> QED BY <1>0, <2>1, <3>1 DEF ContextInv
    <2>6. /\ queue' \in Seq(Tasks) /\ Once(queue') /\ Members(queue') = {Main, t} \cup Members(queue)
          /\ current' = Main /\ queue'[1] = Main /\ armed' = TRUE /\ queue' # <<>>
          /\ Len(queue') = IF queue = <<>> THEN 2 ELSE Len(queue) + 1
          /\ last' \subseteq Tasks
      <3>1. CASE queue = <<>>
        <4>1. queue' = <<Main, t>> /\ current' = Main /\ armed' = TRUE /\ last' = {}
          BY <3>1, Zenon DEF AddNew
        <4>2. /\ queue' \in Seq(Tasks) /\ Len(queue') = 2 /\ queue'[1] = Main /\ queue'[2] = t
              /\ queue' # <<>>
          BY <1>0, <4>1
        <4>3. Once(queue') /\ Members(queue') = {Main, t}
          BY <1>0, <4>2 DEF Once, Members
        <4>4. Members(queue) = {}
          BY <3>1 DEF Members
        <4> QED BY <3>1, <4>1, <4>2, <4>3, <4>4
      <3>2. CASE queue # <<>>
        <4>1. queue' = Append(queue, t) /\ UNCHANGED <<current, armed, last>>
          BY <1>3, <3>2, Zenon DEF AddNew
        <4>2. /\ queue \in Seq(Tasks) /\ Once(queue) /\ Members(queue) \subseteq Known
              /\ armed = TRUE /\ last \subseteq Tasks /\ t \notin Members(queue)
          BY <1>0, <2>4, <3>2 DEF QueueInv
        <4>3. /\ queue' \in Seq(Tasks) /\ Once(queue') /\ Len(queue') = Len(queue) + 1
              /\ queue'[1] = queue[1] /\ Members(queue') = Members(queue) \cup {t}
          BY <1>0, <3>2, <4>1, <4>2, AppendLemma
        <4>4. queue' # <<>>
          BY <4>1, <4>2
        <4>5. Main \in Members(queue)
          <5>1. Len(queue) >= 1
            BY <3>2, <4>2
          <5> QED BY <1>1, <3>2, <4>2, <5>1 DEF Members
        <4> QED BY <1>1, <3>2, <4>1, <4>2, <4>3, <4>4, <4>5
      <3> QED BY <3>1, <3>2
    <2>7. QueueInv'
      <3>1. Members(queue') \subseteq Known'
        BY <1>0, <2>4, <2>6 DEF QueueInv, Known
      <3> QED BY <2>1, <2>3, <2>6, <3>1, NullIsNoTask DEF QueueInv
    <2>8. Runs'
      BY <1>0, <1>1, <2>1, <2>4, <2>6 DEF Runs, Pending
    <2>9. CensusInv'
      <3> SUFFICES ASSUME "full" \notin mishaps
                   PROVE  Known' \subseteq Members(queue') /\ Len(queue') = count' + 1
                          /\ Len(queue') >= 2
        BY <2>1, <2>6 DEF CensusInv
      <3>1. CASE queue = <<>>
        <4>1. running = {} /\ count = 0
          BY <1>0, <2>2, <3>1, FS_EmptySet DEF CensusInv
        <4> QED BY <2>1, <2>4, <2>6, <3>1, <4>1 DEF Known
      <3>2. CASE queue # <<>>
        <4>1. Known \subseteq Members(queue) /\ Len(queue) = count + 1 /\ Len(queue) >= 2
          BY <1>0, <3>2 DEF CensusInv
        <4> QED BY <2>1, <2>2, <2>4, <2>6, <3>2, <4>1
      <3> QED BY <3>1, <3>2
    <2>10. HomeInv'
      BY <1>0, <1>1, <2>1, <2>4, <2>8 DEF HomeInv, Regular
    <2> QED BY <1>1, <2>1, <2>5, <2>7, <2>8, <2>9, <2>10 DEF LibInv, ControlInv
  <1> QED BY <1>2, <1>3

(* The context of a task that nobody knows yet.                            *)
LEMMA MakeStep ==
    ASSUME LibInv, NEW t \in Threads, t \notin running, Len(swaps[t]) = 0,
           Executes(Main), MakeContexts(t)
    PROVE  LibInv' /\ ctx'[t] = t /\ UNCHANGED <<running, swaps, mishaps, fate>>
  <1>0. /\ QueueInv /\ ContextInv /\ ControlInv /\ CensusInv /\ HomeInv
        /\ t # Main /\ t \in Tasks /\ Main \in Tasks
    BY NullIsNoTask DEF LibInv
  <1>1. cpu = Main /\ Len(swaps[cpu]) = 0 /\ Runs
    BY <1>0, Executing
  <1>2. /\ ctx' = [ctx EXCEPT ![t] = t] /\ last' = {}
        /\ UNCHANGED <<queue, current, count, running, cpu, swaps, armed, mishaps, fate>>
    BY DEF MakeContexts
  <1>3. /\ ctx' \in [Tasks -> Places] /\ ctx'[t] = t
        /\ \A g \in Tasks : g # t => ctx'[g] = ctx[g]
    BY <1>0, <1>2, NullIsNoTask DEF ContextInv
  <1>4. ASSUME NEW g \in Tasks, g # t PROVE ctx[g] # t
    <2> SUFFICES ASSUME ctx[g] = t PROVE FALSE
      OBVIOUS
    <2>1. Settled(g)
      BY <1>0, NullIsNoTask DEF ContextInv
    <2>2. Stale(t, g)
      BY <1>4, <2>1 DEF Settled
    <2> QED BY <2>2 DEF Stale
  <1>5. ASSUME NEW g \in Tasks, ctx'[g] # NULL PROVE Settled(g)'
    <2>1. CASE g = t
      BY <1>0, <1>1, <1>2, <1>3, <2>1 DEF Settled
    <2>2. CASE g # t
      <3>1. Settled(g) /\ ctx'[g] = ctx[g]
        BY <1>0, <1>3, <1>5, <2>2 DEF ContextInv
      <3> QED BY <1>2, <3>1 DEF Settled, Stale
    <2> QED BY <2>1, <2>2
  <1>6. \A g, h \in Tasks : ctx'[g] # NULL /\ ctx'[g] = ctx'[h] => g = h
    BY <1>0, <1>3, <1>4 DEF ContextInv
  <1>7. ContextInv'
    BY <1>0, <1>2, <1>3, <1>5, <1>6 DEF ContextInv
  <1>8. QueueInv' /\ Known' = Known
    BY <1>0, <1>2 DEF QueueInv, Known
  <1>9. Runs'
    BY <1>1, <1>2 DEF Runs, Pending, Known
  <1>10. CensusInv'
    BY <1>0, <1>2, <1>8 DEF CensusInv
  <1>11. HomeInv'
    <2>1. t \notin Known /\ Known \subseteq Tasks
      BY <1>0, KnownTasks DEF Known
    <2> QED BY <1>0, <1>2, <1>3, <1>8, <1>9, <2>1 DEF HomeInv, Regular
  <1> QED BY <1>2, <1>3, <1>7, <1>8, <1>9, <1>10, <1>11 DEF LibInv, ControlInv

-----------------------------------------------------------------------------
(* The application: what a step of one flow leaves as it is.               *)
Waiting == {"spin", "load", "store", "unlock"}

(* Tasks that are not in use are left alone.                               *)
OthersStay ==
    \A u \in Tasks \ Known : Len(swaps[u]) = 0 => Len(swaps'[u]) = 0 /\ ctx'[u] = ctx[u]

LEMMA LibSame ==
    ASSUME LibInv, UNCHANGED libVars
    PROVE  LibInv' /\ OthersStay /\ running' = running /\ fate' = fate /\ mishaps' = mishaps
  <1>1. /\ UNCHANGED <<queue, current, count, running, ctx, cpu, swaps, armed, last>>
        /\ fate' = fate /\ mishaps' = mishaps
    BY DEF libVars, schedVars
  <1>2. last' \subseteq Tasks
    BY <1>1 DEF LibInv, QueueInv
  <1> QED BY <1>1, <1>2, LibKept DEF OthersStay

LEMMA EndKept ==
    ASSUME EndInv, MAX_THREAD' = MAX_THREAD, mishaps' \subseteq mishaps \cup {"late", "full"},
           fate' \in {fate, "ok", "null", "wild", "bare", "refused"}
    PROVE  EndInv'
  BY DEF EndInv

LEMMA PlaceFacts ==
    ASSUME PlaceTypes, PlaceInv
    PROVE  /\ Created \subseteq Threads /\ running \subseteq Created
           /\ \A u \in Threads \ Created : u \in Tasks \ Known /\ Len(swaps[u]) = 0
           /\ pc[Main] \in Creating => k \in Threads \ Created
           /\ running # {} => pc[Main] \notin {"print", "end"}
  <1>1. Created \subseteq Threads
    BY SthreadAssumption DEF Created, PlaceTypes, Threads
  <1>2. running \subseteq Created /\ running = {t \in Created : pc[t] # "dead"}
    BY DEF PlaceInv
  <1>3. \A u \in Threads \ Created : u \in Tasks \ Known /\ Len(swaps[u]) = 0
    BY <1>2, NullIsNoTask DEF PlaceInv, Known
  <1>4. ASSUME pc[Main] \in Creating PROVE k \in Threads \ Created
    <2>1. k \in 0 .. NThreads /\ k < NThreads /\ Created = 0 .. k - 1
      BY <1>4 DEF PlaceInv, PlaceTypes, Creating, Created
    <2> QED BY <2>1, SthreadAssumption DEF Threads
  <1>5. ASSUME running # {} PROVE pc[Main] \notin {"print", "end"}
    BY <1>1, <1>2, <1>5 DEF PlaceTypes
  <1> QED BY <1>1, <1>2, <1>3, <1>4, <1>5

LEMMA ThreadMoves ==
    ASSUME Inv, NEW t \in Threads, NEW from, NEW to \in ThreadPlaces, Go(t, from, to), k' = k
    PROVE  /\ LibInv /\ PlaceTypes /\ PlaceInv /\ WaitInv /\ SumInv /\ EndInv
           /\ Executes(t) /\ current \in {t, NULL} /\ t \in running /\ t \in Tasks
           /\ fate = "ok" /\ pc[t] = from /\ pc' = [pc EXCEPT ![t] = to] /\ pc'[t] = to
           /\ \A u \in Threads : u # t => pc'[u] = pc[u]
           /\ PlaceTypes' /\ MAX_THREAD' = MAX_THREAD
  <1>1. /\ Executes(t) /\ pc[t] = from /\ pc' = [pc EXCEPT ![t] = to] /\ MAX_THREAD' = MAX_THREAD
        /\ fate = "ok"
    BY DEF Go, Executes
  <1>2. LibInv /\ PlaceTypes /\ PlaceInv /\ WaitInv /\ SumInv /\ EndInv
    BY <1>1 DEF Inv
  <1>3. t \in Tasks /\ t # Main /\ Main \in Tasks
    BY NullIsNoTask
  <1>4. t \in running /\ current \in {t, NULL}
    BY <1>1, <1>2, <1>3, Executing DEF Known
  <1>5. /\ pc'[t] = to /\ pc'[Main] = pc[Main] /\ \A u \in Threads : u # t => pc'[u] = pc[u]
        /\ pc' \in [Tasks -> ThreadPlaces \cup MainPlaces]
    BY <1>1, <1>2, <1>3, NullIsNoTask DEF PlaceTypes
  <1>6. pc'[Main] \notin {"print", "end"}
    BY <1>2, <1>4, <1>5, PlaceFacts
  <1>7. PlaceTypes'
    BY <1>2, <1>5, <1>6 DEF PlaceTypes
  <1> QED BY <1>1, <1>2, <1>3, <1>4, <1>5, <1>7

LEMMA PlaceMoved ==
    ASSUME PlaceTypes, PlaceInv, NEW t \in running, NEW to \in ThreadPlaces,
           pc' = [pc EXCEPT ![t] = to], k' = k, OthersStay,
           running' = IF to = "dead" THEN running \ {t} ELSE running
    PROVE  PlaceInv'
  <1>1. /\ t \in Created /\ t \in Threads /\ t # Main /\ t \in Tasks /\ Created \subseteq Threads
        /\ Threads \subseteq Tasks
    BY PlaceFacts, NullIsNoTask
  <1>2. /\ pc'[Main] = pc[Main] /\ pc'[t] = to /\ Created' = Created
        /\ \A u \in Threads : u # t => pc'[u] = pc[u]
    BY <1>1, NullIsNoTask DEF PlaceTypes, Created
  <1>3. running' = {u \in Created' : pc'[u] # "dead"}
    <2>1. running = {u \in Created : pc[u] # "dead"}
      BY DEF PlaceInv
    <2> QED BY <2>1, <1>1, <1>2
  <1>4. \A u \in Threads \ Created' : pc'[u] = "lock" /\ Len(swaps'[u]) = 0
    <2> SUFFICES ASSUME NEW u \in Threads \ Created
                 PROVE  pc'[u] = "lock" /\ Len(swaps'[u]) = 0
      BY <1>2
    <2>1. u \in Tasks \ Known /\ Len(swaps[u]) = 0
      BY PlaceFacts
    <2>2. u # t /\ pc[u] = "lock"
      BY <1>1 DEF PlaceInv
    <2> QED BY <1>2, <2>1, <2>2 DEF OthersStay
  <1>5. pc'[Main] = "made" => ctx'[k'] = k'
    <2> SUFFICES ASSUME pc[Main] = "made" PROVE ctx'[k] = k
      BY <1>2
    <2>1. k \in Threads \ Created
      BY PlaceFacts DEF Creating
    <2>2. k \in Tasks \ Known /\ Len(swaps[k]) = 0
      BY <2>1, PlaceFacts
    <2> QED BY <2>2 DEF OthersStay, PlaceInv
  <1>6. running' \subseteq running
    OBVIOUS
  <1>7. /\ pc'[Main] \notin {"print", "end"} => k' < NThreads
        /\ pc'[Main] \in {"wait", "yield"} => \A u \in running' : k' <= u
    BY <1>2, <1>6 DEF PlaceInv
  <1> QED BY <1>3, <1>4, <1>5, <1>7 DEF PlaceInv

LEMMA WaitKept ==
    ASSUME WaitInv, UNCHANGED mutexVars,
           \A t \in Threads : pc'[t] \in Waiting <=> pc[t] \in Waiting,
           \A t \in Threads : pc'[t] \in {"load", "store", "unlock"} => owner = t
    PROVE  WaitInv'
  <1>1. {t \in Threads : pc'[t] \in Waiting} = {t \in Threads : pc[t] \in Waiting}
    OBVIOUS
  <1> QED BY <1>1 DEF WaitInv, mutexVars, Waiting, Inside

LEMMA SumKept ==
    ASSUME SumInv, UNCHANGED <<global_sum, reg>>,
           \A t \in Threads : /\ pc'[t] \in {"unlock", "return", "kill", "dead"}
                                  <=> pc[t] \in {"unlock", "return", "kill", "dead"}
                              /\ pc'[t] = "store" => pc[t] = "store"
    PROVE  SumInv'
  <1>1. Stored' = Stored
    BY DEF Stored
  <1> QED BY <1>1 DEF SumInv

(* A step in which no thread moves.                                        *)
LEMMA ThreadsStay ==
    ASSUME WaitInv, SumInv, UNCHANGED <<mutexVars, global_sum, reg>>,
           \A t \in Threads : pc'[t] = pc[t]
    PROVE  WaitInv' /\ SumInv'
  <1>1. \A t \in Threads : pc[t] \in {"load", "store", "unlock"} => owner = t
    BY DEF WaitInv, Inside
  <1>2. WaitInv'
    BY <1>1, WaitKept
  <1>3. SumInv'
    BY SumKept
  <1> QED BY <1>2, <1>3

(* A step of the library alone.                                            *)
LEMMA AppKept ==
    ASSUME PlaceTypes, WaitInv, SumInv, UNCHANGED <<mutexVars, appVars>>
    PROVE  /\ PlaceTypes' /\ WaitInv' /\ SumInv' /\ MAX_THREAD' = MAX_THREAD
           /\ PlaceInv /\ OthersStay /\ running' = running => PlaceInv'
  <1>1. UNCHANGED <<pc, k, global_sum, reg>> /\ MAX_THREAD' = MAX_THREAD
    BY DEF appVars
  <1>2. PlaceTypes' /\ Created' = Created
    BY <1>1 DEF PlaceTypes, Created
  <1>3. WaitInv' /\ SumInv'
    BY <1>1, ThreadsStay
  <1>4. ASSUME PlaceInv, OthersStay, running' = running PROVE PlaceInv'
    <2>1. \A u \in Threads \ Created : pc[u] = "lock" /\ Len(swaps'[u]) = 0
      <3> SUFFICES ASSUME NEW u \in Threads \ Created PROVE pc[u] = "lock" /\ Len(swaps'[u]) = 0
        OBVIOUS
      <3>1. u \in Tasks \ Known /\ Len(swaps[u]) = 0
        BY <1>4, PlaceFacts
      <3> QED BY <1>4, <3>1 DEF OthersStay, PlaceInv
    <2>2. pc[Main] = "made" => ctx'[k] = k
      <3> SUFFICES ASSUME pc[Main] = "made" PROVE ctx'[k] = k
        OBVIOUS
      <3>1. k \in Tasks \ Known /\ Len(swaps[k]) = 0
        <4>1. k \in Threads \ Created
          BY <1>4, PlaceFacts DEF Creating
        <4> QED BY <1>4, <4>1, PlaceFacts
      <3> QED BY <1>4, <3>1 DEF OthersStay, PlaceInv
    <2> QED BY <1>1, <1>2, <1>4, <2>1, <2>2 DEF PlaceInv
  <1> QED BY <1>1, <1>2, <1>3, <1>4
-----------------------------------------------------------------------------
(* Main.                                                                   *)
LEMMA MainMoves ==
    ASSUME Inv, NEW from, NEW to \in MainPlaces, Go(Main, from, to)
    PROVE  /\ LibInv /\ PlaceTypes /\ PlaceInv /\ WaitInv /\ SumInv /\ EndInv
           /\ Executes(Main) /\ fate = "ok" /\ MAX_THREAD' = MAX_THREAD /\ Main \in Tasks
           /\ pc[Main] = from /\ pc'[Main] = to /\ \A t \in Threads : pc'[t] = pc[t]
           /\ pc' \in [Tasks -> ThreadPlaces \cup MainPlaces]
           /\ \A t \in Threads : pc'[t] \in ThreadPlaces
  <1>1. /\ Executes(Main) /\ fate = "ok" /\ pc[Main] = from /\ pc' = [pc EXCEPT ![Main] = to]
        /\ MAX_THREAD' = MAX_THREAD
    BY DEF Go, Executes
  <1>2. LibInv /\ PlaceTypes /\ PlaceInv /\ WaitInv /\ SumInv /\ EndInv
    BY <1>1 DEF Inv
  <1>3. pc'[Main] = to /\ \A t \in Threads : pc'[t] = pc[t]
    BY <1>1, <1>2, NullIsNoTask DEF PlaceTypes
  <1>4. pc' \in [Tasks -> ThreadPlaces \cup MainPlaces]
    BY <1>1, <1>2 DEF PlaceTypes
  <1> QED BY <1>1, <1>2, <1>3, <1>4, NullIsNoTask DEF PlaceTypes

LEMMA CreateBeginStep == Inv /\ CreateBegin => Inv'
  <1> SUFFICES ASSUME Inv, CreateBegin PROVE Inv'
    OBVIOUS
  <1>1. /\ Go(Main, "create", "torn") /\ SaveLast(Main)
        /\ UNCHANGED <<mutexVars, k, global_sum, reg>>
    BY DEF CreateBegin
  <1>2. "torn" \in MainPlaces
    BY DEF MainPlaces
  <1>3. /\ LibInv /\ PlaceTypes /\ PlaceInv /\ WaitInv /\ SumInv /\ EndInv
        /\ fate = "ok" /\ MAX_THREAD' = MAX_THREAD /\ Main \in Tasks
        /\ pc[Main] = "create" /\ pc'[Main] = "torn" /\ \A t \in Threads : pc'[t] = pc[t]
        /\ pc' \in [Tasks -> ThreadPlaces \cup MainPlaces]
        /\ \A t \in Threads : pc'[t] \in ThreadPlaces
    BY <1>1, <1>2, MainMoves
  <1>4. /\ last' \subseteq Tasks /\ fate' = fate
        /\ UNCHANGED <<queue, current, count, running, ctx, cpu, swaps, armed, mishaps>>
    BY <1>1, <1>3 DEF SaveLast
  <1>5. LibInv' /\ WaitInv' /\ SumInv' /\ EndInv'
    BY <1>1, <1>3, <1>4, LibKept, ThreadsStay, EndKept
  <1>6. PlaceTypes'
    BY <1>1, <1>2, <1>3 DEF PlaceTypes
  <1>7. Created' = Created /\ PlaceInv'
    <2>1. Created' = Created
      BY <1>1, <1>3 DEF Created, Creating
    <2>2. \A t \in Threads \ Created : pc[t] = "lock" /\ Len(swaps[t]) = 0
      BY <1>3 DEF PlaceInv
    <2>3. \A t \in Threads \ Created' : pc'[t] = "lock" /\ Len(swaps'[t]) = 0
      BY <1>3, <1>4, <2>1, <2>2
    <2>4. running' = {t \in Created' : pc'[t] # "dead"}
      <3>1. Created \subseteq Threads /\ running = {t \in Created : pc[t] # "dead"}
        BY <1>3, PlaceFacts DEF PlaceInv
      <3> QED BY <1>3, <1>4, <2>1, <3>1
    <2>5. k' < NThreads
      BY <1>1, <1>3 DEF PlaceInv
    <2> QED BY <1>3, <2>1, <2>3, <2>4, <2>5 DEF PlaceInv
  <1> QED BY <1>5, <1>6, <1>7 DEF Inv

LEMMA CreateContextStep == Inv /\ CreateContext => Inv'
  <1> SUFFICES ASSUME Inv, CreateContext PROVE Inv'
    OBVIOUS
  <1>1. /\ Go(Main, "torn", "made") /\ MakeContexts(k)
        /\ UNCHANGED <<mutexVars, k, global_sum, reg>>
    BY DEF CreateContext
  <1>2. "made" \in MainPlaces
    BY DEF MainPlaces
  <1>3. /\ LibInv /\ PlaceTypes /\ PlaceInv /\ WaitInv /\ SumInv /\ EndInv /\ Executes(Main)
        /\ fate = "ok" /\ MAX_THREAD' = MAX_THREAD /\ Main \in Tasks
        /\ pc[Main] = "torn" /\ pc'[Main] = "made" /\ \A t \in Threads : pc'[t] = pc[t]
        /\ pc' \in [Tasks -> ThreadPlaces \cup MainPlaces]
        /\ \A t \in Threads : pc'[t] \in ThreadPlaces
    BY <1>1, <1>2, MainMoves
  <1>4. k \in Threads /\ k \notin running /\ Len(swaps[k]) = 0
    <2>1. k \in Threads \ Created /\ running \subseteq Created
      BY <1>3, PlaceFacts DEF Creating
    <2> QED BY <1>3, <2>1 DEF PlaceInv
  <1>5. LibInv' /\ ctx'[k] = k /\ UNCHANGED <<running, swaps, mishaps, fate>>
    BY <1>1, <1>3, <1>4, MakeStep
  <1>6. WaitInv' /\ SumInv' /\ EndInv'
    BY <1>1, <1>3, <1>5, ThreadsStay, EndKept
  <1>7. PlaceTypes'
    BY <1>1, <1>2, <1>3 DEF PlaceTypes
  <1>8. PlaceInv'
    <2>1. Created' = Created
      BY <1>1, <1>3 DEF Created, Creating
    <2>2. \A t \in Threads \ Created : pc[t] = "lock" /\ Len(swaps[t]) = 0
      BY <1>3 DEF PlaceInv
    <2>3. \A t \in Threads \ Created' : pc'[t] = "lock" /\ Len(swaps'[t]) = 0
      BY <1>3, <1>5, <2>1, <2>2
    <2>4. running' = {t \in Created' : pc'[t] # "dead"}
      <3>1. Created \subseteq Threads /\ running = {t \in Created : pc[t] # "dead"}
        BY <1>3, PlaceFacts DEF PlaceInv
      <3> QED BY <1>3, <1>5, <2>1, <3>1
    <2>5. k' < NThreads /\ ctx'[k'] = k'
      BY <1>1, <1>3, <1>5 DEF PlaceInv
    <2> QED BY <1>3, <2>1, <2>3, <2>4, <2>5 DEF PlaceInv
  <1> QED BY <1>5, <1>6, <1>7, <1>8 DEF Inv

LEMMA CreateStep == Inv /\ Create => Inv'
  <1> SUFFICES ASSUME Inv, Create PROVE Inv'
    OBVIOUS
  <1> DEFINE final == k = NThreads - 1
             to == IF final THEN "wait" ELSE "create"
  <1>1. /\ AddNew(k) /\ Go(Main, "made", to)
        /\ k' = (k + 1) % NThreads /\ UNCHANGED <<mutexVars, global_sum, reg>>
    BY DEF Create
  <1>2. to \in MainPlaces /\ to \in {"wait", "create"}
    BY DEF MainPlaces
  <1>3. /\ LibInv /\ PlaceTypes /\ PlaceInv /\ WaitInv /\ SumInv /\ EndInv /\ Executes(Main)
        /\ fate = "ok" /\ MAX_THREAD' = MAX_THREAD /\ Main \in Tasks
        /\ pc[Main] = "made" /\ pc'[Main] = to /\ \A t \in Threads : pc'[t] = pc[t]
        /\ pc' \in [Tasks -> ThreadPlaces \cup MainPlaces]
        /\ \A t \in Threads : pc'[t] \in ThreadPlaces
    <2> HIDE DEF to
    <2> QED BY <1>1, <1>2, MainMoves
  <1>4. /\ k \in Threads /\ k \notin running /\ Len(swaps[k]) = 0 /\ ctx[k] = k
        /\ Created = 0 .. k - 1 /\ k \notin Created /\ pc[k] = "lock"
        /\ Created \subseteq Threads
    <2>1. k \in Threads \ Created /\ running \subseteq Created /\ Created \subseteq Threads
      BY <1>3, PlaceFacts DEF Creating
    <2> QED BY <1>3, <2>1 DEF PlaceInv, Created, Creating
  <1>5. /\ LibInv' /\ mishaps' = mishaps /\ ctx' = ctx /\ swaps' = swaps
        /\ \/ fate' = "ok" /\ running' = running \cup {k}
           \/ fate' = "refused" /\ running' = running
    BY <1>1, <1>3, <1>4, AddStep
  <1>6. WaitInv' /\ SumInv' /\ EndInv'
    BY <1>1, <1>3, <1>5, ThreadsStay, EndKept
  <1>7. k' = IF final THEN 0 ELSE k + 1
    BY <1>1, <1>4, SthreadAssumption DEF Threads
  <1>8. k' \in 0 .. NThreads /\ k' < NThreads /\ (final => k' = 0)
    BY <1>4, <1>7, SthreadAssumption DEF Threads
  <1>9. PlaceTypes'
    <2>1. pc'[Main] \in MainPlaces /\ pc'[Main] \notin {"print", "end"}
      BY <1>2, <1>3
    <2> QED BY <1>3, <1>8, <2>1 DEF PlaceTypes
  <1>10. ASSUME fate' = "ok" PROVE PlaceInv'
    <2>1. running' = running \cup {k}
      BY <1>5, <1>10
    <2>2. Created' = Created \cup {k}
      BY <1>3, <1>4, <1>7, SthreadAssumption DEF Created, Creating, Threads
    <2>3. running' = {t \in Created' : pc'[t] # "dead"}
      <3>1. running = {t \in Created : pc[t] # "dead"}
        BY <1>3 DEF PlaceInv
      <3>2. \A t \in Created : pc'[t] = pc[t]
        BY <1>3, <1>4
      <3>3. pc'[k] # "dead"
        BY <1>3, <1>4
      <3> QED BY <2>1, <2>2, <3>1, <3>2, <3>3
    <2>4. \A t \in Threads \ Created' : pc'[t] = "lock" /\ Len(swaps'[t]) = 0
      BY <1>3, <1>5, <2>2 DEF PlaceInv
    <2>5. pc'[Main] \in {"wait", "yield"} => \A t \in running' : k' <= t
      BY <1>3, <1>4, <1>8, <2>1, <2>3, <2>2, SthreadAssumption DEF Threads
    <2> QED BY <1>2, <1>3, <1>8, <2>2, <2>3, <2>4, <2>5 DEF PlaceInv
  <1> QED BY <1>5, <1>6, <1>9, <1>10 DEF Inv

LEMMA WaitCheckStep == Inv /\ WaitCheck => Inv'
  <1> SUFFICES ASSUME Inv, WaitCheck PROVE Inv'
    OBVIOUS
  <1> DEFINE to == IF k \in running THEN "yield"
                   ELSE IF k = NThreads - 1 THEN "print" ELSE "wait"
  <1>1. /\ Go(Main, "wait", to) /\ k' = IF k \in running THEN k ELSE k + 1
        /\ UNCHANGED <<libVars, mutexVars, global_sum, reg>>
    BY DEF WaitCheck, OnlyApp
  <1>2. to \in MainPlaces /\ to \in {"yield", "print", "wait"}
    BY DEF MainPlaces
  <1>3. /\ LibInv /\ PlaceTypes /\ PlaceInv /\ WaitInv /\ SumInv /\ EndInv /\ Executes(Main)
        /\ fate = "ok" /\ MAX_THREAD' = MAX_THREAD /\ Main \in Tasks
        /\ pc[Main] = "wait" /\ pc'[Main] = to /\ \A t \in Threads : pc'[t] = pc[t]
        /\ pc' \in [Tasks -> ThreadPlaces \cup MainPlaces]
        /\ \A t \in Threads : pc'[t] \in ThreadPlaces
    <2> HIDE DEF to
    <2> QED BY <1>1, <1>2, MainMoves
  <1>4. LibInv' /\ OthersStay /\ running' = running /\ fate' = fate /\ mishaps' = mishaps
    BY <1>1, <1>3, LibSame
  <1>5. WaitInv' /\ SumInv' /\ EndInv'
    BY <1>1, <1>3, <1>4, ThreadsStay, EndKept
  <1>6. Created' = Threads /\ Created = Threads
    BY <1>2, <1>3 DEF Created, Creating
  <1>7. /\ k \in 0 .. NThreads - 1 /\ running \subseteq 0 .. NThreads - 1
        /\ \A t \in running : k <= t
    BY <1>3, <1>6, PlaceFacts, SthreadAssumption DEF PlaceInv, PlaceTypes, Threads
  <1>8. /\ k' \in 0 .. NThreads
        /\ to # "print" => k' < NThreads /\ \A t \in running : k' <= t
        /\ to = "print" => running = {}
    BY <1>1, <1>7, SthreadAssumption
  <1>9. running' = {t \in Created' : pc'[t] # "dead"}
    BY <1>3, <1>4, <1>6 DEF PlaceInv
  <1>10. PlaceTypes'
    <2>1. pc'[Main] \in {"print", "end"} => \A t \in Threads : pc'[t] = "dead"
      BY <1>2, <1>3, <1>4, <1>6, <1>8, <1>9
    <2> QED BY <1>2, <1>3, <1>8, <2>1 DEF PlaceTypes
  <1>11. PlaceInv'
    BY <1>2, <1>3, <1>4, <1>6, <1>8, <1>9 DEF PlaceInv
  <1> QED BY <1>4, <1>5, <1>10, <1>11 DEF Inv

LEMMA WaitYieldStep == Inv /\ WaitYield => Inv'
  <1> SUFFICES ASSUME Inv, WaitYield PROVE Inv'
    OBVIOUS
  <1>1. /\ Go(Main, "yield", "wait") /\ schedule(Main)
        /\ UNCHANGED <<mutexVars, k, global_sum, reg>>
    BY DEF WaitYield
  <1>2. "wait" \in MainPlaces
    BY DEF MainPlaces
  <1>3. /\ LibInv /\ PlaceTypes /\ PlaceInv /\ WaitInv /\ SumInv /\ EndInv /\ Executes(Main)
        /\ fate = "ok" /\ MAX_THREAD' = MAX_THREAD /\ Main \in Tasks
        /\ pc[Main] = "yield" /\ pc'[Main] = "wait" /\ \A t \in Threads : pc'[t] = pc[t]
        /\ pc' \in [Tasks -> ThreadPlaces \cup MainPlaces]
        /\ \A t \in Threads : pc'[t] \in ThreadPlaces
    BY <1>1, <1>2, MainMoves
  <1>4. cpu = Main /\ Len(swaps[cpu]) = 0
    BY <1>3, Executing
  <1>5. /\ LibInv' /\ running' = running /\ mishaps' \subseteq mishaps \cup {"late", "full"}
        /\ fate' \in {fate, "null"}
    BY <1>1, <1>3, <1>4, ScheduleStep
  <1>6. WaitInv' /\ SumInv' /\ EndInv'
    BY <1>1, <1>3, <1>5, ThreadsStay, EndKept
  <1>7. Created' = Threads /\ Created = Threads
    BY <1>3 DEF Created, Creating
  <1>8. running' = {t \in Created' : pc'[t] # "dead"}
    BY <1>3, <1>5, <1>7 DEF PlaceInv
  <1>9. PlaceTypes' /\ PlaceInv'
    <2>1. PlaceTypes'
      BY <1>1, <1>2, <1>3 DEF PlaceTypes
    <2>2. PlaceInv'
      BY <1>1, <1>3, <1>5, <1>7, <1>8 DEF PlaceInv
    <2> QED BY <2>1, <2>2
  <1> QED BY <1>5, <1>6, <1>9 DEF Inv

LEMMA PrintedStep == Inv /\ Printed => Inv'
  <1> SUFFICES ASSUME Inv, Printed PROVE Inv'
    OBVIOUS
  <1>1. Go(Main, "print", "end") /\ UNCHANGED <<libVars, mutexVars, k, global_sum, reg>>
    BY DEF Printed, OnlyApp
  <1>2. "end" \in MainPlaces
    BY DEF MainPlaces
  <1>3. /\ LibInv /\ PlaceTypes /\ PlaceInv /\ WaitInv /\ SumInv /\ EndInv /\ Executes(Main)
        /\ fate = "ok" /\ MAX_THREAD' = MAX_THREAD /\ Main \in Tasks
        /\ pc[Main] = "print" /\ pc'[Main] = "end" /\ \A t \in Threads : pc'[t] = pc[t]
        /\ pc' \in [Tasks -> ThreadPlaces \cup MainPlaces]
        /\ \A t \in Threads : pc'[t] \in ThreadPlaces
    BY <1>1, <1>2, MainMoves
  <1>4. LibInv' /\ running' = running /\ fate' = fate /\ mishaps' = mishaps
    BY <1>1, <1>3, LibSame
  <1>5. WaitInv' /\ SumInv' /\ EndInv'
    BY <1>1, <1>3, <1>4, ThreadsStay, EndKept
  <1>6. Created' = Threads /\ Created = Threads
    BY <1>3 DEF Created, Creating
  <1>7. running' = {t \in Created' : pc'[t] # "dead"}
    BY <1>3, <1>4, <1>6 DEF PlaceInv
  <1>8. PlaceTypes'
    BY <1>1, <1>2, <1>3 DEF PlaceTypes
  <1>9. PlaceInv'
    BY <1>1, <1>3, <1>6, <1>7 DEF PlaceInv
  <1> QED BY <1>4, <1>5, <1>8, <1>9 DEF Inv
-----------------------------------------------------------------------------
(* The threads.                                                            *)
LEMMA LockLemma ==
    ASSUME WaitInv, NEW t \in Threads, current = t, pc[t] = "lock", Lock,
           pc'[t] = IF lock = 1 /\ owner # t THEN "spin" ELSE "load",
           \A u \in Threads : u # t => pc'[u] = pc[u]
    PROVE  WaitInv'
  <1>1. t \notin Members(waiters) /\ t \in Tasks
    BY DEF WaitInv, Tasks
  <1>2. CASE lock = 0
    <2>1. lock' = 1 /\ owner' = t /\ waiters' = <<t>> /\ pc'[t] = "load"
      BY <1>2 DEF Lock, sthread_self
    <2>2. \A u \in Threads : pc[u] \notin Waiting
      BY <1>2 DEF WaitInv, Waiting, Members
    <2>3. waiters' \in Seq(Threads) /\ Len(waiters') = 1 /\ waiters'[1] = t /\ waiters' # <<>>
      BY <2>1
    <2>4. Once(waiters') /\ Members(waiters') = {t}
      BY <2>3 DEF Once, Members
    <2>5. {u \in Threads : pc'[u] \in Waiting} = {t}
      BY <2>1, <2>2 DEF Waiting
    <2>6. \A u \in Inside' : u = t
      BY <2>2 DEF Inside, Waiting
    <2> QED BY <1>1, <2>1, <2>3, <2>4, <2>5, <2>6 DEF WaitInv, Waiting
  <1>3. CASE lock # 0
    <2>1. lock = 1 /\ waiters # <<>> /\ owner = waiters[1] /\ waiters \in Seq(Threads)
      BY <1>3 DEF WaitInv
    <2>2. owner # t
      <3>1. waiters[1] \in Members(waiters)
        BY <2>1 DEF Members
      <3> QED BY <3>1, <2>1, <1>1
    <2>3. waiters' = Append(waiters, t) /\ UNCHANGED <<lock, owner>> /\ pc'[t] = "spin"
      BY <1>3, <2>1, <2>2 DEF Lock, sthread_self
    <2>4. /\ waiters' \in Seq(Threads) /\ Once(waiters') /\ waiters' # <<>>
          /\ waiters'[1] = waiters[1] /\ Members(waiters') = Members(waiters) \cup {t}
      <3>1. Once(waiters)
        BY DEF WaitInv
      <3>2. Len(Append(waiters, t)) = Len(waiters) + 1 /\ Append(waiters, t) # <<>>
        BY <2>1
      <3> QED BY <3>1, <3>2, <1>1, <2>1, <2>3, AppendLemma
    <2>5. {u \in Threads : pc'[u] \in Waiting} = {u \in Threads : pc[u] \in Waiting} \cup {t}
      BY <2>3 DEF Waiting
    <2>6. Inside' = Inside
      BY <2>3 DEF Inside
    <2> QED BY <2>1, <2>3, <2>4, <2>5, <2>6 DEF WaitInv, Waiting
  <1> QED BY <1>2, <1>3

LEMMA UnlockLemma ==
    ASSUME WaitInv, NEW t \in Threads, current = t, pc[t] = "unlock", Unlock,
           pc'[t] = "return", \A u \in Threads : u # t => pc'[u] = pc[u]
    PROVE  WaitInv'
  <1>1. t \in Inside /\ owner = t /\ t \in Members(waiters)
    BY DEF WaitInv, Inside
  <1>2. waiters # <<>> /\ waiters \in Seq(Threads) /\ Once(waiters) /\ waiters[1] = t
    BY <1>1 DEF WaitInv, Members
  <1>3. /\ waiters' = Tail(waiters) /\ lock' = IF waiters' = <<>> THEN 0 ELSE 1
        /\ owner' = IF waiters' = <<>> THEN owner ELSE Head(waiters')
    BY <1>1, <1>2 DEF Unlock, sthread_self
  <1>4. /\ waiters' \in Seq(Threads) /\ Once(waiters')
        /\ Members(waiters') = Members(waiters) \ {t}
    BY <1>2, <1>3, TailLemma
  <1>5. /\ lock' \in {0, 1}
        /\ lock' = 0 <=> waiters' = <<>>
        /\ waiters' # <<>> => owner' = waiters'[1]
    BY <1>3, <1>4
  <1>6. owner' \in Tasks
    <2>1. waiters' # <<>> => waiters'[1] \in Threads
      BY <1>4
    <2> QED BY <1>1, <1>3, <1>5, <2>1 DEF Tasks
  <1>7. {u \in Threads : pc'[u] \in Waiting} = {u \in Threads : pc[u] \in Waiting} \ {t}
    BY DEF Waiting
  <1>8. \A u \in Threads : u \notin Inside'
    BY <1>1 DEF Inside, WaitInv
  <1> QED BY <1>3, <1>4, <1>5, <1>6, <1>7, <1>8 DEF WaitInv, Waiting, Inside

LEMMA LockFirstStep == ASSUME NEW t \in Threads PROVE Inv /\ LockFirst(t) => Inv'
  <1> SUFFICES ASSUME Inv, LockFirst(t) PROVE Inv'
    OBVIOUS
  <1> DEFINE to == IF lock = 1 /\ owner # sthread_self THEN "spin" ELSE "load"
  <1>1. Go(t, "lock", to) /\ Lock /\ current # NULL
        /\ UNCHANGED <<libVars, k, global_sum, reg>>
    BY DEF LockFirst
  <1>2. to \in ThreadPlaces /\ k' = k
    BY <1>1 DEF ThreadPlaces
  <1>3. /\ current \in {t, NULL} /\ pc[t] = "lock" /\ pc'[t] = to
        /\ pc' = [pc EXCEPT ![t] = to]
        /\ LibInv /\ PlaceTypes /\ PlaceInv /\ WaitInv /\ SumInv /\ EndInv /\ PlaceTypes'
        /\ Executes(t) /\ t \in running /\ t \in Tasks /\ fate = "ok" /\ MAX_THREAD' = MAX_THREAD
        /\ \A u \in Threads : u # t => pc'[u] = pc[u]
    <2> HIDE DEF to
    <2> QED BY <1>1, <1>2, ThreadMoves
  <1>4. LibInv' /\ OthersStay /\ running' = running /\ fate' = fate /\ mishaps' = mishaps
    BY <1>1, <1>3, LibSame
  <1>5. PlaceInv'
    <2>1. to # "dead"
      OBVIOUS
    <2> HIDE DEF to
    <2> QED BY <1>1, <1>2, <1>3, <1>4, <2>1, PlaceMoved
  <1>6. EndInv'
    BY <1>3, <1>4, EndKept
  <1>7. WaitInv'
    <2>1. current = t
      BY <1>1, <1>3
    <2> QED BY <1>1, <1>3, <2>1, LockLemma DEF sthread_self
  <1>8. SumInv'
    BY <1>1, <1>3, SumKept
  <1> QED BY <1>3, <1>4, <1>5, <1>6, <1>7, <1>8 DEF Inv

LEMMA LockSpinStep == ASSUME NEW t \in Threads PROVE Inv /\ LockSpin(t) => Inv'
  <1> SUFFICES ASSUME Inv, LockSpin(t) PROVE Inv'
    OBVIOUS
  <1>1. Go(t, "spin", "spin") /\ schedule(t)
        /\ UNCHANGED <<mutexVars, k, global_sum, reg>>
    BY DEF LockSpin
  <1>2. "spin" \in ThreadPlaces /\ k' = k
    BY <1>1 DEF ThreadPlaces
  <1>3. /\ current \in {t, NULL} /\ pc[t] = "spin" /\ pc'[t] = "spin"
        /\ pc' = [pc EXCEPT ![t] = "spin"]
        /\ LibInv /\ PlaceTypes /\ PlaceInv /\ WaitInv /\ SumInv /\ EndInv /\ PlaceTypes'
        /\ Executes(t) /\ t \in running /\ t \in Tasks /\ fate = "ok" /\ MAX_THREAD' = MAX_THREAD
        /\ \A u \in Threads : u # t => pc'[u] = pc[u]
    BY <1>1, <1>2, ThreadMoves
  <1>4. /\ LibInv' /\ OthersStay /\ running' = running
        /\ mishaps' \subseteq mishaps \cup {"late", "full"} /\ fate' \in {fate, "null"}
    <2>1. cpu = t /\ Len(swaps[cpu]) = 0
      BY <1>3, Executing
    <2> QED BY <1>1, <1>3, <2>1, ScheduleStep DEF OthersStay
  <1>5. PlaceInv'
    BY <1>1, <1>2, <1>3, <1>4, PlaceMoved
  <1>6. EndInv'
    BY <1>3, <1>4, EndKept
  <1>7. WaitInv'
    BY <1>1, <1>3, WaitKept DEF Waiting, WaitInv, Inside
  <1>8. SumInv'
    BY <1>1, <1>3, SumKept
  <1> QED BY <1>3, <1>4, <1>5, <1>6, <1>7, <1>8 DEF Inv

LEMMA LockGrantedStep == ASSUME NEW t \in Threads PROVE Inv /\ LockGranted(t) => Inv'
  <1> SUFFICES ASSUME Inv, LockGranted(t) PROVE Inv'
    OBVIOUS
  <1>1. Go(t, "spin", "load") /\ owner = sthread_self /\ current # NULL
        /\ UNCHANGED <<libVars, mutexVars, k, global_sum, reg>>
    BY DEF LockGranted, OnlyApp
  <1>2. "load" \in ThreadPlaces /\ k' = k
    BY <1>1 DEF ThreadPlaces
  <1>3. /\ current \in {t, NULL} /\ pc[t] = "spin" /\ pc'[t] = "load"
        /\ pc' = [pc EXCEPT ![t] = "load"]
        /\ LibInv /\ PlaceTypes /\ PlaceInv /\ WaitInv /\ SumInv /\ EndInv /\ PlaceTypes'
        /\ Executes(t) /\ t \in running /\ t \in Tasks /\ fate = "ok" /\ MAX_THREAD' = MAX_THREAD
        /\ \A u \in Threads : u # t => pc'[u] = pc[u]
    BY <1>1, <1>2, ThreadMoves
  <1>4. LibInv' /\ OthersStay /\ running' = running /\ fate' = fate /\ mishaps' = mishaps
    BY <1>1, <1>3, LibSame
  <1>5. PlaceInv'
    BY <1>1, <1>2, <1>3, <1>4, PlaceMoved
  <1>6. EndInv'
    BY <1>3, <1>4, EndKept
  <1>7. WaitInv'
    <2>1. owner = t
      BY <1>1, <1>3 DEF sthread_self
    <2> QED BY <1>1, <1>3, <2>1, WaitKept DEF Waiting, WaitInv, Inside
  <1>8. SumInv'
    BY <1>1, <1>3, SumKept
  <1> QED BY <1>3, <1>4, <1>5, <1>6, <1>7, <1>8 DEF Inv

LEMMA LoadStep == ASSUME NEW t \in Threads PROVE Inv /\ Load(t) => Inv'
  <1> SUFFICES ASSUME Inv, Load(t) PROVE Inv'
    OBVIOUS
  <1>1. Go(t, "load", "store") /\ reg' = [reg EXCEPT ![t] = global_sum]
        /\ UNCHANGED <<libVars, mutexVars, k, global_sum>>
    BY DEF Load, OnlyApp
  <1>2. "store" \in ThreadPlaces /\ k' = k
    BY <1>1 DEF ThreadPlaces
  <1>3. /\ current \in {t, NULL} /\ pc[t] = "load" /\ pc'[t] = "store"
        /\ pc' = [pc EXCEPT ![t] = "store"]
        /\ LibInv /\ PlaceTypes /\ PlaceInv /\ WaitInv /\ SumInv /\ EndInv /\ PlaceTypes'
        /\ Executes(t) /\ t \in running /\ t \in Tasks /\ fate = "ok" /\ MAX_THREAD' = MAX_THREAD
        /\ \A u \in Threads : u # t => pc'[u] = pc[u]
    BY <1>1, <1>2, ThreadMoves
  <1>4. LibInv' /\ OthersStay /\ running' = running /\ fate' = fate /\ mishaps' = mishaps
    BY <1>1, <1>3, LibSame
  <1>5. PlaceInv'
    BY <1>1, <1>2, <1>3, <1>4, PlaceMoved
  <1>6. EndInv'
    BY <1>3, <1>4, EndKept
  <1>7. WaitInv'
    BY <1>1, <1>3, WaitKept DEF Waiting, WaitInv, Inside
  <1>8. SumInv'
    <2>1. global_sum \in 0 .. NThreads
      BY <1>3, ThreadsFinite DEF SumInv, Stored
    <2>2. Stored' = Stored
      BY <1>3 DEF Stored
    <2> QED BY <1>1, <1>3, <2>1, <2>2 DEF SumInv
  <1> QED BY <1>3, <1>4, <1>5, <1>6, <1>7, <1>8 DEF Inv

LEMMA StoreStep == ASSUME NEW t \in Threads PROVE Inv /\ Store(t) => Inv'
  <1> SUFFICES ASSUME Inv, Store(t) PROVE Inv'
    OBVIOUS
  <1>1. Go(t, "store", "unlock") /\ global_sum' = reg[t] + 1
        /\ UNCHANGED <<libVars, mutexVars, k, reg>>
    BY DEF Store, OnlyApp
  <1>2. "unlock" \in ThreadPlaces /\ k' = k
    BY <1>1 DEF ThreadPlaces
  <1>3. /\ current \in {t, NULL} /\ pc[t] = "store" /\ pc'[t] = "unlock"
        /\ pc' = [pc EXCEPT ![t] = "unlock"]
        /\ LibInv /\ PlaceTypes /\ PlaceInv /\ WaitInv /\ SumInv /\ EndInv /\ PlaceTypes'
        /\ Executes(t) /\ t \in running /\ t \in Tasks /\ fate = "ok" /\ MAX_THREAD' = MAX_THREAD
        /\ \A u \in Threads : u # t => pc'[u] = pc[u]
    BY <1>1, <1>2, ThreadMoves
  <1>4. LibInv' /\ OthersStay /\ running' = running /\ fate' = fate /\ mishaps' = mishaps
    BY <1>1, <1>3, LibSame
  <1>5. PlaceInv'
    BY <1>1, <1>2, <1>3, <1>4, PlaceMoved
  <1>6. EndInv'
    BY <1>3, <1>4, EndKept
  <1>7. WaitInv'
    BY <1>1, <1>3, WaitKept DEF Waiting, WaitInv, Inside
  <1>8. SumInv'
    <2>1. IsFiniteSet(Stored) /\ t \notin Stored /\ Stored' = Stored \cup {t}
      BY <1>3, ThreadsFinite DEF Stored
    <2>2. Cardinality(Stored') = Cardinality(Stored) + 1
      BY <2>1, FS_AddElement
    <2>3. global_sum' = Cardinality(Stored')
      BY <1>1, <1>3, <2>2 DEF SumInv
    <2>4. \A u \in Threads : pc'[u] # "store"
      BY <1>3 DEF WaitInv, Inside
    <2> QED BY <1>1, <1>3, <2>3, <2>4 DEF SumInv
  <1> QED BY <1>3, <1>4, <1>5, <1>6, <1>7, <1>8 DEF Inv

LEMMA UnlockStepStep == ASSUME NEW t \in Threads PROVE Inv /\ UnlockStep(t) => Inv'
  <1> SUFFICES ASSUME Inv, UnlockStep(t) PROVE Inv'
    OBVIOUS
  <1>1. Go(t, "unlock", "return") /\ Unlock /\ current # NULL
        /\ UNCHANGED <<libVars, k, global_sum, reg>>
    BY DEF UnlockStep
  <1>2. "return" \in ThreadPlaces /\ k' = k
    BY <1>1 DEF ThreadPlaces
  <1>3. /\ current \in {t, NULL} /\ pc[t] = "unlock" /\ pc'[t] = "return"
        /\ pc' = [pc EXCEPT ![t] = "return"]
        /\ LibInv /\ PlaceTypes /\ PlaceInv /\ WaitInv /\ SumInv /\ EndInv /\ PlaceTypes'
        /\ Executes(t) /\ t \in running /\ t \in Tasks /\ fate = "ok" /\ MAX_THREAD' = MAX_THREAD
        /\ \A u \in Threads : u # t => pc'[u] = pc[u]
    BY <1>1, <1>2, ThreadMoves
  <1>4. LibInv' /\ OthersStay /\ running' = running /\ fate' = fate /\ mishaps' = mishaps
    BY <1>1, <1>3, LibSame
  <1>5. PlaceInv'
    BY <1>1, <1>2, <1>3, <1>4, PlaceMoved
  <1>6. EndInv'
    BY <1>3, <1>4, EndKept
  <1>7. WaitInv'
    <2>1. current = t
      BY <1>1, <1>3
    <2> QED BY <1>1, <1>3, <2>1, UnlockLemma
  <1>8. SumInv'
    BY <1>1, <1>3, SumKept
  <1> QED BY <1>3, <1>4, <1>5, <1>6, <1>7, <1>8 DEF Inv

LEMMA ReturnStep == ASSUME NEW t \in Threads PROVE Inv /\ Return(t) => Inv'
  <1> SUFFICES ASSUME Inv, Return(t) PROVE Inv'
    OBVIOUS
  <1>1. Go(t, "return", "kill") /\ Leave(t)
        /\ UNCHANGED <<mutexVars, k, global_sum, reg>>
    BY DEF Return
  <1>2. "kill" \in ThreadPlaces /\ k' = k
    BY <1>1 DEF ThreadPlaces
  <1>3. /\ current \in {t, NULL} /\ pc[t] = "return" /\ pc'[t] = "kill"
        /\ pc' = [pc EXCEPT ![t] = "kill"]
        /\ LibInv /\ PlaceTypes /\ PlaceInv /\ WaitInv /\ SumInv /\ EndInv /\ PlaceTypes'
        /\ Executes(t) /\ t \in running /\ t \in Tasks /\ fate = "ok" /\ MAX_THREAD' = MAX_THREAD
        /\ \A u \in Threads : u # t => pc'[u] = pc[u]
    BY <1>1, <1>2, ThreadMoves
  <1>4. LibInv' /\ OthersStay /\ running' = running /\ fate' \in {fate, "wild"} /\ mishaps' = mishaps
    <2>1. /\ UNCHANGED <<queue, current, count, running, ctx, cpu, swaps, armed, mishaps>>
          /\ fate' \in {fate, "wild"} /\ last' \in {last, {t}}
      BY <1>1 DEF Leave
    <2>2. last' \subseteq Tasks
      BY <1>3, <2>1 DEF LibInv, QueueInv
    <2> QED BY <1>3, <2>1, <2>2, LibKept DEF OthersStay
  <1>5. PlaceInv'
    BY <1>1, <1>2, <1>3, <1>4, PlaceMoved
  <1>6. EndInv'
    BY <1>3, <1>4, EndKept
  <1>7. WaitInv'
    BY <1>1, <1>3, WaitKept DEF Waiting, WaitInv, Inside
  <1>8. SumInv'
    BY <1>1, <1>3, SumKept
  <1> QED BY <1>3, <1>4, <1>5, <1>6, <1>7, <1>8 DEF Inv

LEMMA KillStepStep == ASSUME NEW t \in Threads PROVE Inv /\ Kill(t) => Inv'
  <1> SUFFICES ASSUME Inv, Kill(t) PROVE Inv'
    OBVIOUS
  <1>1. Go(t, "kill", "dead") /\ kill_thread(t)
        /\ UNCHANGED <<mutexVars, k, global_sum, reg>>
    BY DEF Kill
  <1>2. "dead" \in ThreadPlaces /\ k' = k
    BY <1>1 DEF ThreadPlaces
  <1>3. /\ current \in {t, NULL} /\ pc[t] = "kill" /\ pc'[t] = "dead"
        /\ pc' = [pc EXCEPT ![t] = "dead"]
        /\ LibInv /\ PlaceTypes /\ PlaceInv /\ WaitInv /\ SumInv /\ EndInv /\ PlaceTypes'
        /\ Executes(t) /\ t \in running /\ t \in Tasks /\ fate = "ok" /\ MAX_THREAD' = MAX_THREAD
        /\ \A u \in Threads : u # t => pc'[u] = pc[u]
    BY <1>1, <1>2, ThreadMoves
  <1>4. /\ LibInv' /\ OthersStay /\ mishaps' = mishaps
        /\ \/ fate' = "ok" /\ running' = running \ {t}
           \/ fate' = "null" /\ running' = running
    BY <1>1, <1>3, KillStep DEF OthersStay
  <1>5. fate' = "ok" => PlaceInv'
    BY <1>1, <1>2, <1>3, <1>4, PlaceMoved
  <1>6. EndInv'
    BY <1>3, <1>4, EndKept
  <1>7. WaitInv'
    BY <1>1, <1>3, WaitKept DEF Waiting, WaitInv, Inside
  <1>8. SumInv'
    BY <1>1, <1>3, SumKept
  <1> QED BY <1>3, <1>4, <1>5, <1>6, <1>7, <1>8 DEF Inv

LEMMA NoSelfStep == ASSUME NEW t \in Threads PROVE Inv /\ NoSelf(t) => Inv'
  <1> SUFFICES ASSUME Inv, NoSelf(t) PROVE Inv'
    OBVIOUS
  <1>1. PICK at \in {"lock", "spin", "unlock"} : Go(t, at, at)
    BY DEF NoSelf
  <1>2. Stop("null") /\ mishaps' = mishaps /\ UNCHANGED <<mutexVars, k, global_sum, reg>>
    BY DEF NoSelf
  <1>3. at \in ThreadPlaces
    BY <1>1 DEF ThreadPlaces
  <1>4. /\ LibInv /\ WaitInv /\ SumInv /\ EndInv /\ PlaceTypes' /\ MAX_THREAD' = MAX_THREAD
        /\ \A u \in Threads : pc'[u] = pc[u]
    BY <1>1, <1>2, <1>3, ThreadMoves
  <1>5. LibInv' /\ fate' = "null"
    BY <1>2, <1>4, StopKeeps
  <1>6. WaitInv' /\ SumInv' /\ EndInv'
    BY <1>2, <1>4, <1>5, ThreadsStay, EndKept
  <1> QED BY <1>4, <1>5, <1>6 DEF Inv
-----------------------------------------------------------------------------
(* Every step.                                                             *)
LEMMA InitInv == Init => Inv
  <1> SUFFICES ASSUME Init PROVE Inv
    OBVIOUS
  <1>1. /\ queue = <<>> /\ current = NULL /\ count = 0 /\ running = {} /\ cpu = Main
        /\ ctx = [t \in Tasks |-> NULL] /\ swaps = [f \in Tasks |-> <<>>]
        /\ armed = FALSE /\ last = {} /\ mishaps = {} /\ fate = "ok" /\ MAX_THREAD \in Limits
        /\ lock = 0 /\ owner = Main /\ waiters = <<>> /\ k = 0 /\ global_sum = 0
        /\ pc = [f \in Tasks |-> IF f = Main THEN "create" ELSE "lock"]
        /\ reg = [t \in Threads |-> 0]
    BY DEF Init, LibInit, MutexInit
  <1>2. Cardinality({}) = 0
    BY FS_EmptySet
  <1>3. pc[Main] = "create" /\ \A t \in Threads : pc[t] = "lock"
    BY <1>1, NullIsNoTask
  <1>4. \A t \in Tasks : ctx[t] = NULL /\ Len(swaps[t]) = 0
    BY <1>1
  <1>5. QueueInv
    <2>1. queue \in Seq(Tasks) /\ Once(queue) /\ Members(queue) = {}
      BY <1>1 DEF Once, Members
    <2> QED BY <1>1, <1>2, <2>1, NullIsNoTask DEF QueueInv
  <1>6. ContextInv
    <2>1. swaps \in [Tasks -> Seq(Call)] /\ ctx \in [Tasks -> Places]
      <3>1. <<>> \in Seq(Call)
        OBVIOUS
      <3> QED BY <1>1, <3>1, NullIsNoTask
    <2> QED BY <1>1, <1>4, <2>1, NullIsNoTask DEF ContextInv
  <1>7. Runs
    BY <1>1, <1>4, NullIsNoTask DEF Runs, Pending, Known
  <1>8. LibInv
    <2>1. CensusInv
      BY <1>1 DEF CensusInv
    <2>2. HomeInv
      BY <1>1, <1>7 DEF HomeInv, Regular, Known
    <2> QED BY <1>5, <1>6, <1>7, <2>1, <2>2 DEF LibInv, ControlInv
  <1>9. PlaceTypes
    <2>1. pc \in [Tasks -> ThreadPlaces \cup MainPlaces]
      BY <1>1 DEF ThreadPlaces, MainPlaces
    <2> QED BY <1>1, <1>3, <2>1, SthreadAssumption DEF PlaceTypes, MainPlaces, ThreadPlaces
  <1>10. PlaceInv
    <2>1. Created = {}
      BY <1>1, <1>3 DEF Created, Creating
    <2> QED BY <1>1, <1>3, <1>4, <2>1, NullIsNoTask, SthreadAssumption DEF PlaceInv
  <1>11. WaitInv
    BY <1>1, <1>3, NullIsNoTask DEF WaitInv, Once, Members, Inside
  <1>12. SumInv
    <2>1. Stored = {}
      BY <1>3 DEF Stored
    <2> QED BY <1>1, <1>2, <1>3, <2>1, SthreadAssumption DEF SumInv
  <1> QED BY <1>1, <1>8, <1>9, <1>10, <1>11, <1>12 DEF Inv, EndInv

LEMMA TimerStep == Inv /\ Timer => Inv'
  <1> SUFFICES ASSUME Inv, Timer PROVE Inv'
    OBVIOUS
  <1>1. /\ fate = "ok" /\ Len(swaps[cpu]) <= 1 /\ schedule(cpu)
        /\ UNCHANGED <<mutexVars, appVars>>
    BY DEF Timer, Sigprof
  <1>2. LibInv /\ PlaceTypes /\ PlaceInv /\ WaitInv /\ SumInv /\ EndInv
    BY <1>1 DEF Inv
  <1>3. /\ LibInv' /\ running' = running /\ ctx' = ctx
        /\ \A t \in Tasks \ Known : t # cpu => swaps'[t] = swaps[t]
        /\ Len(swaps[cpu]) = 0 => cpu \in Known
        /\ mishaps' \subseteq mishaps \cup {"late", "full"} /\ fate' \in {fate, "null"}
    BY <1>1, <1>2, ScheduleStep
  <1>4. OthersStay
    BY <1>3 DEF OthersStay
  <1>5. PlaceTypes' /\ PlaceInv' /\ WaitInv' /\ SumInv' /\ MAX_THREAD' = MAX_THREAD
    BY <1>1, <1>2, <1>3, <1>4, AppKept
  <1>6. EndInv'
    BY <1>2, <1>3, <1>5, EndKept
  <1> QED BY <1>3, <1>5, <1>6 DEF Inv

LEMMA TimerInBlockStep == Inv /\ TimerInBlock => Inv'
  <1> SUFFICES ASSUME Inv, TimerInBlock PROVE Inv'
    OBVIOUS
  <1>1. Stop("bare") /\ mishaps' = mishaps /\ UNCHANGED <<mutexVars, appVars>>
    BY DEF TimerInBlock, Unguarded
  <1>2. LibInv /\ PlaceTypes /\ WaitInv /\ SumInv /\ EndInv
    BY DEF Inv
  <1>3. LibInv' /\ fate' = "bare"
    BY <1>1, <1>2, StopKeeps
  <1>4. PlaceTypes' /\ WaitInv' /\ SumInv' /\ MAX_THREAD' = MAX_THREAD
    BY <1>1, <1>2, AppKept
  <1>5. EndInv'
    BY <1>1, <1>2, <1>3, <1>4, EndKept
  <1> QED BY <1>3, <1>4, <1>5 DEF Inv

LEMMA SwapStepStep == ASSUME NEW f \in Tasks PROVE Inv /\ SwapStep(f) => Inv'
  <1> SUFFICES ASSUME Inv, SwapStep(f) PROVE Inv'
    OBVIOUS
  <1>1. Swap(f) /\ fate = "ok" /\ UNCHANGED <<mutexVars, appVars>>
    BY DEF SwapStep, Swap
  <1>2. LibInv /\ PlaceTypes /\ PlaceInv /\ WaitInv /\ SumInv /\ EndInv
    BY <1>1 DEF Inv
  <1>3. /\ LibInv' /\ running' = running /\ mishaps' = mishaps /\ OthersStay
        /\ fate' \in {fate, "null", "wild"}
    BY <1>1, <1>2, SwapLemma DEF OthersStay
  <1>4. PlaceTypes' /\ PlaceInv' /\ WaitInv' /\ SumInv' /\ MAX_THREAD' = MAX_THREAD
    BY <1>1, <1>2, <1>3, AppKept
  <1>5. EndInv'
    BY <1>2, <1>3, <1>4, EndKept
  <1> QED BY <1>3, <1>4, <1>5 DEF Inv

LEMMA StutterStep == Inv /\ UNCHANGED vars => Inv'
  <1> SUFFICES ASSUME Inv, UNCHANGED vars PROVE Inv'
    OBVIOUS
  <1>1. UNCHANGED <<mutexVars, appVars>> /\ UNCHANGED libVars
    BY DEF vars
  <1>2. LibInv /\ PlaceTypes /\ WaitInv /\ SumInv /\ EndInv /\ (fate = "ok" => PlaceInv)
    BY DEF Inv
  <1>3. LibInv' /\ OthersStay /\ running' = running /\ fate' = fate /\ mishaps' = mishaps
    BY <1>1, <1>2, LibSame
  <1>4. PlaceTypes' /\ WaitInv' /\ SumInv' /\ MAX_THREAD' = MAX_THREAD
        /\ (PlaceInv => PlaceInv')
    BY <1>1, <1>2, <1>3, AppKept
  <1>5. EndInv'
    BY <1>2, <1>3, <1>4, EndKept
  <1> QED BY <1>2, <1>3, <1>4, <1>5 DEF Inv

LEMMA NextStep == Inv /\ [Next]_vars => Inv'
  <1> SUFFICES ASSUME Inv, [Next]_vars PROVE Inv'
    OBVIOUS
  <1>1. CASE MainStep
    BY <1>1, CreateBeginStep, CreateContextStep, CreateStep, WaitCheckStep, WaitYieldStep,
       PrintedStep DEF MainStep
  <1>2. CASE \E t \in Threads : ThreadStep(t)
    BY <1>2, NoSelfStep, LockFirstStep, LockSpinStep, LockGrantedStep, LoadStep, StoreStep,
       UnlockStepStep, ReturnStep, KillStepStep DEF ThreadStep
  <1>3. CASE \E f \in Tasks : SwapStep(f)
    BY <1>3, SwapStepStep
  <1>4. CASE Timer \/ TimerInBlock
    BY <1>4, TimerStep, TimerInBlockStep
  <1>5. CASE Ended \/ UNCHANGED vars
    BY <1>5, StutterStep DEF Ended
  <1> QED BY <1>1, <1>2, <1>3, <1>4, <1>5 DEF Next

LEMMA SpecInv == Spec => []Inv
  <1>1. Inv /\ [Next]_vars => Inv'
    BY NextStep
  <1> QED BY InitInv, <1>1, PTL DEF Spec

-----------------------------------------------------------------------------
(* The variables keep their types; a flow has one swapcontext to make at   *)
(* most, two after a late signal, and count stays between zero and the     *)
(* number of threads.                                                      *)
THEOREM TypeAlways == Spec => []TypeOK
  <1>1. Inv => TypeOK
    <2> SUFFICES ASSUME LibInv, PlaceTypes, WaitInv, SumInv, EndInv PROVE TypeOK
      BY DEF Inv
    <2>0. QueueInv /\ ContextInv
      BY DEF LibInv
    <2>1. running \subseteq Threads /\ count \in 0 .. NThreads /\ global_sum \in 0 .. NThreads
      BY <2>0, ThreadsFinite DEF QueueInv, SumInv, Stored
    <2>2. \A f \in Tasks : Len(swaps[f]) <= IF "late" \in mishaps THEN 2 ELSE 1
      <3> SUFFICES ASSUME NEW f \in Tasks
                   PROVE  Len(swaps[f]) <= IF "late" \in mishaps THEN 2 ELSE 1
        OBVIOUS
      <3>1. Len(swaps[f]) <= 1 \/ (Len(swaps[f]) = 2 /\ "late" \in mishaps)
        BY <2>0 DEF ContextInv
      <3>2. Len(swaps[f]) \in Nat
        BY <2>0 DEF ContextInv
      <3>3. CASE "late" \in mishaps
        <4>1. Len(swaps[f]) <= 2
          <5>1. \A n \in Nat : n <= 1 \/ n = 2 => n <= 2
            OBVIOUS
          <5> QED BY <3>1, <3>2, <5>1, Zenon
        <4> QED BY <3>3, <4>1, Zenon
      <3>4. CASE "late" \notin mishaps
        BY <3>1, <3>2, <3>4
      <3> QED BY <3>3, <3>4
    <2>3. /\ queue \in Seq(Tasks) /\ current \in Tasks \cup {NULL} /\ armed \in BOOLEAN
          /\ last \subseteq Tasks /\ ctx \in [Tasks -> Tasks \cup {NULL}] /\ cpu \in Tasks
      BY <2>0 DEF QueueInv, ContextInv, Places
    <2> QED BY <2>1, <2>2, <2>3 DEF TypeOK, PlaceTypes, WaitInv, SumInv, EndInv
  <1> QED BY <1>1, SpecInv, PTL

(* No flow is lost unless a signal comes between unblock and swapcontext   *)
(* or a full queue refuses a task: schedule, kill_thread and the swaps     *)
(* they leave to be made keep every live one in the processor or in one    *)
(* task of the queue.                                                      *)
THEOREM NobodyLostAlways == Spec => []NobodyLost
  <1>1. Inv => NobodyLost
    <2> SUFFICES ASSUME LibInv, mishaps = {}, swaps[cpu] = <<>>
                 PROVE  /\ \A f \in Alive : f = cpu \/ \E i \in 2 .. Len(queue) : ctx[queue[i]] = f
                        /\ \A i, j \in 2 .. Len(queue) : i # j => ctx[queue[i]] # ctx[queue[j]]
                        /\ queue # <<>> => Head(queue) = current /\ cpu = current
      BY DEF Inv, NobodyLost
    <2>0. QueueInv /\ ContextInv /\ ControlInv /\ CensusInv /\ HomeInv
      BY DEF LibInv
    <2>1. Runs
      BY <2>0 DEF ControlInv, Yields, YieldsTwice, Quits, Astray, Pending
    <2>2. /\ queue \in Seq(Tasks) /\ Once(queue) /\ Members(queue) \subseteq Known
          /\ cpu \in Known /\ Len(queue) \in Nat
      BY <2>0, <2>1 DEF QueueInv, Runs
    <2>3. \A t \in Known : t # cpu => ctx[t] = t
      BY <2>0 DEF HomeInv
    <2>4. CASE queue = <<>>
      <3>1. running = {} /\ cpu = Main
        BY <2>0, <2>2, <2>4 DEF CensusInv, Known
      <3> QED BY <2>4, <3>1 DEF Alive
    <2>5. CASE queue # <<>>
      <3>1. Known \subseteq Members(queue) /\ current = queue[1] /\ queue[1] \in Tasks
        BY <2>0, <2>2, <2>5 DEF CensusInv, QueueInv
      <3>2. cpu = queue[1] /\ Head(queue) = current /\ cpu = current
        BY <2>1, <2>2, <2>5, <3>1, NullIsNoTask DEF Runs
      <3>3. \A i \in 2 .. Len(queue) : ctx[queue[i]] = queue[i]
        <4> SUFFICES ASSUME NEW i \in 2 .. Len(queue) PROVE ctx[queue[i]] = queue[i]
          OBVIOUS
        <4>1. queue[i] \in Members(queue) /\ queue[i] # queue[1]
          BY <2>2 DEF Members, Once
        <4> QED BY <2>2, <2>3, <3>2, <4>1
      <3>4. ASSUME NEW f \in Alive, f # cpu
            PROVE  \E i \in 2 .. Len(queue) : ctx[queue[i]] = f
        <4>1. f \in Members(queue)
          BY <3>1 DEF Alive, Known
        <4>2. PICK i \in 1 .. Len(queue) : queue[i] = f
          BY <4>1 DEF Members
        <4>3. i # 1
          BY <3>2, <3>4, <4>2
        <4> QED BY <2>2, <3>3, <4>2, <4>3
      <3>5. ASSUME NEW i \in 2 .. Len(queue), NEW j \in 2 .. Len(queue), i # j
            PROVE  ctx[queue[i]] # ctx[queue[j]]
        <4>1. i \in 1 .. Len(queue) /\ j \in 1 .. Len(queue)
          BY <2>2
        <4> QED BY <2>2, <3>3, <3>5, <4>1 DEF Once
      <3> QED BY <3>2, <3>4, <3>5
    <2> QED BY <2>4, <2>5
  <1> QED BY <1>1, SpecInv, PTL

(* The queue, count and the list running agree, whatever the signals do,   *)
(* until a full queue refuses a task.                                      *)
THEOREM CensusAlways == Spec => []Census
  <1>1. Inv => Census
    <2> SUFFICES ASSUME QueueInv, CensusInv, "full" \notin mishaps
                 PROVE  /\ count = Cardinality(running)
                        /\ queue # <<>> =>
                             /\ Len(queue) = count + 1
                             /\ {queue[i] : i \in 1 .. Len(queue)} = running \cup {Main}
                        /\ queue = <<>> => running = {}
      BY DEF Inv, LibInv, Census
    <2> QED BY DEF QueueInv, CensusInv, Members, Known
  <1> QED BY <1>1, SpecInv, PTL

(* One thread at most is inside the critical section, and it owns the      *)
(* mutex, whatever the timer preempts, late signals and refused tasks      *)
(* included.                                                               *)
THEOREM MutualExclusionAlways == Spec => []MutualExclusion
  <1>1. Inv => MutualExclusion
    <2> SUFFICES ASSUME WaitInv PROVE MutualExclusion
      BY DEF Inv
    <2>1. ASSUME NEW t \in Inside PROVE lock = 1 /\ owner = t
      <3>1. t \in Members(waiters)
        BY DEF WaitInv, Inside
      <3>2. waiters # <<>>
        BY <3>1 DEF Members
      <3> QED BY <3>2 DEF WaitInv
    <2>2. lock = 1 => waiters # <<>> /\ owner = Head(waiters)
      BY DEF WaitInv
    <2> QED BY <2>1, <2>2 DEF MutualExclusion
  <1> QED BY <1>1, SpecInv, PTL

LEMMA AllStored ==
    ASSUME SumInv, \A t \in Threads : pc[t] = "dead"
    PROVE  global_sum = NThreads
  <1>1. Stored = Threads
    BY DEF Stored
  <1>2. Cardinality(Threads) = NThreads
    BY SthreadAssumption, FS_Interval DEF Threads
  <1> QED BY <1>1, <1>2 DEF SumInv

(* If main prints the sum, every thread's part is in it.                   *)
THEOREM SumCompleteAlways == Spec => []SumComplete
  <1>1. Inv => SumComplete
    BY AllStored DEF Inv, SumComplete, PlaceTypes
  <1> QED BY <1>1, SpecInv, PTL

(* With the queue empty, the timer is on only until the last thread's swap *)
(* has switched it off.                                                    *)
IdleInv == mishaps = {} /\ queue = <<>> /\ armed => Quits

LEMMA StoppedStays == fate # "ok" /\ [Next]_vars => UNCHANGED vars
  <1> SUFFICES ASSUME fate # "ok", [Next]_vars PROVE UNCHANGED vars
    OBVIOUS
  <1>1. ASSUME NEW f, NEW from, NEW to PROVE ~ Go(f, from, to)
    BY DEF Go, Executes
  <1>2. ~ MainStep
    BY <1>1 DEF MainStep, CreateBegin, CreateContext, Create, WaitCheck, WaitYield, Printed
  <1>3. ~ \E t \in Threads : ThreadStep(t)
    BY <1>1 DEF ThreadStep, NoSelf, LockFirst, LockSpin, LockGranted, Load, Store, UnlockStep,
       Return, Kill
  <1>4. ~ \E f \in Tasks : SwapStep(f)
    BY DEF SwapStep, Swap
  <1>5. ~ Timer /\ ~ TimerInBlock
    BY DEF Timer, Sigprof, TimerInBlock, Unguarded, Executes
  <1> QED BY <1>2, <1>3, <1>4, <1>5 DEF Next, Ended

LEMMA IdleKept ==
    ASSUME IdleInv, UNCHANGED <<queue, current, running, cpu, swaps, armed, mishaps>>
    PROVE  IdleInv'
  BY DEF IdleInv, Quits, Pending, TopSave, TopTo, Known

(* schedule() leaves an empty queue as it is and empties none.             *)
LEMMA IdleSchedule ==
    ASSUME LibInv, IdleInv, Len(swaps[cpu]) <= 1, schedule(cpu), mishaps' = {}
    PROVE  /\ IdleInv' /\ mishaps = {} /\ Len(swaps[cpu]) = 0
           /\ fate' # fate => queue = <<>> /\ running = {} /\ UNCHANGED schedVars
  <1>1. mishaps' = mishaps \cup Mishap(cpu)
    BY DEF schedule
  <1>2. mishaps = {} /\ Mishap(cpu) = {}
    BY <1>1
  <1>3. Len(swaps[cpu]) = 0
    BY <1>2 DEF Mishap
  <1>4. QueueInv /\ CensusInv
    BY DEF LibInv
  <1>5. CASE queue = <<>>
    <2>1. Stop("null")
      BY <1>5 DEF schedule
    <2>2. IdleInv' /\ UNCHANGED schedVars
      BY <1>1, <1>2, <2>1, IdleKept DEF Stop, schedVars
    <2> QED BY <1>2, <1>3, <1>4, <1>5, <2>2 DEF CensusInv
  <1>6. CASE queue # <<>>
    <2>1. Len(queue) >= 2 /\ queue \in Seq(Tasks) /\ current = queue[1]
      BY <1>2, <1>4, <1>6 DEF CensusInv, QueueInv
    <2>2. Len(queue) # 1 /\ current # NULL
      <3>1. Len(queue) # 1 /\ queue[1] \in Tasks
        <4>1. 1 \in 1 .. Len(queue)
          BY <2>1
        <4>2. \A n \in Nat : n >= 2 => n # 1
          OBVIOUS
        <4>3. Len(queue) \in Nat
          BY <2>1
        <4>4. Len(queue) # 1
          BY <2>1, <4>2, <4>3, Zenon
        <4>5. queue[1] \in Tasks
          BY <2>1, <4>1
        <4> QED BY <4>4, <4>5
      <3> QED BY <2>1, <3>1, NullIsNoTask
    <2>3. queue' = Tail(Requeue(Head(queue))) /\ fate' = fate
      BY <1>6, <2>2, Zenon DEF schedule
    <2>4. queue' # <<>>
      BY <1>4, <1>6, <2>2, <2>3, QueueTurned
    <2> QED BY <1>2, <1>3, <2>3, <2>4 DEF IdleInv
  <1> QED BY <1>5, <1>6

(* No thread finds the queue empty.                                        *)
LEMMA ThreadsQueue ==
    ASSUME Inv, mishaps = {}, NEW t \in Threads, Executes(t)
    PROVE  queue # <<>> /\ current = t /\ current # NULL
  <1>1. LibInv /\ t \in Tasks /\ t # Main
    BY NullIsNoTask DEF Inv
  <1>2. t \in Known /\ (queue # <<>> => current = t)
    BY <1>1, Executing
  <1>3. queue # <<>>
    BY <1>1, <1>2 DEF LibInv, CensusInv, Known
  <1> QED BY <1>1, <1>2, <1>3, NullIsNoTask

(* What remains of the crash in sthread_wait: as long as no signal comes   *)
(* late and no task is refused, it strikes main alone, when every thread   *)
(* has ended with its part in the sum.                                     *)
LateCrash ==
    mishaps = {} /\ fate = "null" => pc[Main] = "wait" /\ queue = <<>> /\ global_sum = NThreads
AllDead == \A t \in Threads : pc[t] = "dead"
CrashInv == mishaps = {} /\ fate = "null" => pc[Main] = "wait" /\ queue = <<>> /\ AllDead

LEMMA QuietStep ==
    ASSUME IdleInv, CrashInv, fate = "ok", fate' \in {"ok", "wild", "bare", "refused"},
           UNCHANGED <<queue, current, running, cpu, swaps, armed, mishaps>>
    PROVE  IdleInv' /\ CrashInv'
  BY IdleKept DEF CrashInv

LEMMA IdleMain ==
    ASSUME Inv, IdleInv, CrashInv, MainStep, fate = "ok"
    PROVE  IdleInv' /\ CrashInv'
  <1>1. CASE CreateBegin
    BY <1>1, QuietStep DEF CreateBegin, SaveLast
  <1>2. CASE CreateContext
    BY <1>2, QuietStep DEF CreateContext, MakeContexts
  <1>3. CASE Create
    <2>1. AddNew(k)
      BY <1>3 DEF Create
    <2>2. CASE queue # <<>> /\ count = MAX_THREAD
      <3>1. Stop("refused") /\ UNCHANGED mishaps
        BY <2>1, <2>2 DEF AddNew
      <3> QED BY <3>1, QuietStep DEF Stop, schedVars
    <2>3. CASE ~(queue # <<>> /\ count = MAX_THREAD)
      <3>1. fate' = fate
        BY <2>1, <2>3, Zenon DEF AddNew
      <3>2. queue' = <<Main, k>> \/ (queue # <<>> /\ queue' = Append(queue, k))
        BY <2>1, <2>3, Zenon DEF AddNew
      <3>3. queue' # <<>>
        <4>1. queue \in Seq(Tasks)
          BY DEF Inv, LibInv, QueueInv
        <4>2. <<Main, k>> # <<>>
          OBVIOUS
        <4>3. Append(queue, k) # <<>>
          <5>1. Append(queue, k)[Len(queue) + 1] = k /\ Len(queue) \in Nat
            BY <4>1
          <5>2. Len(Append(queue, k)) = Len(queue) + 1
            BY <4>1
          <5>3. Len(<<>>) = 0
            OBVIOUS
          <5>4. Append(queue, k) = <<>> => Len(queue) + 1 = 0
            BY <5>2, <5>3, Zenon
          <5>5. \A n \in Nat : n + 1 # 0
            OBVIOUS
          <5> QED BY <5>1, <5>4, <5>5, Zenon
        <4> QED BY <3>2, <4>2, <4>3, Zenon
      <3> QED BY <3>1, <3>3 DEF IdleInv, CrashInv
    <2> QED BY <2>2, <2>3
  <1>4. CASE WaitCheck \/ Printed
    <2>1. UNCHANGED libVars
      BY <1>4 DEF WaitCheck, Printed, OnlyApp
    <2> QED BY <2>1, QuietStep DEF libVars, schedVars
  <1>5. CASE WaitYield
    <2>1. /\ Go(Main, "yield", "wait") /\ schedule(Main) /\ Executes(Main)
          /\ pc[Main] = "yield" /\ pc' = [pc EXCEPT ![Main] = "wait"]
      BY <1>5 DEF WaitYield, Go
    <2>2. LibInv /\ PlaceInv /\ PlaceTypes /\ Main \in Tasks
      BY NullIsNoTask DEF Inv
    <2>3. cpu = Main /\ Len(swaps[cpu]) = 0
      BY <2>1, <2>2, Executing
    <2>4. ASSUME mishaps' = {}
          PROVE  IdleInv' /\ (fate' # "ok" => queue' = <<>> /\ running = {})
      BY <2>1, <2>2, <2>3, <2>4, IdleSchedule DEF schedVars
    <2>5. pc'[Main] = "wait" /\ \A t \in Threads : pc'[t] = pc[t]
      BY <2>1, <2>2, NullIsNoTask DEF PlaceTypes
    <2>6. running = {} => AllDead
      <3>1. Created = Threads
        BY <2>1 DEF Created, Creating
      <3> QED BY <2>2, <3>1 DEF PlaceInv, AllDead
    <2>7. running = {} => AllDead'
      BY <2>5, <2>6 DEF AllDead
    <2> QED BY <2>4, <2>5, <2>7 DEF IdleInv, CrashInv
  <1> QED BY <1>1, <1>2, <1>3, <1>4, <1>5 DEF MainStep

LEMMA IdleThread ==
    ASSUME Inv, IdleInv, CrashInv, NEW t \in Threads, ThreadStep(t), fate = "ok"
    PROVE  IdleInv' /\ CrashInv'
  <1>1. LibInv /\ t \in Tasks
    BY NullIsNoTask DEF Inv
  <1>2. CASE NoSelf(t)
    <2>1. Executes(t) /\ current = NULL /\ UNCHANGED mishaps
      BY <1>2 DEF NoSelf, Go
    <2>2. mishaps # {}
      BY <2>1, ThreadsQueue
    <2> QED BY <2>1, <2>2 DEF IdleInv, CrashInv
  <1>3. CASE LockSpin(t)
    <2>1. Executes(t) /\ schedule(t) /\ cpu = t /\ Len(swaps[cpu]) = 0
      BY <1>1, <1>3, Executing DEF LockSpin, Go
    <2>2. ASSUME mishaps' = {} PROVE IdleInv' /\ fate' = fate
      <3>1. IdleInv' /\ mishaps = {} /\ (fate' # fate => queue = <<>>)
        BY <1>1, <2>1, <2>2, IdleSchedule
      <3> QED BY <2>1, <3>1, ThreadsQueue
    <2> QED BY <2>2 DEF IdleInv, CrashInv
  <1>4. CASE Return(t)
    BY <1>4, QuietStep DEF Return, Leave
  <1>5. CASE Kill(t)
    <2>1. Executes(t) /\ kill_thread(t)
      BY <1>5 DEF Kill, Go
    <2>2. mishaps' = mishaps /\ LibInv' /\ (fate' = "null" => mishaps # {})
      BY <1>1, <2>1, KillStep
    <2>3. CrashInv'
      BY <2>2 DEF CrashInv
    <2>4. ASSUME mishaps = {}, queue' = <<>> PROVE Quits'
      <3>1. QueueInv /\ CensusInv /\ ContextInv /\ cpu = t /\ Len(swaps[cpu]) = 0 /\ queue # <<>>
        BY <1>1, <2>1, <2>4, Executing, ThreadsQueue DEF LibInv
      <3>2. /\ Len(queue) >= 2 /\ queue \in Seq(Tasks) /\ ~(Len(queue) < 2) /\ queue[2] \in Tasks
            /\ Len(queue) \in Nat
        <4>1. Len(queue) >= 2 /\ queue \in Seq(Tasks)
          BY <2>4, <3>1 DEF CensusInv, QueueInv
        <4> QED BY <4>1
      <3>3. Len(queue) = 2
        <4> SUFFICES ASSUME Len(queue) # 2 PROVE FALSE
          OBVIOUS
        <4>1. queue' = Tail(queue)
          BY <2>1, <3>2 DEF kill_thread
        <4>2. Len(Tail(queue)) = Len(queue) - 1
          BY <3>1, <3>2
        <4>3. Len(<<>>) = 0
          OBVIOUS
        <4>4. Len(queue) - 1 = 0
          BY <2>4, <4>1, <4>2, <4>3, Zenon
        <4>5. \A n \in Nat : n >= 2 => n - 1 # 0
          OBVIOUS
        <4> QED BY <3>2, <4>4, <4>5, Zenon
      <3>4. /\ current' = NULL /\ SwapLater(cpu, NULL, queue[2]) /\ cpu' = cpu
            /\ running' = running \ {Head(queue)} /\ Head(queue) = queue[1]
        BY <2>1, <3>1, <3>2, <3>3 DEF kill_thread
      <3>5. /\ Len(swaps'[cpu]) = 1 /\ swaps'[cpu][1].save = NULL
            /\ swaps'[cpu][1].to = queue[2]
        BY <3>1, <3>2, <3>4, Pushed, NullIsNoTask
      <3>6. queue[2] \in Known'
        <4>1. queue[2] \in Members(queue) /\ queue[2] # queue[1]
          BY <3>1, <3>2 DEF QueueInv, Members, Once
        <4> QED BY <3>1, <3>4, <4>1 DEF QueueInv, Known
      <3> QED BY <2>4, <3>4, <3>5, <3>6 DEF Quits, Pending, TopSave, TopTo
    <2> QED BY <2>2, <2>3, <2>4 DEF IdleInv
  <1>6. CASE LockFirst(t) \/ LockGranted(t) \/ Load(t) \/ Store(t) \/ UnlockStep(t)
    <2>1. UNCHANGED libVars
      BY <1>6 DEF LockFirst, LockGranted, Load, Store, UnlockStep, OnlyApp
    <2> QED BY <2>1, QuietStep DEF libVars, schedVars
  <1> QED BY <1>2, <1>3, <1>4, <1>5, <1>6 DEF ThreadStep

LEMMA IdleSwap ==
    ASSUME Inv, IdleInv, CrashInv, NEW f \in Tasks, SwapStep(f), fate = "ok"
    PROVE  IdleInv' /\ CrashInv'
  <1>1. LibInv /\ Swap(f)
    BY DEF Inv, SwapStep
  <1>2. mishaps' = mishaps /\ (fate' # fate => mishaps # {})
    BY <1>1, SwapLemma
  <1>3. CrashInv'
    BY <1>2 DEF CrashInv
  <1>4. ASSUME mishaps = {}, queue' = <<>>, armed' PROVE FALSE
    <2>1. ~ Stop("null") /\ ~ Stop("wild")
      BY <1>2, <1>4 DEF Stop
    <2>2. Swapped
      BY <1>1, <2>1, SwapCases
    <2>3. queue = <<>> /\ armed /\ TopTo = NULL
      BY <1>4, <2>2 DEF Swapped
    <2>4. TopTo \in Known
      BY <1>4, <2>3 DEF IdleInv, Quits
    <2> QED BY <1>1, <2>3, <2>4, KnownTasks DEF LibInv
  <1> QED BY <1>2, <1>3, <1>4 DEF IdleInv

LEMMA IdleTimer ==
    ASSUME Inv, IdleInv, CrashInv, Timer, fate = "ok"
    PROVE  IdleInv' /\ CrashInv'
  <1>1. LibInv /\ armed /\ Len(swaps[cpu]) <= 1 /\ schedule(cpu)
    BY DEF Inv, Timer, Sigprof
  <1>2. ASSUME mishaps' = {} PROVE IdleInv' /\ fate' = fate
    <2>1. /\ IdleInv' /\ mishaps = {} /\ Len(swaps[cpu]) = 0
          /\ fate' # fate => queue = <<>>
      BY <1>1, <1>2, IdleSchedule
    <2>2. queue # <<>>
      BY <1>1, <2>1 DEF IdleInv, Quits, Pending
    <2> QED BY <2>1, <2>2
  <1> QED BY <1>2 DEF IdleInv, CrashInv

THEOREM LateCrashAlways == Spec => []LateCrash
  <1>1. Init => IdleInv /\ CrashInv
    BY DEF Init, LibInit, IdleInv, CrashInv
  <1>2. Inv /\ IdleInv /\ CrashInv /\ [Next]_vars => IdleInv' /\ CrashInv'
    <2> SUFFICES ASSUME Inv, IdleInv, CrashInv, [Next]_vars PROVE IdleInv' /\ CrashInv'
      OBVIOUS
    <2>1. CASE UNCHANGED vars
      BY <2>1, IdleKept DEF vars, libVars, schedVars, appVars, CrashInv, AllDead
    <2>2. CASE ~ UNCHANGED vars
      <3>1. fate = "ok" /\ Next
        BY <2>2, StoppedStays
      <3>2. CASE MainStep
        BY <3>1, <3>2, IdleMain
      <3>3. CASE \E t \in Threads : ThreadStep(t)
        BY <3>1, <3>3, IdleThread
      <3>4. CASE \E f \in Tasks : SwapStep(f)
        BY <3>1, <3>4, IdleSwap
      <3>5. CASE Timer
        BY <3>1, <3>5, IdleTimer
      <3>6. CASE TimerInBlock
        BY <3>1, <3>6, QuietStep DEF TimerInBlock, Unguarded, Stop, schedVars
      <3> QED BY <2>2, <3>1, <3>2, <3>3, <3>4, <3>5, <3>6 DEF Next, Ended
    <2> QED BY <2>1, <2>2
  <1>3. Inv /\ CrashInv => LateCrash
    BY AllStored DEF Inv, CrashInv, AllDead, LateCrash
  <1> QED BY <1>1, <1>2, <1>3, SpecInv, PTL DEF Spec
=============================================================================
