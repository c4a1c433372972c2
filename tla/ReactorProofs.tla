--------------------------- MODULE ReactorProofs ----------------------------
(***************************************************************************)
(* Proofs about Worker and about Reactor, which extends it, for any number *)
(* of callbacks, threads and calls of stop().                              *)
(*                                                                         *)
(* The pool first: `active` counts the threads that exist and, while none  *)
(* exists, nothing is queued for one.  Then the loop: run() reads `active` *)
(* in a step of its own, after libevent has returned; what makes the       *)
(* reading good for the rest of the run is that only the I/O thread and    *)
(* the threads that exist could submit a call or register an event.        *)
(***************************************************************************)
EXTENDS Reactor, FiniteSetTheorems, SequenceTheorems, TLAPS

(***************************************************************************)
(* The counter, the states of the threads and the queue hold together: the *)
(* inductive invariant behind the theorems about threads.                  *)
(***************************************************************************)
PoolInv == TypeOK /\ BoundedThreads /\ WorkConserving /\ StartsInOrder

\* The sets of threads whose sizes the invariant speaks of are finite.
LEMMA FiniteThreadSets ==
  /\ IsFiniteSet(Alive)
  /\ IsFiniteSet(Popping)
  /\ Popping \subseteq Alive
  /\ Cardinality(Popping) \in Nat
  /\ Cardinality(Alive) \in Nat
  /\ Cardinality(Popping) <= Cardinality(Alive)
<1>1. Alive \in SUBSET Thread /\ Popping \in SUBSET Alive
  BY DEF Alive, Popping
<1>2. IsFiniteSet(Alive)
  BY <1>1, WorkerAssumption, FS_Subset
<1>3. IsFiniteSet(Popping) /\ Cardinality(Popping) <= Cardinality(Alive)
  BY <1>1, <1>2, FS_Subset
<1> QED
  BY <1>1, <1>2, <1>3, FS_CardinalityType

\* One thread changes state.
Moves(t, from, to) ==
  /\ wpc \in [Thread -> {"gone", "popping", "running"}]
  /\ wpc[t] = from
  /\ wpc' = [wpc EXCEPT ![t] = to]

\* What each move of a thread does to the number of threads that exist and
\* to the number of those about to pop.
LEMMA ThreadMoves ==
  ASSUME NEW t \in Thread
  PROVE  /\ Moves(t, "gone", "popping") =>
              /\ Cardinality(Alive') = Cardinality(Alive) + 1
              /\ Cardinality(Popping') = Cardinality(Popping) + 1
         /\ Moves(t, "popping", "running") =>
              /\ Cardinality(Alive') = Cardinality(Alive)
              /\ Cardinality(Popping') = Cardinality(Popping) - 1
         /\ Moves(t, "running", "popping") =>
              /\ Cardinality(Alive') = Cardinality(Alive)
              /\ Cardinality(Popping') = Cardinality(Popping) + 1
         /\ Moves(t, "popping", "gone") =>
              /\ Cardinality(Alive') = Cardinality(Alive) - 1
              /\ Cardinality(Popping') = Cardinality(Popping) - 1
<1>1. /\ t \notin Alive => Cardinality(Alive \union {t}) = Cardinality(Alive) + 1
      /\ t \in Alive => Cardinality(Alive \ {t}) = Cardinality(Alive) - 1
      /\ t \notin Popping => Cardinality(Popping \union {t}) = Cardinality(Popping) + 1
      /\ t \in Popping => Cardinality(Popping \ {t}) = Cardinality(Popping) - 1
  BY FiniteThreadSets, FS_AddElement, FS_RemoveElement
<1>2. ASSUME Moves(t, "gone", "popping")
      PROVE  /\ t \notin Alive /\ Alive' = Alive \union {t}
             /\ t \notin Popping /\ Popping' = Popping \union {t}
  BY <1>2 DEF Moves, Alive, Popping
<1>3. ASSUME Moves(t, "popping", "running")
      PROVE  /\ Alive' = Alive
             /\ t \in Popping /\ Popping' = Popping \ {t}
  BY <1>3 DEF Moves, Alive, Popping
<1>4. ASSUME Moves(t, "running", "popping")
      PROVE  /\ Alive' = Alive
             /\ t \notin Popping /\ Popping' = Popping \union {t}
  BY <1>4 DEF Moves, Alive, Popping
<1>5. ASSUME Moves(t, "popping", "gone")
      PROVE  /\ t \in Alive /\ Alive' = Alive \ {t}
             /\ t \in Popping /\ Popping' = Popping \ {t}
  BY <1>5 DEF Moves, Alive, Popping
<1> QED
  BY <1>1, <1>2, <1>3, <1>4, <1>5

LEMMA PoolInit == Init => PoolInv
<1> SUFFICES ASSUME Init PROVE PoolInv
  OBVIOUS
<1>1. Alive = {} /\ Popping = {}
  BY DEF Init, Alive, Popping
<1>2. TypeOK
  BY WorkerAssumption DEF Init, TypeOK
<1>3. BoundedThreads
  BY <1>1, FS_EmptySet, WorkerAssumption DEF Init, BoundedThreads
<1>4. WorkConserving
  BY <1>1, FS_EmptySet DEF Init, WorkConserving
<1>5. StartsInOrder
  BY DEF Init, StartsInOrder
<1> QED
  BY <1>2, <1>3, <1>4, <1>5 DEF PoolInv

\* One case per action: the counter follows the threads, and the history
\* of what started is a prefix of what was submitted.
LEMMA PoolStep == PoolInv /\ [Next]_vars => PoolInv'
<1> SUFFICES ASSUME PoolInv, [Next]_vars PROVE PoolInv'
  OBVIOUS
<1> USE DEF PoolInv
<1>a. /\ queue \in Seq(Call) /\ started \in Seq(Call) /\ accepted \in Seq(Call)
      /\ active \in Nat /\ active = Cardinality(Alive) /\ active <= MaxParallelism
      /\ wpc \in [Thread -> {"gone", "popping", "running"}]
      /\ parallelism \in MinParallelism..MaxParallelism
      /\ MinParallelism \in Nat /\ MaxParallelism \in Nat
  BY WorkerAssumption DEF TypeOK, BoundedThreads
<1>b. ASSUME NEW c \in Call, Enqueue(c)
      PROVE  /\ queue' \in Seq(Call) /\ accepted' \in Seq(Call)
             /\ Len(queue') = Len(queue) + 1
             /\ StartsInOrder'
  <2>1. accepted' = (started \o queue) \o <<c>> /\ queue' = queue \o <<c>>
    BY <1>a, <1>b, AppendIsConcat DEF Enqueue, StartsInOrder
  <2>2. started' = started
    BY <1>b DEF Enqueue
  <2>3. (started \o queue) \o <<c>> = started \o (queue \o <<c>>)
    <3>1. started \in Seq(Call) /\ queue \in Seq(Call) /\ <<c>> \in Seq(Call)
      BY <1>a
    <3> QED
      BY <3>1, ConcatAssociative
  <2>4. /\ queue' \in Seq(Call) /\ accepted' \in Seq(Call)
        /\ Len(queue') = Len(queue) + 1
    BY <1>a, <1>b, AppendProperties DEF Enqueue
  <2> QED
    BY <2>1, <2>2, <2>3, <2>4 DEF StartsInOrder
<1>1. ASSUME NEW c \in Call, CallQueued(c) PROVE PoolInv'
  <2>1. Enqueue(c) /\ active >= parallelism /\ UNCHANGED <<active, wpc>>
    BY <1>1 DEF CallQueued
  <2>2. Alive' = Alive
    BY <2>1 DEF Alive
  <2>3. TypeOK'
    BY <1>b, <2>1 DEF TypeOK, Enqueue
  <2>4. BoundedThreads'
    BY <2>1, <2>2 DEF BoundedThreads
  <2>5. WorkConserving'
    BY <1>a, <2>1 DEF WorkConserving
  <2> QED
    BY <1>b, <2>1, <2>3, <2>4, <2>5
<1>2. ASSUME NEW c \in Call, NEW t \in Thread, CallSpawns(c, t) PROVE PoolInv'
  <2>1. /\ Enqueue(c) /\ active < parallelism /\ wpc[t] = "gone"
        /\ active' = active + 1 /\ wpc' = [wpc EXCEPT ![t] = "popping"]
    BY <1>2 DEF CallSpawns
  <2>2. /\ Cardinality(Alive') = Cardinality(Alive) + 1
        /\ Cardinality(Popping') = Cardinality(Popping) + 1
    BY <1>a, <2>1, ThreadMoves DEF Moves
  <2>3. TypeOK'
    BY <1>a, <1>b, <2>1 DEF TypeOK, Enqueue
  <2>4. BoundedThreads'
    BY <1>a, <2>1, <2>2 DEF BoundedThreads
  <2>5. WorkConserving'
    <3>1. Len(queue') = Len(queue) + 1 /\ Len(queue) \in Nat
      BY <1>a, <1>b, <2>1
    <3> QED
      BY <1>a, <2>1, <2>2, <3>1, FiniteThreadSets DEF WorkConserving
  <2> QED
    BY <1>b, <2>1, <2>3, <2>4, <2>5
<1>3. ASSUME NEW t \in Thread, Pop(t) PROVE PoolInv'
  <2>1. /\ wpc[t] = "popping" /\ queue # <<>>
        /\ queue' = Tail(queue) /\ started' = Append(started, Head(queue))
        /\ wpc' = [wpc EXCEPT ![t] = "running"]
        /\ job' = [job EXCEPT ![t] = Head(queue)]
        /\ UNCHANGED <<active, parallelism, accepted, finished>>
    BY <1>3 DEF Pop
  <2>2. /\ Cardinality(Alive') = Cardinality(Alive)
        /\ Cardinality(Popping') = Cardinality(Popping) - 1
    BY <1>a, <2>1, ThreadMoves DEF Moves
  <2>3. /\ Head(queue) \in Call /\ Tail(queue) \in Seq(Call)
        /\ Len(queue') = Len(queue) - 1
    BY <1>a, <2>1, HeadTailProperties
  <2>4. started' \in Seq(Call) /\ started' = started \o <<Head(queue)>>
    BY <1>a, <2>1, <2>3, AppendProperties, AppendIsConcat
  <2>5. TypeOK'
    BY <1>a, <2>1, <2>3, <2>4, WorkerAssumption DEF TypeOK
  <2>6. BoundedThreads'
    BY <1>a, <2>1, <2>2 DEF BoundedThreads
  <2>7. WorkConserving'
    <3>1. Len(queue) \in Nat
      BY <1>a
    <3> QED
      BY <1>a, <2>1, <2>2, <2>3, <3>1, FiniteThreadSets DEF WorkConserving
  <2>8. StartsInOrder'
    <3>1. queue = <<Head(queue)>> \o Tail(queue)
      BY <1>a, <2>1
    <3>2. (started \o <<Head(queue)>>) \o Tail(queue)
            = started \o (<<Head(queue)>> \o Tail(queue))
      <4>1. started \in Seq(Call) /\ <<Head(queue)>> \in Seq(Call) /\ Tail(queue) \in Seq(Call)
        BY <1>a, <2>3
      <4> QED
        BY <4>1, ConcatAssociative
    <3> QED
      BY <2>1, <2>4, <3>1, <3>2 DEF StartsInOrder
  <2> QED
    BY <2>5, <2>6, <2>7, <2>8
<1>4. ASSUME NEW t \in Thread, Exit(t) PROVE PoolInv'
  <2>1. /\ wpc[t] = "popping" /\ queue = <<>> /\ active' = active - 1
        /\ wpc' = [wpc EXCEPT ![t] = "gone"]
        /\ UNCHANGED <<queue, parallelism, job, accepted, started, finished>>
    BY <1>4 DEF Exit
  <2>2. /\ Cardinality(Alive') = Cardinality(Alive) - 1
        /\ Cardinality(Popping') = Cardinality(Popping) - 1
    BY <1>a, <2>1, ThreadMoves DEF Moves
  <2>3. t \in Alive
    BY <2>1 DEF Alive
  <2>4. Cardinality(Alive) # 0
    BY <2>3, FiniteThreadSets, FS_EmptySet
  <2>5. active' \in Nat
    BY <1>a, <2>1, <2>4
  <2>6. TypeOK'
    BY <1>a, <2>1, <2>5 DEF TypeOK
  <2>7. BoundedThreads'
    BY <1>a, <2>1, <2>2 DEF BoundedThreads
  <2>8. WorkConserving'
    <3>1. Len(queue') = 0
      BY <2>1
    <3>2. Cardinality(Popping') >= 0
      <4>1. t \in Popping
        BY <2>1 DEF Popping
      <4>2. Cardinality(Popping) # 0
        BY <4>1, FiniteThreadSets, FS_EmptySet
      <4> QED
        BY <2>2, <4>2, FiniteThreadSets
    <3> QED
      BY <3>1, <3>2 DEF WorkConserving
  <2>9. StartsInOrder'
    BY <2>1 DEF StartsInOrder
  <2> QED
    BY <2>6, <2>7, <2>8, <2>9
<1>5. ASSUME NEW t \in Thread, Finish(t) PROVE PoolInv'
  <2>1. /\ wpc[t] = "running" /\ wpc' = [wpc EXCEPT ![t] = "popping"]
        /\ job' = [job EXCEPT ![t] = NoCall]
        /\ finished' = finished \union {job[t]}
        /\ UNCHANGED <<queue, active, parallelism, accepted, started>>
    BY <1>5 DEF Finish
  <2>2. /\ Cardinality(Alive') = Cardinality(Alive)
        /\ Cardinality(Popping') = Cardinality(Popping) + 1
    BY <1>a, <2>1, ThreadMoves DEF Moves
  <2>3. TypeOK'
    BY <1>a, <2>1 DEF TypeOK
  <2>4. BoundedThreads'
    BY <1>a, <2>1, <2>2 DEF BoundedThreads
  <2>5. WorkConserving'
    <3>1. Len(queue) \in Nat
      BY <1>a
    <3> QED
      BY <1>a, <2>1, <2>2, <3>1, FiniteThreadSets DEF WorkConserving
  <2> QED
    BY <2>1, <2>3, <2>4, <2>5 DEF StartsInOrder
<1>6. ASSUME NEW n \in MinParallelism..MaxParallelism, SetParallelism(n) PROVE PoolInv'
  BY <1>6 DEF SetParallelism, TypeOK, BoundedThreads, WorkConserving,
              StartsInOrder, Alive, Popping
<1>7. CASE UNCHANGED vars
  BY <1>7 DEF vars, TypeOK, BoundedThreads, WorkConserving,
              StartsInOrder, Alive, Popping
<1> QED
  BY <1>1, <1>2, <1>3, <1>4, <1>5, <1>6, <1>7 DEF Next, Submit, ThreadStep

\* When the counter is zero no thread exists and nothing waits for one.
LEMMA IdlePool ==
  ASSUME PoolInv, active = 0
  PROVE  queue = <<>> /\ \A t \in Thread : wpc[t] = "gone"
<1>1. Cardinality(Alive) = 0 /\ queue \in Seq(Call)
  BY DEF PoolInv, BoundedThreads, TypeOK
<1>2. Alive = {}
  BY <1>1, FiniteThreadSets, FS_EmptySet
<1>3. Len(queue) <= Cardinality(Popping)
  BY WorkerAssumption DEF PoolInv, WorkConserving
<1>4. Len(queue) = 0
  BY <1>1, <1>3, FiniteThreadSets
<1> QED
  BY <1>1, <1>2, <1>4 DEF Alive

-----------------------------------------------------------------------------
(***************************************************************************)
(* Each call was submitted once, and those that threads popped are run by  *)
(* one thread each or over: with the order of the queue, what makes the    *)
(* pool the line of calls that BackgroundCalls describes.                  *)
(***************************************************************************)
Popped == {started[i] : i \in 1..Len(started)}

EachCallOnce ==
  /\ \A i, j \in 1..Len(accepted) : accepted[i] = accepted[j] => i = j
  /\ Jobs \subseteq Popped /\ finished \subseteq Popped
  /\ \A t, u \in Running : job[t] = job[u] => t = u

\* The calls that threads popped came before those that wait.
LEMMA CallsInOrder ==
  ASSUME PoolInv, EachCallOnce
  PROVE  /\ Popped \subseteq Submitted
         /\ \A i \in 1..Len(queue) : queue[i] \in Submitted
         /\ queue # <<>> => Head(queue) \notin Popped
<1>1. /\ accepted = started \o queue /\ started \in Seq(Call) /\ queue \in Seq(Call)
      /\ Len(started) \in Nat /\ Len(queue) \in Nat
  BY DEF PoolInv, StartsInOrder, TypeOK
<1>2. /\ Len(accepted) = Len(started) + Len(queue)
      /\ \A i \in 1..Len(started) : accepted[i] = started[i]
      /\ \A i \in 1..Len(queue) : accepted[Len(started) + i] = queue[i]
  BY <1>1, ConcatProperties
<1>3. Popped \subseteq Submitted
  BY <1>1, <1>2 DEF Popped, Submitted
<1>4. \A i \in 1..Len(queue) : queue[i] \in Submitted
  BY <1>1, <1>2 DEF Submitted
<1>5. ASSUME queue # <<>>, NEW i \in 1..Len(started), started[i] = Head(queue)
      PROVE  FALSE
  <2>1. 1 \in 1..Len(queue) /\ Head(queue) = queue[1]
    BY <1>1, <1>5
  <2>2. accepted[i] = accepted[Len(started) + 1]
    BY <1>2, <1>5, <2>1
  <2>3. /\ i \in 1..Len(accepted) /\ Len(started) + 1 \in 1..Len(accepted)
        /\ i # Len(started) + 1
    BY <1>1, <1>2, <2>1
  <2>. QED
    BY <2>2, <2>3 DEF EachCallOnce
<1>. QED
  BY <1>3, <1>4, <1>5 DEF Popped

\* A thread that pops leaves fewer running callbacks than the largest limit.
LEMMA RoomToRun ==
  ASSUME PoolInv, NEW t \in Thread, wpc[t] = "popping"
  PROVE  Cardinality(Jobs) < MaxParallelism
<1>. DEFINE f == [u \in Running |-> job[u]]
<1>1. f \in Surjection(Running, Jobs)
  BY DEF Surjection, Jobs
<1>2. Running \subseteq Alive \ {t} /\ t \in Alive
  BY DEF Running, Alive
<1>3. /\ IsFiniteSet(Alive \ {t})
      /\ Cardinality(Alive \ {t}) = Cardinality(Alive) - 1
  BY <1>2, FiniteThreadSets, FS_RemoveElement
<1>4. IsFiniteSet(Running) /\ Cardinality(Running) <= Cardinality(Alive) - 1
  BY <1>2, <1>3, FS_Subset
<1>. HIDE DEF f
<1>5. IsFiniteSet(Jobs) /\ Cardinality(Jobs) <= Cardinality(Running)
  BY <1>1, <1>4, FS_Surjection
<1>6. /\ Cardinality(Jobs) \in Nat /\ Cardinality(Running) \in Nat
      /\ Cardinality(Alive) \in Nat /\ MaxParallelism \in Nat
      /\ Cardinality(Alive) <= MaxParallelism
  BY <1>4, <1>5, FiniteThreadSets, FS_CardinalityType, WorkerAssumption
     DEF PoolInv, BoundedThreads
<1>. QED
  BY <1>4, <1>5, <1>6

LEMMA OnceInit == Init => EachCallOnce
<1>. SUFFICES ASSUME Init
              PROVE  EachCallOnce
  OBVIOUS
<1>1. Running = {} /\ Jobs = {} /\ finished = {} /\ accepted = <<>>
  BY DEF Init, Running, Jobs
<1>. QED
  BY <1>1 DEF EachCallOnce

\* One more call is submitted: the threads go on with what they run.
LEMMA SubmitKeeps ==
  ASSUME PoolInv, EachCallOnce, NEW c \in Call, Submit(c)
  PROVE  EachCallOnce' /\ Pool!Submit(c)
<1>1. /\ c \notin Submitted /\ queue' = Append(queue, c) /\ accepted' = Append(accepted, c)
      /\ UNCHANGED <<job, started, finished>>
      /\ wpc' = wpc \/ \E t \in Thread : wpc[t] = "gone" /\ wpc' = [wpc EXCEPT ![t] = "popping"]
  BY DEF Submit, CallQueued, CallSpawns, Enqueue
<1>2. wpc \in [Thread -> {"gone", "popping", "running"}]
  BY DEF PoolInv, TypeOK
<1>3. Running' = Running
  BY <1>1, <1>2 DEF Running
<1>4. Jobs' = Jobs /\ Popped' = Popped
  BY <1>1, <1>3 DEF Jobs, Popped
<1>5. \A i, j \in 1..Len(accepted') : accepted'[i] = accepted'[j] => i = j
  <2>1. accepted \in Seq(Call) /\ Len(accepted) \in Nat
    BY DEF PoolInv, TypeOK
  <2>2. /\ Len(accepted') = Len(accepted) + 1 /\ accepted'[Len(accepted) + 1] = c
        /\ \A i \in 1..Len(accepted) : accepted'[i] = accepted[i] /\ accepted[i] # c
    BY <1>1, <2>1, AppendProperties DEF Submitted
  <2>3. \A i, j \in 1..Len(accepted) : accepted[i] = accepted[j] => i = j
    BY DEF EachCallOnce
  <2>. QED
    BY <2>1, <2>2, <2>3
<1>6. EachCallOnce'
  BY <1>1, <1>3, <1>4, <1>5 DEF EachCallOnce
<1>7. c \notin Pool!Waiting \union Jobs \union finished
  BY <1>1, CallsInOrder DEF Pool!Waiting, EachCallOnce
<1>. QED
  BY <1>1, <1>4, <1>6, <1>7 DEF Pool!Submit

\* A thread pops the first call of the line, which no thread ran before.
LEMMA PopKeeps ==
  ASSUME PoolInv, EachCallOnce, NEW t \in Thread, Pop(t)
  PROVE  EachCallOnce' /\ Pool!Start
<1>1. /\ wpc[t] = "popping" /\ queue # <<>> /\ queue' = Tail(queue)
      /\ job' = [job EXCEPT ![t] = Head(queue)] /\ started' = Append(started, Head(queue))
      /\ wpc' = [wpc EXCEPT ![t] = "running"] /\ UNCHANGED <<accepted, finished>>
  BY DEF Pop
<1>2. /\ wpc \in [Thread -> {"gone", "popping", "running"}] /\ started \in Seq(Call)
      /\ job \in [Thread -> Call \union {NoCall}]
  BY DEF PoolInv, TypeOK
<1>3. /\ Running' = Running \union {t} /\ t \notin Running /\ Running \subseteq Thread
      /\ job'[t] = Head(queue) /\ \A u \in Running : job'[u] = job[u]
  BY <1>1, <1>2 DEF Running
<1>4. Jobs' = Jobs \union {Head(queue)}
  BY <1>3 DEF Jobs
<1>5. Popped' = Popped \union {Head(queue)}
  <2>1. /\ Len(started') = Len(started) + 1 /\ Len(started) \in Nat
        /\ started'[Len(started) + 1] = Head(queue)
        /\ \A i \in 1..Len(started) : started'[i] = started[i]
    BY <1>1, <1>2, AppendProperties
  <2>. QED
    BY <2>1 DEF Popped
<1>6. \A u \in Running : job[u] # Head(queue)
  BY <1>1, CallsInOrder DEF EachCallOnce, Jobs
<1>7. \A u, v \in Running' : job'[u] = job'[v] => u = v
  BY <1>3, <1>6 DEF EachCallOnce
<1>8. EachCallOnce'
  BY <1>1, <1>4, <1>5, <1>7 DEF EachCallOnce
<1>9. Pool!Cardinality(Jobs) < MaxParallelism
  <2>1. Pool!Cardinality(Jobs) = Cardinality(Jobs)
    BY Zenon DEF Pool!Cardinality, Cardinality
  <2>. QED
    BY <1>1, <2>1, RoomToRun
<1>. QED
  BY <1>1, <1>4, <1>8, <1>9 DEF Pool!Start

\* A callback returns, which one thread ran.
LEMMA FinishKeeps ==
  ASSUME PoolInv, EachCallOnce, NEW t \in Thread, Finish(t)
  PROVE  EachCallOnce' /\ job[t] \in Call /\ Pool!Finish(job[t])
<1>1. /\ wpc[t] = "running" /\ wpc' = [wpc EXCEPT ![t] = "popping"]
      /\ job' = [job EXCEPT ![t] = NoCall] /\ finished' = finished \union {job[t]}
      /\ UNCHANGED <<queue, accepted, started>>
  BY DEF Finish
<1>2. /\ wpc \in [Thread -> {"gone", "popping", "running"}]
      /\ job \in [Thread -> Call \union {NoCall}] /\ job[t] \in Call
  BY <1>1 DEF PoolInv, TypeOK
<1>3. /\ Running' = Running \ {t} /\ t \in Running
      /\ \A u \in Running' : job'[u] = job[u]
  BY <1>1, <1>2 DEF Running
<1>4. Jobs' = Jobs \ {job[t]} /\ job[t] \in Jobs
  BY <1>3 DEF Jobs, EachCallOnce
<1>5. EachCallOnce'
  BY <1>1, <1>3, <1>4 DEF EachCallOnce, Popped
<1>. QED
  BY <1>1, <1>2, <1>4, <1>5 DEF Pool!Finish

LEMMA OnceStep ==
  PoolInv /\ EachCallOnce /\ [Next]_vars => EachCallOnce' /\ [Pool!Next]_(Pool!vars)
<1>. SUFFICES ASSUME PoolInv, EachCallOnce, [Next]_vars
              PROVE  EachCallOnce' /\ [Pool!Next]_(Pool!vars)
  OBVIOUS
<1>1. ASSUME NEW c \in Call, Submit(c)
      PROVE  EachCallOnce' /\ [Pool!Next]_(Pool!vars)
  BY <1>1, SubmitKeeps DEF Pool!Next
<1>2. ASSUME NEW t \in Thread, ThreadStep(t)
      PROVE  EachCallOnce' /\ [Pool!Next]_(Pool!vars)
  <2>1. CASE Pop(t)
    BY <2>1, PopKeeps DEF Pool!Next
  <2>2. CASE Exit(t)
    <3>1. /\ wpc[t] = "popping" /\ wpc' = [wpc EXCEPT ![t] = "gone"]
          /\ UNCHANGED <<queue, job, accepted, started, finished>>
      BY <2>2 DEF Exit
    <3>2. Running' = Running
      BY <3>1 DEF Running, PoolInv, TypeOK
    <3>3. Jobs' = Jobs /\ Popped' = Popped
      BY <3>1, <3>2 DEF Jobs, Popped
    <3>. QED
      BY <3>1, <3>2, <3>3 DEF EachCallOnce, Pool!vars
  <2>3. CASE Finish(t)
    BY <2>3, FinishKeeps DEF Pool!Next
  <2>. QED
    BY <1>2, <2>1, <2>2, <2>3 DEF ThreadStep
<1>3. CASE UNCHANGED <<queue, wpc, job, accepted, started, finished>>
  <2>1. Running' = Running /\ Jobs' = Jobs /\ Popped' = Popped
    BY <1>3 DEF Running, Jobs, Popped
  <2>. QED
    BY <1>3, <2>1 DEF EachCallOnce, Pool!vars
<1>. QED
  BY <1>1, <1>2, <1>3 DEF Next, SetParallelism, vars

-----------------------------------------------------------------------------
(***************************************************************************)
(* Whatever the number of callbacks and threads, the queue, the counter    *)
(* and the threads of common/worker.cpp keep their types, `active` counts  *)
(* the threads that exist and never exceeds the largest limit, callbacks   *)
(* wait only for busy threads, and they start in order.                    *)
(***************************************************************************)
THEOREM WorkerInvariant == Spec => []PoolInv
<1>1. Init => PoolInv
  BY PoolInit
<1>2. PoolInv /\ [Next]_vars => PoolInv'
  BY PoolStep
<1> QED
  BY <1>1, <1>2, PTL DEF Spec

\* The state of common/worker.cpp keeps its types.
THEOREM TypeCorrect == Spec => []TypeOK
<1>1. PoolInv => TypeOK
  BY DEF PoolInv
<1> QED
  BY <1>1, WorkerInvariant, PTL

(***************************************************************************)
(* call_in_thread() and the loop of the threads together never exceed the  *)
(* limit, and `active` is the number of threads that exist.                *)
(***************************************************************************)
THEOREM ThreadsBounded == Spec => []BoundedThreads
<1>1. PoolInv => BoundedThreads
  BY DEF PoolInv
<1> QED
  BY <1>1, WorkerInvariant, PTL

(***************************************************************************)
(* A callback is never left in the queue of common/worker.cpp without a    *)
(* thread on its way to it while fewer than MinParallelism threads exist.  *)
(***************************************************************************)
THEOREM NeverStranded == Spec => []WorkConserving
<1>1. PoolInv => WorkConserving
  BY DEF PoolInv
<1> QED
  BY <1>1, WorkerInvariant, PTL

\* Threads pop callbacks in the order in which call_in_thread() took them.
THEOREM FirstInFirstOut == Spec => []StartsInOrder
<1>1. PoolInv => StartsInOrder
  BY DEF PoolInv
<1> QED
  BY <1>1, WorkerInvariant, PTL

(***************************************************************************)
(* The pool of common/worker.cpp is the line of calls of BackgroundCalls:  *)
(* each runs once, in order, and no more at a time than the largest limit. *)
(***************************************************************************)
THEOREM PoolImplemented == Spec => PoolSpec
<1>1. Init => Pool!Init
  <2>. SUFFICES ASSUME Init
                PROVE  Pool!Init
    OBVIOUS
  <2>1. Jobs = {}
    BY DEF Init, Running, Jobs
  <2>. QED
    BY <2>1 DEF Init, Pool!Init
<1>2. Init => EachCallOnce
  BY OnceInit
<1>3. PoolInv /\ EachCallOnce /\ [Next]_vars => EachCallOnce'
  BY OnceStep
<1>4. PoolInv /\ EachCallOnce /\ [Next]_vars => [Pool!Next]_(Pool!vars)
  BY OnceStep
<1>. QED
  BY <1>1, <1>2, <1>3, <1>4, WorkerInvariant, PTL DEF Spec, PoolSpec, Pool!Spec

-----------------------------------------------------------------------------
(***************************************************************************)
(* The event loop with the pool.                                           *)
(***************************************************************************)
LoopTypeOK ==
  /\ pc \in {"enter", "dispatch", "check", "returned"}
  /\ evStatus \in {0, 1}
  /\ pending \subseteq Callback

\* libevent returned 1: since then only background threads added events.
NoOwnEvents ==
  pc = "returned" \/ (pc = "check" /\ evStatus > 0) => pending \subseteq Call

IInv == PoolInv /\ LoopTypeOK /\ NoOwnEvents /\ ReturnsWhenIdle

LEMMA PoolFacts ==
  ASSUME PoolInv
  PROVE  /\ active \in Nat
         /\ \A t \in Thread : wpc[t] = "running" => job[t] \in Call
         /\ active = 0 => queue = <<>> /\ \A t \in Thread : wpc[t] = "gone"
BY IdlePool DEF PoolInv, TypeOK

LEMMA InitIInv == LoopInit => IInv
BY PoolInit DEF LoopInit, IInv, LoopTypeOK, NoOwnEvents, ReturnsWhenIdle, Callback

\* The steps of the I/O thread that run no callback.
LEMMA LoopStepIInv == IInv /\ (LoopStep \/ Stop) => IInv'
<1>. SUFFICES ASSUME IInv, LoopStep \/ Stop PROVE IInv'
  OBVIOUS
<1>. USE DEF IInv
<1>1. UNCHANGED vars /\ PoolInv'
  <2>1. UNCHANGED vars
    BY DEF LoopStep, Enter, Broken, NoEvents, Returns, Check, Stop
  <2>. QED
    BY <2>1, PoolStep
<1>2. LoopTypeOK'
  BY DEF LoopTypeOK, LoopStep, Enter, Broken, NoEvents, Returns, Check, Stop, Callback
<1>3. NoOwnEvents'
  BY DEF LoopTypeOK, NoOwnEvents, LoopStep, Enter, Broken, NoEvents, Returns, Check, Stop
<1>4. ReturnsWhenIdle'
  <2>1. CASE pc = "returned"
    BY <1>1, <2>1 DEF ReturnsWhenIdle, LoopStep, Enter, Broken, NoEvents, Returns, Check, Stop,
                      vars
  <2>2. CASE pc # "returned" /\ pc' = "returned"
    <3>1. pc = "check" /\ evStatus > 0 /\ active <= 0 /\ pending' = pending
      BY <2>2 DEF LoopStep, Enter, Broken, NoEvents, Returns, Check, Stop
    <3>. QED
      BY <1>1, <3>1, PoolFacts DEF ReturnsWhenIdle, NoOwnEvents, vars
  <2>. QED
    BY <2>1, <2>2 DEF ReturnsWhenIdle
<1>. QED
  BY <1>1, <1>2, <1>3, <1>4

\* A callback runs, and may hand a call to the background threads.
LEMMA DispatchIInv ==
  ASSUME NEW e \in Callback, IInv, Dispatch(e) \/ \E c \in Call : DispatchWithCall(e, c)
  PROVE  IInv'
<1>. USE DEF IInv
<1>1. [Next]_vars
  BY DEF Dispatch, DispatchWithCall, Next
<1>2. pc = "dispatch" /\ pc' = "dispatch" /\ evStatus' = evStatus /\ pending' \subseteq Callback
  BY DEF Dispatch, DispatchWithCall, Fire, Ready, Fresh, LoopTypeOK, Callback
<1>. QED
  BY <1>1, <1>2, PoolStep DEF LoopTypeOK, NoOwnEvents, ReturnsWhenIdle

\* A background thread adds nothing but the answer to a call, and no thread
\* is left to take a step once run() has returned.
LEMMA BackgroundIInv ==
  ASSUME NEW t \in Thread, IInv, Background(t)
  PROVE  IInv'
<1>. USE DEF IInv
<1>1. ThreadStep(t) /\ UNCHANGED <<pc, evStatus>>
  BY DEF Background, ThreadReturns, ThreadLoops, ThreadStep, loop
<1>2. PoolInv'
  BY <1>1, PoolStep DEF Next
<1>3. wpc[t] # "gone"
  BY <1>1 DEF ThreadStep, Pop, Exit, Finish
<1>4. pending' = pending \/ \E c \in Call : pending' = pending \union {c}
  BY PoolFacts DEF Background, ThreadReturns, ThreadLoops, loop, Finish
<1>5. pc # "returned"
  BY <1>3 DEF ReturnsWhenIdle
<1>. QED
  BY <1>1, <1>2, <1>4, <1>5 DEF LoopTypeOK, NoOwnEvents, ReturnsWhenIdle, Callback

(***************************************************************************)
(* run() of common/libevent_reactor.hpp and the threads of                 *)
(* common/worker.cpp keep their joint invariant.                           *)
(***************************************************************************)
THEOREM ReactorInvariant == LoopSpec => []IInv
<1>1. IInv /\ UNCHANGED loopVars => IInv'
  BY PoolStep DEF IInv, loopVars, loop, vars, LoopTypeOK, NoOwnEvents, ReturnsWhenIdle
<1>2. IInv /\ [LoopNext]_loopVars => IInv'
  BY <1>1, LoopStepIInv, DispatchIInv, BackgroundIInv DEF LoopNext
<1>. QED
  BY <1>2, InitIInv, PTL DEF LoopSpec

(***************************************************************************)
(* run() returns only when no background thread exists and no call waits   *)
(* for one, and abandons no event that the I/O thread registered, whatever *)
(* the calls of stop() and the moments at which background threads leave.  *)
(***************************************************************************)
THEOREM RunReturnsWhenIdle == LoopSpec => []ReturnsWhenIdle
<1>1. IInv => ReturnsWhenIdle
  BY DEF IInv
<1>. QED
  BY <1>1, ReactorInvariant, PTL

(***************************************************************************)
(* The steps of the loop are steps of the pool, or none: what is proved of *)
(* common/worker.cpp holds below common/libevent_reactor.hpp.              *)
(***************************************************************************)
THEOREM LoopUsesPool == LoopSpec => Spec
<1>1. LoopInit => Init
  BY DEF LoopInit
<1>2. ASSUME [LoopNext]_loopVars
      PROVE  [Next]_vars
  <2>1. CASE LoopStep \/ Stop
    BY <2>1 DEF LoopStep, Enter, Broken, NoEvents, Returns, Check, Stop
  <2>2. CASE \E e \in Callback : Dispatch(e) \/ \E c \in Call : DispatchWithCall(e, c)
    BY <2>2 DEF Dispatch, DispatchWithCall, Next
  <2>3. CASE \E t \in Thread : Background(t)
    BY <2>3 DEF Background, ThreadReturns, ThreadLoops, ThreadStep, Next
  <2>4. CASE UNCHANGED loopVars
    BY <2>4 DEF loopVars
  <2>. QED
    BY <1>2, <2>1, <2>2, <2>3, <2>4 DEF LoopNext
<1>. QED
  BY <1>1, <1>2, PTL DEF LoopSpec, Spec
=============================================================================
