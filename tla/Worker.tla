------------------------------- MODULE Worker -------------------------------
(***************************************************************************)
(* The background thread pool of common/worker.cpp.  call_in_thread()      *)
(* queues a callback and, when fewer than `parallelism` threads are        *)
(* active, spawns one more.  Every thread loops: under the mutex it either *)
(* pops the front of the queue or, when the queue is empty, decrements     *)
(* `active` and exits; outside of the mutex it runs what it popped.        *)
(*                                                                         *)
(* Each critical section of the code is one action.  A Thread is a slot:   *)
(* a thread that exited leaves its slot to the next thread spawned.        *)
(***************************************************************************)
EXTENDS Naturals, Sequences, FiniteSets

CONSTANTS
  Call,             \* the callbacks passed to call_in_thread()
  NoCall,           \* "no callback": the empty Callback<>
  Thread,           \* slots for the background threads
  MinParallelism,   \* the bounds of the values `parallelism` takes
  MaxParallelism

(***************************************************************************)
(* No caller in the repository asks for a parallelism of zero (the default *)
(* is 3, default_tasks_queue() uses 1).  One slot more than MaxParallelism *)
(* is kept, so that the bound is never an artefact of running out of slots.*)
(***************************************************************************)
ASSUME WorkerAssumption ==
  /\ NoCall \notin Call
  /\ MinParallelism \in Nat \ {0}
  /\ MaxParallelism \in Nat
  /\ MinParallelism <= MaxParallelism
  /\ IsFiniteSet(Thread)
  /\ Cardinality(Thread) > MaxParallelism

VARIABLES
  queue,         \* State::queue
  active,        \* State::active
  parallelism,   \* State::parallelism
  wpc,           \* where each thread is: "gone", "popping" or "running"
  job,           \* the callback each thread is running
  accepted,      \* history: the calls in the order they were submitted
  started,       \* history: the calls in the order threads popped them
  finished       \* history: the calls that returned

vars == <<queue, active, parallelism, wpc, job, accepted, started, finished>>

Alive   == {t \in Thread : wpc[t] # "gone"}
Popping == {t \in Thread : wpc[t] = "popping"}
Running == {t \in Thread : wpc[t] = "running"}

Submitted == {accepted[i] : i \in 1..Len(accepted)}

Init ==
  /\ queue = <<>>
  /\ active = 0
  /\ parallelism \in MinParallelism..MaxParallelism
  /\ wpc = [t \in Thread |-> "gone"]
  /\ job = [t \in Thread |-> NoCall]
  /\ accepted = <<>>
  /\ started = <<>>
  /\ finished = {}

(***************************************************************************)
(* call_in_thread(c).  Everything happens under the mutex: the new thread  *)
(* is spawned before `active` is incremented, but cannot pop until the     *)
(* caller unlocks.                                                         *)
(***************************************************************************)
Enqueue(c) ==
  /\ queue' = Append(queue, c)
  /\ accepted' = Append(accepted, c)
  /\ UNCHANGED <<parallelism, job, started, finished>>

CallQueued(c) ==
  /\ c \notin Submitted
  /\ active >= parallelism
  /\ Enqueue(c)
  /\ UNCHANGED <<active, wpc>>

\* Mutant: `active > parallelism` as the test, one thread too many.
CallSpawnsOneMore(c, t) ==
  /\ c \notin Submitted
  /\ active <= parallelism
  /\ wpc[t] = "gone"
  /\ Enqueue(c)
  /\ active' = active + 1
  /\ wpc' = [wpc EXCEPT ![t] = "popping"]

CallSpawns(c, t) ==
  /\ c \notin Submitted
  /\ active < parallelism
  /\ wpc[t] = "gone"
  /\ Enqueue(c)
  /\ active' = active + 1
  /\ wpc' = [wpc EXCEPT ![t] = "popping"]

\* Mutant: the last callback is popped instead of the first.
PopBack(t) ==
  /\ wpc[t] = "popping"
  /\ queue # <<>>
  /\ job' = [job EXCEPT ![t] = queue[Len(queue)]]
  /\ queue' = SubSeq(queue, 1, Len(queue) - 1)
  /\ started' = Append(started, queue[Len(queue)])
  /\ wpc' = [wpc EXCEPT ![t] = "running"]
  /\ UNCHANGED <<active, parallelism, accepted, finished>>

(***************************************************************************)
(* The critical section at the top of a thread's loop: pop the front, or   *)
(* decrement `active` and leave.                                           *)
(***************************************************************************)
Pop(t) ==
  /\ wpc[t] = "popping"
  /\ queue # <<>>
  /\ job' = [job EXCEPT ![t] = Head(queue)]
  /\ queue' = Tail(queue)
  /\ started' = Append(started, Head(queue))
  /\ wpc' = [wpc EXCEPT ![t] = "running"]
  /\ UNCHANGED <<active, parallelism, accepted, finished>>

\* Mutant: the queue is examined outside of the critical section.
ExitOnStaleCheck(t) ==
  /\ wpc[t] = "popping"
  /\ active' = active - 1
  /\ wpc' = [wpc EXCEPT ![t] = "gone"]
  /\ UNCHANGED <<queue, parallelism, job, accepted, started, finished>>

Exit(t) ==
  /\ wpc[t] = "popping"
  /\ queue = <<>>
  /\ active' = active - 1
  /\ wpc' = [wpc EXCEPT ![t] = "gone"]
  /\ UNCHANGED <<queue, parallelism, job, accepted, started, finished>>

\* Mutant: the thread goes back to its loop with the same callback.
FinishRunsAgain(t) ==
  /\ wpc[t] = "running"
  /\ finished' = finished \union {job[t]}
  /\ UNCHANGED <<queue, active, parallelism, wpc, job, accepted, started>>

\* func() returns and the thread goes back to the top of its loop.
Finish(t) ==
  /\ wpc[t] = "running"
  /\ finished' = finished \union {job[t]}
  /\ job' = [job EXCEPT ![t] = NoCall]
  /\ wpc' = [wpc EXCEPT ![t] = "popping"]
  /\ UNCHANGED <<queue, active, parallelism, accepted, started>>

\* set_parallelism(n) wakes and stops no thread: it only changes the limit.
SetParallelism(n) ==
  /\ parallelism' = n
  /\ UNCHANGED <<queue, active, wpc, job, accepted, started, finished>>

Submit(c) == CallQueued(c) \/ \E t \in Thread : CallSpawns(c, t)

ThreadStep(t) == Pop(t) \/ Exit(t) \/ Finish(t)

Next ==
  \/ \E c \in Call : Submit(c)
  \/ \E t \in Thread : ThreadStep(t)
  \/ \E n \in MinParallelism..MaxParallelism : SetParallelism(n)

Spec == Init /\ [][Next]_vars

(***************************************************************************)
(* The operating system schedules every thread, and the callbacks passed   *)
(* to the pool return (they are blocking calls such as getaddrinfo()).     *)
(***************************************************************************)
FairSpec == Spec /\ \A t \in Thread : WF_vars(ThreadStep(t))

-----------------------------------------------------------------------------
TypeOK ==
  /\ queue \in Seq(Call)
  /\ active \in Nat
  /\ parallelism \in MinParallelism..MaxParallelism
  /\ wpc \in [Thread -> {"gone", "popping", "running"}]
  /\ job \in [Thread -> Call \union {NoCall}]
  /\ \A t \in Thread : wpc[t] = "running" <=> job[t] # NoCall
  /\ accepted \in Seq(Call)
  /\ started \in Seq(Call)
  /\ finished \subseteq Call

(***************************************************************************)
(* reactor.hpp: "A maximum of three such threads can be active at any      *)
(* time".  The counter never exceeds the largest limit and, because it     *)
(* changes in the critical sections that create and end threads, it is     *)
(* exactly the number of threads that exist (call_in_thread and the loop   *)
(* of the thread update it in different places).                           *)
(***************************************************************************)
BoundedThreads ==
  /\ active = Cardinality(Alive)
  /\ active <= MaxParallelism

(***************************************************************************)
(* A callback waits in the queue only while enough threads are busy: when  *)
(* fewer than MinParallelism threads exist, every queued callback has a    *)
(* thread of its own already on its way to the queue.  In particular a     *)
(* thread that finds the queue empty and leaves never strands a callback   *)
(* queued by a concurrent call_in_thread().                                *)
(***************************************************************************)
WorkConserving ==
  active < MinParallelism => Len(queue) <= Cardinality(Popping)

(***************************************************************************)
(* Callbacks start in the order of submission and none is lost or popped   *)
(* twice by two threads.                                                   *)
(***************************************************************************)
StartsInOrder == accepted = started \o queue

Jobs == {job[t] : t \in Running}

(***************************************************************************)
(* The pool implements what call_in_thread() promises: threads, the        *)
(* counter and the changes of the limit are invisible.                     *)
(***************************************************************************)
Pool == INSTANCE BackgroundCalls WITH
  Limit <- MaxParallelism, line <- queue,
  running <- Jobs, done <- finished

PoolSpec == Pool!Spec
PoolFairSpec == Pool!FairSpec
=============================================================================
