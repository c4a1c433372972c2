------------------------------- MODULE Engine -------------------------------
(***************************************************************************)
(* The tasks of engine.cpp: the thread that runs a nettest, the queue of   *)
(* events it fills, the static semaphore that keeps tasks from running     *)
(* together, and the controller, the thread of the application that calls  *)
(* is_done() and wait_for_next_event() in the loop of the documentation    *)
(* (include/measurement_kit/README.md:96) and then destroys the task.      *)
(*                                                                         *)
(* A critical section under TaskImpl::mutex is one action.  The mutex is   *)
(* held between two actions in one place only: in cond.wait(), after the   *)
(* predicate was evaluated and before the thread sleeps.  `running` is an  *)
(* atomic written without the mutex, so its changes interleave there.      *)
(***************************************************************************)
EXTENDS Naturals, Sequences, FiniteSets

CONSTANTS
  Task,       \* the tasks the application creates
  NoTask,     \* the semaphore is free
  MaxExtra,    \* bound: warnings about the settings, log lines and
               \* measurements of the body
  Mutable,     \* bound: the events that `disabled_events` may name
  Perturbed,   \* bound: the tasks that measure, warn, disable events, are
               \* interrupted or left, or whose controller wakes up early
  Faulty       \* bound: the tasks whose begin() and end() may fail

Event == {"status.queued", "log", "failure.startup", "status.started",
          "measurement", "status.end"}

ASSUME EngineAssumption ==
  /\ NoTask \notin Task
  /\ MaxExtra \in Nat
  /\ Mutable \subseteq Event
  /\ Perturbed \subseteq Task /\ Faulty \subseteq Task

VARIABLES
  pc,          \* where the thread of each task is
  running,     \* TaskImpl::running
  interrupted, \* TaskImpl::interrupted
  deque,       \* TaskImpl::deque
  notify,      \* the thread still has to call cond.notify_all()
  holder,      \* who holds the static Semaphore
  muted,       \* the events that the settings of the task disable
  error,       \* the local variable `error` of task_run()
  ctl,         \* where the controller of each task is
  eof,         \* the controller has received task_terminated
  emitted,     \* history: the events of each task, in order
  delivered,   \* history: the events its controller received, in order
  faults       \* history: the errors of begin() and end()

threadVars == <<pc, running, notify, holder, muted, error, emitted, faults>>
ctlVars == <<ctl, eof, delivered>>
vars == <<threadVars, ctlVars, deque, interrupted>>

\* What error.reason can be: "" stands for NoError().
Reason == {"", "generic_error", "begin_error", "end_error"}

\* TaskImpl::mutex is held across actions only here.
MutexFree(t) == ctl[t] # "blocking"

Init ==
  /\ pc = [t \in Task |-> "unborn"]
  /\ running = [t \in Task |-> FALSE]
  /\ interrupted = [t \in Task |-> FALSE]
  /\ deque = [t \in Task |-> <<>>]
  /\ notify = [t \in Task |-> FALSE]
  /\ holder = NoTask
  /\ muted = [t \in Task |-> {}]
  /\ error = [t \in Task |-> "generic_error"]
  /\ ctl = [t \in Task |-> "unborn"]
  /\ eof = [t \in Task |-> FALSE]
  /\ emitted = [t \in Task |-> <<>>]
  /\ delivered = [t \in Task |-> <<>>]
  /\ faults = [t \in Task |-> {}]

-----------------------------------------------------------------------------
(***************************************************************************)
(* The constructor returns only when the thread has set `running` and      *)
(* released the barrier.                                                   *)
(***************************************************************************)
Construct(t) ==
  /\ pc[t] = "unborn"
  /\ pc' = [pc EXCEPT ![t] = "queued"]
  /\ running' = [running EXCEPT ![t] = TRUE]
  /\ ctl' = [ctl EXCEPT ![t] = "poll"]
  /\ UNCHANGED <<notify, holder, muted, error, emitted, faults, eof, delivered,
                 deque, interrupted>>

(***************************************************************************)
(* emit(): push under the mutex, notify after unlocking.                   *)
(***************************************************************************)
At(t, label) == pc[t] = label /\ ~notify[t]

Goto(t, label) == pc' = [pc EXCEPT ![t] = label]

\* Mutant: emit() pushes without taking the mutex.
EmitUnlocked(t, event) ==
  /\ deque' = [deque EXCEPT ![t] = Append(@, event)]
  /\ emitted' = [emitted EXCEPT ![t] = Append(@, event)]
  /\ notify' = [notify EXCEPT ![t] = TRUE]

Emit(t, event) ==
  /\ MutexFree(t)
  /\ deque' = [deque EXCEPT ![t] = Append(@, event)]
  /\ emitted' = [emitted EXCEPT ![t] = Append(@, event)]
  /\ notify' = [notify EXCEPT ![t] = TRUE]

\* An event that the thread emits directly: it cannot be disabled.
EmitAt(t, from, event, to) ==
  /\ At(t, from)
  /\ Emit(t, event)
  /\ Goto(t, to)
  /\ UNCHANGED <<running, holder, muted, error, faults, ctlVars, interrupted>>

\* cond.notify_all(): a controller asleep in cond.wait() wakes up.
Notify(t) ==
  /\ notify[t]
  /\ notify' = [notify EXCEPT ![t] = FALSE]
  /\ ctl' = [ctl EXCEPT ![t] = IF @ = "waiting" THEN "awake" ELSE @]
  /\ UNCHANGED <<pc, running, holder, muted, error, emitted, faults, eof, delivered,
                 deque, interrupted>>

Queued(t) == EmitAt(t, "queued", "status.queued", "acquire")

\* Mutant: every task has a semaphore of its own.
AcquireOwn(t) ==
  /\ At(t, "acquire")
  /\ holder' = t
  /\ Goto(t, "validate")
  /\ UNCHANGED <<running, notify, muted, error, emitted, faults, ctlVars, deque,
                 interrupted>>

Acquire(t) ==
  /\ At(t, "acquire")
  /\ holder = NoTask
  /\ holder' = t
  /\ Goto(t, "validate")
  /\ UNCHANGED <<running, notify, muted, error, emitted, faults, ctlVars, deque,
                 interrupted>>

\* An event that goes through the logger of the nettest, which routes the
\* events that are not disabled.
RouteAt(t, from, event, to) ==
  \/ event \notin muted[t] /\ EmitAt(t, from, event, to)
  \/ /\ event \in muted[t]
     /\ At(t, from)
     /\ Goto(t, to)
     /\ UNCHANGED <<running, notify, holder, muted, error, emitted, faults, ctlVars,
                    deque, interrupted>>

(***************************************************************************)
(* task_run() goes through the settings.  It logs a warning for what it    *)
(* can ignore or will complain about; in the end it accepts the settings,  *)
(* or it logs an error, emits failure.startup and returns.                 *)
(***************************************************************************)
Extras(s) == Len(SelectSeq(s, LAMBDA e : e \in {"log", "measurement"}))

Warn(t) ==
  /\ t \in Perturbed
  /\ Extras(emitted[t]) < MaxExtra
  /\ EmitAt(t, "validate", "log", "validate")

Accept(t) ==
  /\ At(t, "validate")
  /\ Goto(t, "started")
  /\ \E events \in SUBSET Mutable :
       /\ t \notin Perturbed => events = {}
       /\ muted' = [muted EXCEPT ![t] = events]
  /\ UNCHANGED <<running, notify, holder, error, emitted, faults, ctlVars, deque,
                 interrupted>>

RejectLog(t) == EmitAt(t, "validate", "log", "startup")

\* Mutant: task_run() does not return after failure.startup.
RejectFallsThrough(t) == EmitAt(t, "startup", "failure.startup", "end")

RejectFailure(t) == EmitAt(t, "startup", "failure.startup", "clear")
Started(t) == RouteAt(t, "started", "status.started", "loop")

(***************************************************************************)
(* The initial event of the reactor: the only place where an interruption  *)
(* is looked at.  `error` is still GenericError().                         *)
(***************************************************************************)
LoopStarts(t) ==
  /\ At(t, "loop")
  /\ Goto(t, IF interrupted[t] THEN "end" ELSE "body")
  /\ UNCHANGED <<running, notify, holder, muted, error, emitted, faults, ctlVars, deque,
                 interrupted>>

\* What the nettest logs and measures while it runs.
BodyEmits(t) ==
  /\ t \in Perturbed
  /\ Extras(emitted[t]) < MaxExtra
  /\ \E event \in {"log", "measurement"} : RouteAt(t, "body", event, "body")

(***************************************************************************)
(* begin() calls back with b, then end() with e, and the loop returns.     *)
(* The callback of end() assigns e over b when b is an error, and drops e  *)
(* otherwise.                                                              *)
(***************************************************************************)
BodyEnds(t) ==
  /\ At(t, "body")
  /\ \E b \in {"", "begin_error"}, e \in {"", "end_error"} :
       /\ t \notin Faulty => b = "" /\ e = ""
       /\ error' = [error EXCEPT ![t] = IF b # "" THEN e ELSE b]
       /\ faults' = [faults EXCEPT ![t] = {b, e} \ {""}]
  /\ Goto(t, "end")
  /\ UNCHANGED <<running, notify, holder, muted, emitted, ctlVars, deque, interrupted>>

Ended(t) == RouteAt(t, "end", "status.end", "clear")

(***************************************************************************)
(* running = false, outside of the mutex; then notify_all(); then the      *)
(* semaphore is released.                                                  *)
(***************************************************************************)
Clear(t) ==
  /\ At(t, "clear")
  /\ running' = [running EXCEPT ![t] = FALSE]
  /\ notify' = [notify EXCEPT ![t] = TRUE]
  /\ Goto(t, "release")
  /\ UNCHANGED <<holder, muted, error, emitted, faults, ctlVars, deque, interrupted>>

\* Mutant: the semaphore is not released.
ReleaseForgotten(t) ==
  /\ At(t, "release")
  /\ Goto(t, "exited")
  /\ UNCHANGED <<running, notify, holder, muted, error, emitted, faults, ctlVars, deque,
                 interrupted>>

Release(t) ==
  /\ At(t, "release")
  /\ holder' = NoTask
  /\ Goto(t, "exited")
  /\ UNCHANGED <<running, notify, muted, error, emitted, faults, ctlVars, deque,
                 interrupted>>

\* The steps that take the thread to its end.
ThreadProgress(t) ==
  \/ Notify(t) \/ Queued(t) \/ Acquire(t) \/ Accept(t) \/ RejectLog(t)
  \/ RejectFailure(t) \/ Started(t) \/ LoopStarts(t) \/ BodyEnds(t)
  \/ Ended(t) \/ Clear(t) \/ Release(t)

ThreadStep(t) == ThreadProgress(t) \/ Warn(t) \/ BodyEmits(t)

-----------------------------------------------------------------------------
Done(t) == ~running[t] /\ deque[t] = <<>>

\* is_done() decides whether the controller waits or destroys the task.
IsDone(t) ==
  /\ ctl[t] = "poll"
  /\ ctl' = [ctl EXCEPT ![t] = IF Done(t) THEN "destroy" ELSE "wait"]
  /\ UNCHANGED <<threadVars, eof, delivered, deque, interrupted>>

(***************************************************************************)
(* wait_for_next_event() with the mutex held: take the front of the queue, *)
(* else return task_terminated, else go to sleep.                          *)
(***************************************************************************)
Awake(t) == ctl[t] \in {"wait", "awake"}

\* Mutant: the newest event is taken first.
TakeBack(t) ==
  /\ Awake(t)
  /\ deque[t] # <<>>
  /\ delivered' = [delivered EXCEPT ![t] = Append(@, deque[t][Len(deque[t])])]
  /\ deque' = [deque EXCEPT ![t] = SubSeq(@, 1, Len(@) - 1)]
  /\ ctl' = [ctl EXCEPT ![t] = "poll"]
  /\ UNCHANGED <<threadVars, eof, interrupted>>

Take(t) ==
  /\ Awake(t)
  /\ deque[t] # <<>>
  /\ delivered' = [delivered EXCEPT ![t] = Append(@, Head(deque[t]))]
  /\ deque' = [deque EXCEPT ![t] = Tail(@)]
  /\ ctl' = [ctl EXCEPT ![t] = "poll"]
  /\ UNCHANGED <<threadVars, eof, interrupted>>

\* Mutant: the end of the task is looked at before the queue.
TerminatedFirst(t) ==
  /\ Awake(t)
  /\ ~running[t]
  /\ eof' = [eof EXCEPT ![t] = TRUE]
  /\ ctl' = [ctl EXCEPT ![t] = "poll"]
  /\ UNCHANGED <<threadVars, delivered, deque, interrupted>>

Terminated(t) ==
  /\ Awake(t)
  /\ deque[t] = <<>>
  /\ ~running[t]
  /\ eof' = [eof EXCEPT ![t] = TRUE]
  /\ ctl' = [ctl EXCEPT ![t] = "poll"]
  /\ UNCHANGED <<threadVars, delivered, deque, interrupted>>

NothingYet(t) ==
  /\ Awake(t)
  /\ deque[t] = <<>>
  /\ running[t]
  /\ ctl' = [ctl EXCEPT ![t] = "blocking"]
  /\ UNCHANGED <<threadVars, eof, delivered, deque, interrupted>>

\* cond.wait() releases the mutex and sleeps, in one step.
Sleep(t) ==
  /\ ctl[t] = "blocking"
  /\ ctl' = [ctl EXCEPT ![t] = "waiting"]
  /\ UNCHANGED <<threadVars, eof, delivered, deque, interrupted>>

\* The C++ library may wake a waiting thread for no reason.
SpuriousWake(t) ==
  /\ t \in Perturbed
  /\ ctl[t] = "waiting"
  /\ ctl' = [ctl EXCEPT ![t] = "awake"]
  /\ UNCHANGED <<threadVars, eof, delivered, deque, interrupted>>

\* An application may leave its loop before the task is done.
Leave(t) ==
  /\ t \in Perturbed
  /\ ctl[t] = "poll"
  /\ ctl' = [ctl EXCEPT ![t] = "leave"]
  /\ UNCHANGED <<threadVars, eof, delivered, deque, interrupted>>

\* ~Task() joins the thread.
Destroy(t) ==
  /\ ctl[t] \in {"destroy", "leave"}
  /\ pc[t] = "exited"
  /\ ctl' = [ctl EXCEPT ![t] = "gone"]
  /\ UNCHANGED <<threadVars, eof, delivered, deque, interrupted>>

ControllerStep(t) ==
  IsDone(t) \/ Take(t) \/ Terminated(t) \/ NothingYet(t) \/ Sleep(t) \/ Destroy(t)

(***************************************************************************)
(* interrupt(), from any thread of the application.  What it asks of the   *)
(* reactor has no lasting effect (see ReturnsWhenIdle in Reactor).         *)
(***************************************************************************)
Interrupt(t) ==
  /\ t \in Perturbed
  /\ ctl[t] \notin {"unborn", "destroy", "leave", "gone"}
  /\ interrupted' = [interrupted EXCEPT ![t] = TRUE]
  /\ UNCHANGED <<threadVars, ctlVars, deque>>

Next == \E t \in Task :
  \/ Construct(t) \/ ThreadStep(t) \/ ControllerStep(t)
  \/ SpuriousWake(t) \/ Leave(t) \/ Interrupt(t)

Spec == Init /\ [][Next]_vars

(***************************************************************************)
(* Both threads of a task are scheduled; a nettest ends (its operations    *)
(* have timeouts); a mutex that is free again and again is acquired in the *)
(* end, hence strong fairness for the thread, whose controller may wake up *)
(* for no reason any number of times.  Nothing forces the application to   *)
(* create, interrupt or leave a task.                                      *)
(***************************************************************************)
FairSpec ==
  /\ Spec
  /\ \A t \in Task :
       /\ SF_vars(ThreadProgress(t))
       /\ WF_vars(ControllerStep(t))

-----------------------------------------------------------------------------
TypeOK ==
  /\ pc \in [Task -> {"unborn", "queued", "acquire", "validate", "startup",
                      "started", "loop", "body", "end", "clear",
                      "release", "exited"}]
  /\ running \in [Task -> BOOLEAN]
  /\ interrupted \in [Task -> BOOLEAN]
  /\ deque \in [Task -> Seq(Event)]
  /\ notify \in [Task -> BOOLEAN]
  /\ holder \in Task \union {NoTask}
  /\ muted \in [Task -> SUBSET Mutable]
  /\ error \in [Task -> Reason]
  /\ ctl \in [Task -> {"unborn", "poll", "wait", "awake", "blocking", "waiting",
                       "destroy", "leave", "gone"}]
  /\ eof \in [Task -> BOOLEAN]
  /\ emitted \in [Task -> Seq(Event)]
  /\ delivered \in [Task -> Seq(Event)]
  /\ faults \in [Task -> SUBSET Reason]

\* The part of a task that must not overlap with another task.
Busy(t) == pc[t] \in {"validate", "startup", "started", "loop", "body",
                      "end", "clear", "release"}

(***************************************************************************)
(* engine.hpp:22 "Measurement Kit will make sure that tasks do not run     *)
(* concurrently": from the validation of the settings to the moment the    *)
(* readers are told, one task at a time, and it is the one that holds the  *)
(* semaphore.                                                              *)
(***************************************************************************)
OneTaskAtATime ==
  /\ \A t, u \in Task : Busy(t) /\ Busy(u) => t = u
  /\ \A t \in Task : Busy(t) => holder = t

(***************************************************************************)
(* The controller receives the events of the task in the order they were   *)
(* emitted, each once, whatever the interleaving of emit(), notify_all()   *)
(* and wait_for_next_event().                                              *)
(***************************************************************************)
DeliveredInOrder == \A t \in Task : emitted[t] = delivered[t] \o deque[t]

(***************************************************************************)
(* The comment of wait_for_next_event(), "must be first so we drain the    *)
(* queue before emitting the final null": when the controller has received *)
(* task_terminated, or is_done() told it to destroy the task, it has       *)
(* received every event and the thread will never emit another one.        *)
(***************************************************************************)
DrainedBeforeEof == \A t \in Task :
  eof[t] \/ ctl[t] = "destroy" =>
    /\ delivered[t] = emitted[t]
    /\ pc[t] \in {"release", "exited"}

(***************************************************************************)
(* The sequence of events an application sees.  status.queued comes first  *)
(* and once; failure.startup comes only when nothing but log lines went    *)
(* before it and is the last event; status.started comes once and no       *)
(* measurement goes before it; log lines come anywhere between; and        *)
(* status.end, "emitted just once at the end of the test"                  *)
(* (include/measurement_kit/README.md:544), is the last event unless the   *)
(* settings disable it.                                                    *)
(***************************************************************************)
Follows(a, b) ==
  /\ b # "status.queued"
  /\ a \notin {"failure.startup", "status.end"}
  /\ b = "failure.startup" => a \in {"status.queued", "log"}
  /\ b = "status.started" => a \notin {"status.started", "measurement"}

EventOrder == \A t \in Task : LET s == emitted[t] IN
  /\ s # <<>> => s[1] = "status.queued"
  /\ \A i, j \in 1..Len(s) : i < j => Follows(s[i], s[j])
  /\ pc[t] \in {"clear", "release", "exited"} =>
       s[Len(s)] \in {"failure.startup", "status.end"} \/ "status.end" \in muted[t]

(***************************************************************************)
(* No event is stuck in the queue behind a sleeping controller.            *)
(***************************************************************************)
EventsReachController == \A t \in Task :
  (deque[t] # <<>>) ~> (deque[t] = <<>> \/ ctl[t] = "gone")

(***************************************************************************)
(* Every task created eventually gets the semaphore, runs and exits.       *)
(***************************************************************************)
TasksComplete == \A t \in Task : (pc[t] = "queued") ~> (pc[t] = "exited")

(***************************************************************************)
(* engine.hpp:44 "wait_for_next_event() blocks until the next event        *)
(* occurs. When the task is terminated, it returns the "task_terminated"   *)
(* dummy event".  Setting `running` and notifying without the mutex can    *)
(* fall between the evaluation of the predicate and the sleep: the         *)
(* controller then waits for a notification that was already given.        *)
(***************************************************************************)
WaitReturns == \A t \in Task : (ctl[t] = "wait") ~> (ctl[t] = "poll")

(***************************************************************************)
(* include/measurement_kit/README.md:559 "`failure` is the overall failure *)
(* that occurred during the test (or the empty string, if no error         *)
(* occurred)".  The error of begin() is replaced by the result of end(),   *)
(* and the error of end() is dropped when begin() succeeded.               *)
(***************************************************************************)
EndReportsFailure == \A t \in Task :
  pc[t] = "clear" /\ faults[t] # {} => error[t] # ""
=============================================================================
