------------------------------ MODULE Reactor -------------------------------
(***************************************************************************)
(* The event loop of common/libevent_reactor.hpp: run(), stop(),           *)
(* call_soon(), call_later()/pollfd() and call_in_thread(), composed with  *)
(* the background threads of Worker.  One thread, the I/O thread, executes *)
(* run(); stop() may be called by any thread.  What Worker names Init,     *)
(* Next and Spec is the pool; the loop and the pool are LoopInit, LoopNext *)
(* and LoopSpec.                                                           *)
(*                                                                         *)
(* libevent itself is external and modelled as run() uses it:              *)
(* event_base_dispatch() clears the break flag when it starts, returns 0   *)
(* when it finds the flag set, returns 1 when no event is pending, and     *)
(* otherwise waits for an event and runs its callback.                     *)
(***************************************************************************)
EXTENDS Worker

CONSTANTS
  Soon,          \* callbacks for call_soon(): always ready
  Io,            \* callbacks for pollin_once()/pollout_once()/call_later()
                 \* (those for call_in_thread() are the Call of Worker)
  Noop,          \* the empty callback that run() schedules 0.250 s ahead
  MaxStops       \* bound: how many times stop() is called

ASSUME ReactorAssumption ==
  /\ Soon \intersect Io = {} /\ Soon \intersect Call = {} /\ Io \intersect Call = {}
  /\ Noop \notin Soon \union Io \union Call
  /\ Noop # NoCall /\ NoCall \notin Soon \union Io
  /\ MaxStops \in Nat

VARIABLES
  pc,           \* where the I/O thread is in run()
  evStatus,     \* the local variable ev_status of run()
  breakFlag,    \* event_base::event_break
  pending,      \* the events registered with the event base
  ran,          \* history: the callbacks the I/O thread has run
  stops         \* history: how many times stop() was called

loop == <<pc, evStatus, breakFlag, pending, ran, stops>>
loopVars == <<loop, vars>>

Callback == Soon \union Io \union Call \union {Noop}

\* Callbacks the program has not used yet (each event is registered once).
Fresh == (Soon \union Io) \ (pending \union ran)

LoopInit ==
  /\ pc = "enter"
  /\ evStatus = 0
  /\ breakFlag = FALSE
  /\ pending \in {{s} : s \in Soon}      \* run_with_initial_event()
  /\ ran = {}
  /\ stops = 0
  /\ Init                                \* of the pool

(***************************************************************************)
(* event_base_dispatch(): the loop starts with the flag cleared.           *)
(***************************************************************************)
Enter ==
  /\ pc = "enter"
  /\ breakFlag' = FALSE
  /\ pc' = "dispatch"
  /\ UNCHANGED <<evStatus, pending, ran, stops, vars>>

Returns(status) ==
  /\ evStatus' = status
  /\ pc' = "check"
  /\ UNCHANGED <<breakFlag, pending, ran, stops, vars>>

Broken == pc = "dispatch" /\ breakFlag /\ Returns(0)

NoEvents == pc = "dispatch" /\ ~breakFlag /\ pending = {} /\ Returns(1)

(***************************************************************************)
(* An event fires and its callback runs: it may register new events and    *)
(* hand one callback to the background threads.  Io events fire when the   *)
(* network or the clock decides.                                           *)
(***************************************************************************)
Ready(e) == pc = "dispatch" /\ ~breakFlag /\ e \in pending

Fire(e, new) ==
  /\ Ready(e)
  /\ new \subseteq (IF e = Noop THEN {} ELSE Fresh)
  /\ pending' = (pending \ {e}) \union new
  /\ ran' = ran \union ({e} \ {Noop})
  /\ UNCHANGED <<pc, evStatus, breakFlag, stops>>

Dispatch(e) ==
  \E new \in SUBSET Fresh :
    /\ Fire(e, new)
    /\ UNCHANGED vars

DispatchWithCall(e, c) ==
  \E new \in SUBSET Fresh :
    /\ e # Noop
    /\ Fire(e, new)
    /\ Submit(c)

\* Mutant: run() ignores the background threads.
CheckEventsOnly ==
  /\ pc = "check"
  /\ IF evStatus > 0
       THEN pc' = "returned" /\ UNCHANGED pending
       ELSE pc' = "enter" /\ pending' = pending \union {Noop}
  /\ UNCHANGED <<evStatus, breakFlag, ran, stops, vars>>

\* Mutant: the test on concurrency() is inverted.
CheckInverted ==
  /\ pc = "check"
  /\ IF evStatus > 0 /\ active > 0
       THEN pc' = "returned" /\ UNCHANGED pending
       ELSE pc' = "enter" /\ pending' = pending \union {Noop}
  /\ UNCHANGED <<evStatus, breakFlag, ran, stops, vars>>

(***************************************************************************)
(* The decision of run() after event_base_dispatch(): leave when libevent  *)
(* had no event and worker.concurrency() is zero; otherwise schedule the   *)
(* no-op and loop.                                                         *)
(***************************************************************************)
Check ==
  /\ pc = "check"
  /\ IF evStatus > 0 /\ active <= 0
       THEN pc' = "returned" /\ UNCHANGED pending
       ELSE pc' = "enter" /\ pending' = pending \union {Noop}
  /\ UNCHANGED <<evStatus, breakFlag, ran, stops, vars>>

\* stop(), from any thread, at any time: event_base_loopbreak().
Stop ==
  /\ stops < MaxStops
  /\ breakFlag' = TRUE
  /\ stops' = stops + 1
  /\ UNCHANGED <<pc, evStatus, pending, ran, vars>>

\* Mutant: the background callback returns without calling call_soon().
ThreadReturnsSilently(t) ==
  /\ Finish(t)
  /\ UNCHANGED loop

(***************************************************************************)
(* Background threads.  The callback passes its result to the I/O thread   *)
(* with call_soon() before it returns (getaddrinfo_async.hpp): the event   *)
(* is pending before the thread can pop, or leave.                         *)
(***************************************************************************)
ThreadReturns(t) ==
  /\ Finish(t)
  /\ pending' = pending \union {job[t]}
  /\ UNCHANGED <<pc, evStatus, breakFlag, ran, stops>>

ThreadLoops(t) ==
  /\ Pop(t) \/ Exit(t)
  /\ UNCHANGED loop

Background(t) == ThreadReturns(t) \/ ThreadLoops(t)

LoopStep == Enter \/ Broken \/ NoEvents \/ Check

LoopNext ==
  \/ LoopStep
  \/ \E e \in Callback : Dispatch(e) \/ \E c \in Call : DispatchWithCall(e, c)
  \/ Stop
  \/ \E t \in Thread : Background(t)

LoopSpec == LoopInit /\ [][LoopNext]_loopVars

(***************************************************************************)
(* Fairness: the I/O thread and the background threads are scheduled, and  *)
(* libevent runs in the end every callback that is due (call_soon() and    *)
(* the timer of the no-op).  Nothing forces the network: no fairness for   *)
(* Io events.  stop() is the choice of the caller.                         *)
(***************************************************************************)
FireSome(e) == Dispatch(e) \/ \E c \in Call : DispatchWithCall(e, c)

LoopFairSpec ==
  /\ LoopSpec
  /\ WF_loopVars(LoopStep)
  /\ \A e \in Soon \union Call \union {Noop} : WF_loopVars(FireSome(e))
  /\ \A t \in Thread : WF_loopVars(Background(t))

-----------------------------------------------------------------------------
(***************************************************************************)
(* run() returns only when no background thread exists and no call waits   *)
(* for one, and it never abandons an event registered by the I/O thread    *)
(* itself (the comment in run(): threads are treated like pending events). *)
(* stop() is no exception, although reactor.hpp:136 says that it signals   *)
(* to the loop to stop: run() treats the 0 that libevent returns after a   *)
(* loopbreak like any other iteration and dispatches again.                *)
(***************************************************************************)
ReturnsWhenIdle ==
  pc = "returned" =>
    /\ active = 0 /\ queue = <<>> /\ \A t \in Thread : wpc[t] = "gone"
    /\ pending \subseteq Call

(***************************************************************************)
(* A request handed to the background threads is answered on the I/O       *)
(* thread, or the loop has returned: no answer is stuck behind a loop that *)
(* sleeps without events.                                                  *)
(***************************************************************************)
Answered == \A c \in Call :
  (\E i \in 1..Len(accepted) : accepted[i] = c) ~> (c \in ran \/ pc = "returned")

(***************************************************************************)
(* With nothing but finite work, the loop drains it and run() returns,     *)
(* stop() or not.                                                          *)
(***************************************************************************)
DrainsAndReturns ==
  <>[](pending \intersect Io = {}) => <>(pc = "returned")

(***************************************************************************)
(* reactor.hpp:130 "This function will return if there is no pending I/O   *)
(* and no delayed calls (either registered to run in background threads or *)
(* in the I/O thread)".  run() reads worker.concurrency() after libevent   *)
(* has already decided that nothing is pending: a thread that calls        *)
(* call_soon() and leaves in between makes the loop return with the        *)
(* answer pending.                                                         *)
(***************************************************************************)
NothingPendingAtReturn == pc = "returned" => pending = {}
=============================================================================
