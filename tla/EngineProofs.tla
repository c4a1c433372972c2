---------------------------- MODULE EngineProofs ----------------------------
(***************************************************************************)
(* Proofs about Engine, for any number of tasks, of events in a nettest    *)
(* and of warnings: tasks do not overlap, the controller receives the      *)
(* events in order, and it has received all of them when it is told that   *)
(* the task is over.                                                       *)
(***************************************************************************)
EXTENDS Engine, SequenceTheorems, TLAPS

Label == {"unborn", "queued", "acquire", "validate", "startup", "started", "loop",
          "body", "end", "clear", "release", "exited"}

Working == Label \ {"unborn", "release", "exited"}

(***************************************************************************)
(* `running` is set as long as the thread may still emit; a task whose     *)
(* thread does not exist has no controller.                                *)
(***************************************************************************)
RunningWhileWorking == \A t \in Task :
  /\ running[t] <=> pc[t] \in Working
  /\ ctl[t] = "unborn" <=> pc[t] = "unborn"

\* Told that the task is over, the controller has nothing left to read.
OverMeansEmpty == \A t \in Task :
  eof[t] \/ ctl[t] = "destroy" => deque[t] = <<>> /\ pc[t] \in {"release", "exited"}

IInv ==
  /\ TypeOK
  /\ OneTaskAtATime
  /\ DeliveredInOrder
  /\ RunningWhileWorking
  /\ OverMeansEmpty

\* An event joins the end of what was emitted, or leaves the front of what is queued.
LEMMA OneMoreAfter ==
  ASSUME NEW S, NEW a \in Seq(S), NEW b \in Seq(S), NEW e \in S
  PROVE  (a \o b) \o <<e>> = a \o (b \o <<e>>)
<1> DEFINE c == <<e>>
<1>1. c \in Seq(S)  OBVIOUS
<1> HIDE DEF c
<1> QED BY <1>1, ConcatAssociative DEF c

LEMMA OneMoreBetween ==
  ASSUME NEW S, NEW a \in Seq(S), NEW b \in Seq(S), NEW e \in S
  PROVE  (a \o <<e>>) \o b = a \o (<<e>> \o b)
<1> DEFINE c == <<e>>
<1>1. c \in Seq(S)  OBVIOUS
<1> HIDE DEF c
<1> QED BY <1>1, ConcatAssociative DEF c

LEMMA InitIInv == Init => IInv
<1> SUFFICES ASSUME Init PROVE IInv  OBVIOUS
<1> USE EngineAssumption
<1>1. TypeOK
  <2>1. <<>> \in Seq(Event)  OBVIOUS
  <2> QED BY <2>1 DEF Init, TypeOK, Reason
<1>2. OneTaskAtATime  BY DEF Init, OneTaskAtATime, Busy
<1>3. DeliveredInOrder
  <2>1. <<>> = <<>> \o <<>>  OBVIOUS
  <2> QED BY <2>1 DEF Init, DeliveredInOrder
<1>4. RunningWhileWorking  BY DEF Init, RunningWhileWorking, Working
<1>5. OverMeansEmpty  BY DEF Init, OverMeansEmpty
<1> QED BY <1>1, <1>2, <1>3, <1>4, <1>5 DEF IInv

(***************************************************************************)
(* emit() keeps the order: the event goes to the end of the queue and to   *)
(* the end of the history.                                                 *)
(***************************************************************************)
LEMMA EmitPreserves ==
  ASSUME IInv, NEW t \in Task, NEW from \in Working, NEW to \in Working,
         NEW event \in Event, EmitAt(t, from, event, to),
         from \in {"queued", "acquire"} <=> to \in {"queued", "acquire"}
  PROVE  IInv'
<1>1. /\ pc[t] = from /\ pc' = [pc EXCEPT ![t] = to]
      /\ deque' = [deque EXCEPT ![t] = Append(@, event)]
      /\ emitted' = [emitted EXCEPT ![t] = Append(@, event)]
      /\ notify' = [notify EXCEPT ![t] = TRUE]
      /\ UNCHANGED <<running, holder, muted, error, faults, ctlVars, interrupted>>
  BY DEF EmitAt, Emit, At, Goto
<1>2. /\ deque \in [Task -> Seq(Event)] /\ emitted \in [Task -> Seq(Event)]
      /\ delivered \in [Task -> Seq(Event)] /\ pc \in [Task -> Label]
  BY DEF IInv, TypeOK, Label
<1>3. TypeOK'
  <2>1. Append(deque[t], event) \in Seq(Event) /\ Append(emitted[t], event) \in Seq(Event)
    BY <1>2, AppendProperties
  <2>2. deque' \in [Task -> Seq(Event)] /\ emitted' \in [Task -> Seq(Event)]
    BY <1>1, <1>2, <2>1
  <2>3. pc' \in [Task -> Label]  BY <1>1, <1>2 DEF Working
  <2>4. notify' \in [Task -> BOOLEAN]  BY <1>1 DEF IInv, TypeOK
  <2> QED BY <1>1, <2>2, <2>3, <2>4 DEF IInv, TypeOK, ctlVars, Label
<1>4. OneTaskAtATime'
  <2>1. \A u \in Task : Busy(u)' <=> Busy(u)
    BY <1>1, <1>2 DEF Busy, Working, Label
  <2> QED BY <1>1, <2>1 DEF IInv, OneTaskAtATime
<1>5. DeliveredInOrder'
  <2> SUFFICES ASSUME NEW u \in Task PROVE (emitted[u] = delivered[u] \o deque[u])'
    BY DEF DeliveredInOrder
  <2>1. emitted[u] = delivered[u] \o deque[u] /\ delivered' = delivered
    BY <1>1 DEF IInv, DeliveredInOrder, ctlVars
  <2>2. CASE u = t
    <3>1. emitted'[u] = (delivered[u] \o deque[u]) \o <<event>>
      BY <1>1, <1>2, <2>1, <2>2, AppendIsConcat
    <3>2. deque'[u] = deque[u] \o <<event>>
      BY <1>1, <1>2, <2>2, AppendIsConcat
    <3>3. (delivered[u] \o deque[u]) \o <<event>> = delivered[u] \o (deque[u] \o <<event>>)
      <4> DEFINE read == delivered[u]
                 waiting == deque[u]
      <4>1. read \in Seq(Event) /\ waiting \in Seq(Event)  BY <1>2
      <4> HIDE DEF read, waiting
      <4>2. (read \o waiting) \o <<event>> = read \o (waiting \o <<event>>)
        BY <4>1, OneMoreAfter
      <4> QED BY <4>2 DEF read, waiting
    <3> QED BY <2>1, <3>1, <3>2, <3>3
  <2>3. CASE u # t  BY <1>1, <1>2, <2>1, <2>3
  <2> QED BY <2>2, <2>3
<1>6. RunningWhileWorking'
  BY <1>1, <1>2 DEF IInv, RunningWhileWorking, Working, ctlVars
<1>7. OverMeansEmpty'
  BY <1>1, <1>2 DEF IInv, OverMeansEmpty, Working, ctlVars
<1> QED BY <1>3, <1>4, <1>5, <1>6, <1>7 DEF IInv

(***************************************************************************)
(* A step of the thread that emits nothing and stays on its side of the    *)
(* semaphore.                                                              *)
(***************************************************************************)
LEMMA QuietStepPreserves ==
  ASSUME IInv, TypeOK', NEW t \in Task, NEW from \in Working, NEW to \in Working,
         from \in {"queued", "acquire"} <=> to \in {"queued", "acquire"},
         pc[t] = from, pc' = [pc EXCEPT ![t] = to],
         UNCHANGED <<running, holder, ctl, eof, deque, emitted, delivered>>
  PROVE  IInv'
<1>1. pc \in [Task -> Label]  BY DEF IInv, TypeOK, Label
<1>2. OneTaskAtATime'
  <2>1. \A u \in Task : Busy(u)' <=> Busy(u)
    BY <1>1 DEF Busy, Working, Label
  <2> QED BY <2>1 DEF IInv, OneTaskAtATime
<1>3. DeliveredInOrder'  BY DEF IInv, DeliveredInOrder
<1>4. RunningWhileWorking'  BY <1>1 DEF IInv, RunningWhileWorking, Working
<1>5. OverMeansEmpty'  BY <1>1 DEF IInv, OverMeansEmpty, Working
<1> QED BY <1>2, <1>3, <1>4, <1>5 DEF IInv

LEMMA RoutePreserves ==
  ASSUME IInv, NEW t \in Task, NEW from \in Working, NEW to \in Working,
         NEW event \in Event, RouteAt(t, from, event, to),
         from \in {"queued", "acquire"} <=> to \in {"queued", "acquire"}
  PROVE  IInv'
<1>1. CASE EmitAt(t, from, event, to)  BY <1>1, EmitPreserves
<1>2. CASE ~EmitAt(t, from, event, to)
  <2>1. /\ pc[t] = from /\ pc' = [pc EXCEPT ![t] = to]
        /\ UNCHANGED <<running, notify, holder, muted, error, emitted, faults, ctlVars,
                       deque, interrupted>>
    BY <1>2 DEF RouteAt, At, Goto
  <2>2. TypeOK'
    <3>1. pc' \in [Task -> Label]  BY <2>1 DEF IInv, TypeOK, Label, Working
    <3> QED BY <2>1, <3>1 DEF IInv, TypeOK, Label, ctlVars
  <2> QED BY <2>1, <2>2, QuietStepPreserves DEF ctlVars
<1> QED BY <1>1, <1>2

(***************************************************************************)
(* The steps of the thread.                                                *)
(***************************************************************************)
LEMMA ThreadPreserves ==
  ASSUME IInv, NEW t \in Task, ThreadStep(t) PROVE IInv'
<1> USE DEF Working, Label
<1>0. pc \in [Task -> Label] /\ TypeOK  BY DEF IInv, TypeOK
<1>1. CASE Notify(t)
  <2>1. /\ notify' = [notify EXCEPT ![t] = FALSE]
        /\ ctl' = [ctl EXCEPT ![t] = IF @ = "waiting" THEN "awake" ELSE @]
        /\ UNCHANGED <<pc, running, holder, muted, error, emitted, faults, eof, delivered,
                       deque, interrupted>>
    BY <1>1 DEF Notify
  <2>2. TypeOK'  BY <1>0, <2>1 DEF TypeOK
  <2>3. OneTaskAtATime' /\ DeliveredInOrder'
    BY <2>1 DEF IInv, OneTaskAtATime, Busy, DeliveredInOrder
  <2>4. \A u \in Task : /\ ctl'[u] = "unborn" <=> ctl[u] = "unborn"
                        /\ ctl'[u] = "destroy" <=> ctl[u] = "destroy"
    BY <1>0, <2>1 DEF TypeOK
  <2>5. RunningWhileWorking' /\ OverMeansEmpty'
    BY <2>1, <2>4 DEF IInv, RunningWhileWorking, OverMeansEmpty
  <2> QED BY <2>2, <2>3, <2>5 DEF IInv
<1>2. CASE Queued(t)  BY <1>2, EmitPreserves DEF Queued, Event
<1>3. CASE Acquire(t)
  <2>1. /\ pc[t] = "acquire" /\ holder = NoTask /\ holder' = t
        /\ pc' = [pc EXCEPT ![t] = "validate"]
        /\ UNCHANGED <<running, notify, muted, error, emitted, faults, ctlVars, deque,
                       interrupted>>
    BY <1>3 DEF Acquire, At, Goto
  <2>2. TypeOK'  BY <1>0, <2>1 DEF TypeOK, ctlVars
  <2>3. OneTaskAtATime'
    <3>1. \A u \in Task : ~Busy(u)
      BY <2>1, EngineAssumption DEF IInv, OneTaskAtATime
    <3>2. \A u \in Task : Busy(u)' => u = t
      BY <1>0, <2>1, <3>1 DEF Busy
    <3> QED BY <2>1, <3>2 DEF OneTaskAtATime
  <2>4. DeliveredInOrder' /\ RunningWhileWorking' /\ OverMeansEmpty'
    BY <1>0, <2>1 DEF IInv, DeliveredInOrder, RunningWhileWorking, OverMeansEmpty, ctlVars
  <2> QED BY <2>2, <2>3, <2>4 DEF IInv
<1>4. CASE Accept(t)
  <2>1. PICK events \in SUBSET Mutable : muted' = [muted EXCEPT ![t] = events]
    BY <1>4 DEF Accept
  <2>2. /\ pc[t] = "validate" /\ pc' = [pc EXCEPT ![t] = "started"]
        /\ UNCHANGED <<running, notify, holder, error, emitted, faults, ctlVars, deque,
                       interrupted>>
    BY <1>4 DEF Accept, At, Goto
  <2>3. TypeOK'  BY <1>0, <2>1, <2>2 DEF TypeOK, ctlVars
  <2> QED BY <2>2, <2>3, QuietStepPreserves DEF ctlVars
<1>5. CASE RejectLog(t)  BY <1>5, EmitPreserves DEF RejectLog, Event
<1>6. CASE RejectFailure(t)  BY <1>6, EmitPreserves DEF RejectFailure, Event
<1>7. CASE Started(t)  BY <1>7, RoutePreserves DEF Started, Event
<1>8. CASE LoopStarts(t)
  <2>1. /\ pc[t] = "loop"
        /\ pc' = [pc EXCEPT ![t] = IF interrupted[t] THEN "end" ELSE "body"]
        /\ UNCHANGED <<running, notify, holder, muted, error, emitted, faults, ctlVars,
                       deque, interrupted>>
    BY <1>8 DEF LoopStarts, At, Goto
  <2>2. TypeOK'  BY <1>0, <2>1 DEF TypeOK, ctlVars
  <2>3. CASE interrupted[t]
    <3>1. pc' = [pc EXCEPT ![t] = "end"]  BY <2>1, <2>3
    <3> QED BY <2>1, <2>2, <3>1, QuietStepPreserves DEF ctlVars
  <2>4. CASE ~interrupted[t]
    <3>1. pc' = [pc EXCEPT ![t] = "body"]  BY <2>1, <2>4
    <3> QED BY <2>1, <2>2, <3>1, QuietStepPreserves DEF ctlVars
  <2> QED BY <2>3, <2>4
<1>9. CASE BodyEnds(t)
  <2>1. PICK b \in {"", "begin_error"}, e \in {"", "end_error"} :
          /\ error' = [error EXCEPT ![t] = IF b # "" THEN e ELSE b]
          /\ faults' = [faults EXCEPT ![t] = {b, e} \ {""}]
    BY <1>9 DEF BodyEnds
  <2>2. /\ pc[t] = "body" /\ pc' = [pc EXCEPT ![t] = "end"]
        /\ UNCHANGED <<running, notify, holder, muted, emitted, ctlVars, deque,
                       interrupted>>
    BY <1>9 DEF BodyEnds, At, Goto
  <2>3. TypeOK'
    <3>1. error' \in [Task -> Reason]  BY <1>0, <2>1 DEF TypeOK, Reason
    <3>2. faults' \in [Task -> SUBSET Reason]  BY <1>0, <2>1 DEF TypeOK, Reason
    <3> QED BY <1>0, <2>2, <3>1, <3>2 DEF TypeOK, ctlVars
  <2> QED BY <2>2, <2>3, QuietStepPreserves DEF ctlVars
<1>10. CASE Ended(t)  BY <1>10, RoutePreserves DEF Ended, Event
<1>11. CASE Clear(t)
  <2>1. /\ pc[t] = "clear" /\ pc' = [pc EXCEPT ![t] = "release"]
        /\ running' = [running EXCEPT ![t] = FALSE]
        /\ notify' = [notify EXCEPT ![t] = TRUE]
        /\ UNCHANGED <<holder, muted, error, emitted, faults, ctlVars, deque,
                       interrupted>>
    BY <1>11 DEF Clear, At, Goto
  <2>2. TypeOK'  BY <1>0, <2>1 DEF TypeOK, ctlVars
  <2>3. OneTaskAtATime'
    <3>1. \A u \in Task : Busy(u)' <=> Busy(u)  BY <1>0, <2>1 DEF Busy
    <3> QED BY <2>1, <3>1 DEF IInv, OneTaskAtATime
  <2>4. DeliveredInOrder'  BY <2>1 DEF IInv, DeliveredInOrder, ctlVars
  <2>5. RunningWhileWorking'
    BY <1>0, <2>1 DEF IInv, RunningWhileWorking, TypeOK, ctlVars
  <2>6. OverMeansEmpty'  BY <1>0, <2>1 DEF IInv, OverMeansEmpty, ctlVars
  <2> QED BY <2>2, <2>3, <2>4, <2>5, <2>6 DEF IInv
<1>12. CASE Release(t)
  <2>1. /\ pc[t] = "release" /\ pc' = [pc EXCEPT ![t] = "exited"]
        /\ holder' = NoTask
        /\ UNCHANGED <<running, notify, muted, error, emitted, faults, ctlVars, deque,
                       interrupted>>
    BY <1>12 DEF Release, At, Goto
  <2>2. TypeOK'  BY <1>0, <2>1 DEF TypeOK, ctlVars
  <2>3. OneTaskAtATime'
    <3>1. \A u \in Task : Busy(u) => u = t
      BY <2>1 DEF IInv, OneTaskAtATime, Busy
    <3>2. \A u \in Task : ~(Busy(u)')  BY <1>0, <2>1, <3>1 DEF Busy
    <3> QED BY <3>2 DEF OneTaskAtATime
  <2>4. DeliveredInOrder' /\ RunningWhileWorking' /\ OverMeansEmpty'
    BY <1>0, <2>1 DEF IInv, DeliveredInOrder, RunningWhileWorking, OverMeansEmpty, ctlVars
  <2> QED BY <2>2, <2>3, <2>4 DEF IInv
<1>13. CASE Warn(t)  BY <1>13, EmitPreserves DEF Warn, Event
<1>14. CASE BodyEmits(t)  BY <1>14, RoutePreserves DEF BodyEmits, Event
<1> QED BY <1>1, <1>2, <1>3, <1>4, <1>5, <1>6, <1>7, <1>8, <1>9, <1>10, <1>11, <1>12,
           <1>13, <1>14 DEF ThreadStep, ThreadProgress

(***************************************************************************)
(* A step of the controller that takes no event and is not told that the   *)
(* task is over.                                                           *)
(***************************************************************************)
LEMMA ControllerMoves ==
  ASSUME IInv, TypeOK', NEW t \in Task,
         \A u \in Task : u # t => ctl'[u] = ctl[u],
         ctl'[t] \notin {"unborn", "destroy"}, ctl[t] # "unborn",
         UNCHANGED <<pc, running, holder, eof, deque, emitted, delivered>>
  PROVE  IInv'
<1>1. ctl \in [Task -> {"unborn", "poll", "wait", "awake", "blocking", "waiting",
                        "destroy", "leave", "gone"}]
  BY DEF IInv, TypeOK
<1>2. OneTaskAtATime' /\ DeliveredInOrder'
  BY DEF IInv, OneTaskAtATime, Busy, DeliveredInOrder
<1>3. RunningWhileWorking'  BY <1>1 DEF IInv, RunningWhileWorking
<1>4. OverMeansEmpty'  BY <1>1 DEF IInv, OverMeansEmpty
<1> QED BY <1>2, <1>3, <1>4 DEF IInv

LEMMA ControllerPreserves ==
  ASSUME IInv, NEW t \in Task,
         ControllerStep(t) \/ SpuriousWake(t) \/ Leave(t) \/ Interrupt(t) \/ Construct(t)
  PROVE  IInv'
<1> USE DEF Working, Label
<1>0. /\ TypeOK /\ pc \in [Task -> Label] /\ running \in [Task -> BOOLEAN]
      /\ ctl \in [Task -> {"unborn", "poll", "wait", "awake", "blocking", "waiting",
                           "destroy", "leave", "gone"}]
      /\ deque \in [Task -> Seq(Event)] /\ delivered \in [Task -> Seq(Event)]
      /\ eof \in [Task -> BOOLEAN]
  BY DEF IInv, TypeOK
<1>1. CASE IsDone(t)
  <2>1. /\ ctl[t] = "poll" /\ ctl' = [ctl EXCEPT ![t] = IF Done(t) THEN "destroy" ELSE "wait"]
        /\ UNCHANGED <<threadVars, eof, delivered, deque, interrupted>>
    BY <1>1 DEF IsDone
  <2>2. TypeOK'
    <3>1. ctl' \in [Task -> {"unborn", "poll", "wait", "awake", "blocking", "waiting",
                             "destroy", "leave", "gone"}]
      BY <1>0, <2>1
    <3> QED BY <1>0, <2>1, <3>1 DEF TypeOK, threadVars
  <2>3. CASE Done(t)
    <3>1. deque[t] = <<>> /\ pc[t] \in {"release", "exited"}
      <4>1. ~running[t] /\ deque[t] = <<>>  BY <2>3 DEF Done
      <4>2. pc[t] # "unborn"  BY <2>1 DEF IInv, RunningWhileWorking
      <4> QED BY <4>1, <4>2, <1>0 DEF IInv, RunningWhileWorking
    <3>2. OneTaskAtATime' /\ DeliveredInOrder'
      BY <2>1 DEF IInv, OneTaskAtATime, Busy, DeliveredInOrder, threadVars
    <3>3. RunningWhileWorking'
      BY <1>0, <2>1 DEF IInv, RunningWhileWorking, threadVars
    <3>4. OverMeansEmpty'
      BY <1>0, <2>1, <3>1 DEF IInv, OverMeansEmpty, threadVars
    <3> QED BY <2>2, <3>2, <3>3, <3>4 DEF IInv
  <2>4. CASE ~Done(t)
    <3>1. ctl' = [ctl EXCEPT ![t] = "wait"]  BY <2>1, <2>4
    <3>2. /\ \A u \in Task : u # t => ctl'[u] = ctl[u]
          /\ ctl'[t] \notin {"unborn", "destroy"} /\ ctl[t] # "unborn"
          /\ UNCHANGED <<pc, running, holder, eof, deque, emitted, delivered>>
      BY <1>0, <2>1, <3>1 DEF threadVars
    <3> QED BY <2>2, <3>2, ControllerMoves
  <2> QED BY <2>3, <2>4
<1>2. CASE Take(t)
  <2>1. /\ ctl[t] \in {"wait", "awake"} /\ deque[t] # <<>>
        /\ delivered' = [delivered EXCEPT ![t] = Append(@, Head(deque[t]))]
        /\ deque' = [deque EXCEPT ![t] = Tail(@)]
        /\ ctl' = [ctl EXCEPT ![t] = "poll"]
        /\ UNCHANGED <<threadVars, eof, interrupted>>
    BY <1>2 DEF Take, Awake
  <2>2. Head(deque[t]) \in Event /\ Tail(deque[t]) \in Seq(Event)
    BY <1>0, <2>1, HeadTailProperties
  <2>3. Append(delivered[t], Head(deque[t])) \in Seq(Event)
    BY <1>0, <2>2, AppendProperties
  <2>4. TypeOK'
    <3>1. delivered' \in [Task -> Seq(Event)] /\ deque' \in [Task -> Seq(Event)]
      BY <1>0, <2>1, <2>2, <2>3
    <3>2. ctl' \in [Task -> {"unborn", "poll", "wait", "awake", "blocking", "waiting",
                             "destroy", "leave", "gone"}]
      BY <1>0, <2>1
    <3> QED BY <1>0, <2>1, <3>1, <3>2 DEF TypeOK, threadVars
  <2>5. OneTaskAtATime'  BY <2>1 DEF IInv, OneTaskAtATime, Busy, threadVars
  <2>6. DeliveredInOrder'
    <3> SUFFICES ASSUME NEW u \in Task PROVE (emitted[u] = delivered[u] \o deque[u])'
      BY DEF DeliveredInOrder
    <3>1. emitted[u] = delivered[u] \o deque[u] /\ emitted' = emitted
      BY <2>1 DEF IInv, DeliveredInOrder, threadVars
    <3>2. CASE u = t
      <4>1. delivered'[u] = delivered[u] \o <<Head(deque[u])>> /\ deque'[u] = Tail(deque[u])
        BY <1>0, <2>1, <2>2, <3>2, AppendIsConcat
      <4>2. deque[u] = <<Head(deque[u])>> \o Tail(deque[u])
        BY <1>0, <2>1, <3>2
      <4>3. (delivered[u] \o <<Head(deque[u])>>) \o Tail(deque[u])
              = delivered[u] \o (<<Head(deque[u])>> \o Tail(deque[u]))
        <5> DEFINE read == delivered[u]
                   event == Head(deque[u])
                   rest == Tail(deque[u])
        <5>1. read \in Seq(Event) /\ event \in Event /\ rest \in Seq(Event)
          BY <1>0, <2>2, <3>2
        <5> HIDE DEF read, event, rest
        <5>2. (read \o <<event>>) \o rest = read \o (<<event>> \o rest)
          BY <5>1, OneMoreBetween
        <5> QED BY <5>2 DEF read, event, rest
      <4> QED BY <3>1, <4>1, <4>2, <4>3
    <3>3. CASE u # t  BY <1>0, <2>1, <3>1, <3>3
    <3> QED BY <3>2, <3>3
  <2>7. RunningWhileWorking'
    BY <1>0, <2>1 DEF IInv, RunningWhileWorking, threadVars
  <2>8. OverMeansEmpty'
    <3>1. ~eof[t]  BY <2>1 DEF IInv, OverMeansEmpty
    <3> QED BY <1>0, <2>1, <3>1 DEF IInv, OverMeansEmpty, threadVars
  <2> QED BY <2>4, <2>5, <2>6, <2>7, <2>8 DEF IInv
<1>3. CASE Terminated(t)
  <2>1. /\ ctl[t] \in {"wait", "awake"} /\ deque[t] = <<>> /\ ~running[t]
        /\ eof' = [eof EXCEPT ![t] = TRUE] /\ ctl' = [ctl EXCEPT ![t] = "poll"]
        /\ UNCHANGED <<threadVars, delivered, deque, interrupted>>
    BY <1>3 DEF Terminated, Awake
  <2>2. TypeOK'
    <3>1. ctl' \in [Task -> {"unborn", "poll", "wait", "awake", "blocking", "waiting",
                             "destroy", "leave", "gone"}]
          /\ eof' \in [Task -> BOOLEAN]
      BY <1>0, <2>1
    <3> QED BY <1>0, <2>1, <3>1 DEF TypeOK, threadVars
  <2>3. pc[t] \in {"release", "exited"}
    BY <1>0, <2>1 DEF IInv, RunningWhileWorking
  <2>4. OneTaskAtATime' /\ DeliveredInOrder'
    BY <2>1 DEF IInv, OneTaskAtATime, Busy, DeliveredInOrder, threadVars
  <2>5. RunningWhileWorking'
    BY <1>0, <2>1 DEF IInv, RunningWhileWorking, threadVars
  <2>6. OverMeansEmpty'
    BY <1>0, <2>1, <2>3 DEF IInv, OverMeansEmpty, threadVars
  <2> QED BY <2>2, <2>4, <2>5, <2>6 DEF IInv
<1>4. CASE NothingYet(t)
  <2>1. TypeOK'  BY <1>0, <1>4 DEF NothingYet, TypeOK, threadVars
  <2>2. /\ \A u \in Task : u # t => ctl'[u] = ctl[u]
        /\ ctl'[t] \notin {"unborn", "destroy"} /\ ctl[t] # "unborn"
        /\ UNCHANGED <<pc, running, holder, eof, deque, emitted, delivered>>
    BY <1>0, <1>4 DEF NothingYet, Awake, threadVars
  <2> QED BY <2>1, <2>2, ControllerMoves
<1>5. CASE Sleep(t)
  <2>1. TypeOK'  BY <1>0, <1>5 DEF Sleep, TypeOK, threadVars
  <2>2. /\ \A u \in Task : u # t => ctl'[u] = ctl[u]
        /\ ctl'[t] \notin {"unborn", "destroy"} /\ ctl[t] # "unborn"
        /\ UNCHANGED <<pc, running, holder, eof, deque, emitted, delivered>>
    BY <1>0, <1>5 DEF Sleep, threadVars
  <2> QED BY <2>1, <2>2, ControllerMoves
<1>6. CASE Destroy(t)
  <2>1. TypeOK'  BY <1>0, <1>6 DEF Destroy, TypeOK, threadVars
  <2>2. /\ \A u \in Task : u # t => ctl'[u] = ctl[u]
        /\ ctl'[t] \notin {"unborn", "destroy"} /\ ctl[t] # "unborn"
        /\ UNCHANGED <<pc, running, holder, eof, deque, emitted, delivered>>
    BY <1>0, <1>6 DEF Destroy, threadVars
  <2> QED BY <2>1, <2>2, ControllerMoves
<1>7. CASE SpuriousWake(t)
  <2>1. TypeOK'  BY <1>0, <1>7 DEF SpuriousWake, TypeOK, threadVars
  <2>2. /\ \A u \in Task : u # t => ctl'[u] = ctl[u]
        /\ ctl'[t] \notin {"unborn", "destroy"} /\ ctl[t] # "unborn"
        /\ UNCHANGED <<pc, running, holder, eof, deque, emitted, delivered>>
    BY <1>0, <1>7 DEF SpuriousWake, threadVars
  <2> QED BY <2>1, <2>2, ControllerMoves
<1>8. CASE Leave(t)
  <2>1. TypeOK'  BY <1>0, <1>8 DEF Leave, TypeOK, threadVars
  <2>2. /\ \A u \in Task : u # t => ctl'[u] = ctl[u]
        /\ ctl'[t] \notin {"unborn", "destroy"} /\ ctl[t] # "unborn"
        /\ UNCHANGED <<pc, running, holder, eof, deque, emitted, delivered>>
    BY <1>0, <1>8 DEF Leave, threadVars
  <2> QED BY <2>1, <2>2, ControllerMoves
<1>9. CASE Interrupt(t)
  <2>1. /\ interrupted' = [interrupted EXCEPT ![t] = TRUE]
        /\ UNCHANGED <<threadVars, ctlVars, deque>>
    BY <1>9 DEF Interrupt
  <2>2. TypeOK'
    <3>1. interrupted' \in [Task -> BOOLEAN]
      BY <1>0, <2>1, Zenon DEF TypeOK
    <3> QED BY <1>0, <2>1, <3>1 DEF TypeOK, threadVars, ctlVars
  <2>3. /\ OneTaskAtATime' /\ DeliveredInOrder' /\ RunningWhileWorking' /\ OverMeansEmpty'
    BY <2>1 DEF IInv, OneTaskAtATime, Busy, DeliveredInOrder, RunningWhileWorking,
                OverMeansEmpty, threadVars, ctlVars
  <2> QED BY <2>2, <2>3 DEF IInv
<1>10. CASE Construct(t)
  <2>1. /\ pc[t] = "unborn" /\ pc' = [pc EXCEPT ![t] = "queued"]
        /\ running' = [running EXCEPT ![t] = TRUE] /\ ctl' = [ctl EXCEPT ![t] = "poll"]
        /\ UNCHANGED <<notify, holder, muted, error, emitted, faults, eof, delivered,
                       deque, interrupted>>
    BY <1>10 DEF Construct
  <2>2. TypeOK'  BY <1>0, <2>1 DEF TypeOK
  <2>3. OneTaskAtATime'
    <3>1. \A u \in Task : Busy(u)' <=> Busy(u)  BY <1>0, <2>1 DEF Busy
    <3> QED BY <2>1, <3>1 DEF IInv, OneTaskAtATime
  <2>4. DeliveredInOrder'  BY <2>1 DEF IInv, DeliveredInOrder
  <2>5. RunningWhileWorking'  BY <1>0, <2>1 DEF IInv, RunningWhileWorking
  <2>6. OverMeansEmpty'  BY <1>0, <2>1 DEF IInv, OverMeansEmpty
  <2> QED BY <2>2, <2>3, <2>4, <2>5, <2>6 DEF IInv
<1> QED BY <1>1, <1>2, <1>3, <1>4, <1>5, <1>6, <1>7, <1>8, <1>9, <1>10
        DEF ControllerStep

LEMMA NextIInv == IInv /\ [Next]_vars => IInv'
<1> SUFFICES ASSUME IInv, [Next]_vars PROVE IInv'  OBVIOUS
<1>1. CASE UNCHANGED vars
  BY <1>1 DEF vars, threadVars, ctlVars, IInv, TypeOK, OneTaskAtATime, Busy,
              DeliveredInOrder, RunningWhileWorking, OverMeansEmpty
<1>2. CASE Next
  BY <1>2, ThreadPreserves, ControllerPreserves DEF Next
<1> QED BY <1>1, <1>2

THEOREM EngineInvariant == Spec => []IInv
BY InitIInv, NextIInv, PTL DEF Spec

(***************************************************************************)
(* Every variable keeps its type.                                          *)
(***************************************************************************)
THEOREM TypeCorrect == Spec => []TypeOK
<1>1. IInv => TypeOK  BY DEF IInv
<1> QED BY <1>1, EngineInvariant, PTL

(***************************************************************************)
(* However many tasks an application starts, they do not run concurrently  *)
(* (engine.cpp:111).                                                       *)
(***************************************************************************)
THEOREM MutualExclusion == Spec => []OneTaskAtATime
<1>1. IInv => OneTaskAtATime  BY DEF IInv
<1> QED BY <1>1, EngineInvariant, PTL

(***************************************************************************)
(* No event is lost, duplicated or reordered between emit() and            *)
(* wait_for_next_event().                                                  *)
(***************************************************************************)
THEOREM NoEventLost == Spec => []DeliveredInOrder
<1>1. IInv => DeliveredInOrder  BY DEF IInv
<1> QED BY <1>1, EngineInvariant, PTL

(***************************************************************************)
(* task_terminated, and is_done(), come after the last event               *)
(* (engine.cpp:140).                                                       *)
(***************************************************************************)
THEOREM QueueDrained == Spec => []DrainedBeforeEof
<1>1. IInv => DrainedBeforeEof
  <2> SUFFICES ASSUME IInv, NEW t \in Task, eof[t] \/ ctl[t] = "destroy"
               PROVE  delivered[t] = emitted[t] /\ pc[t] \in {"release", "exited"}
    BY DEF DrainedBeforeEof
  <2>1. deque[t] = <<>> /\ pc[t] \in {"release", "exited"}
    BY DEF IInv, OverMeansEmpty
  <2>2. emitted[t] = delivered[t] \o <<>>  BY <2>1 DEF IInv, DeliveredInOrder
  <2>3. delivered[t] \in Seq(Event)  BY DEF IInv, TypeOK
  <2>4. delivered[t] \o <<>> = delivered[t]  BY <2>3, ConcatEmptySeq
  <2> QED BY <2>1, <2>2, <2>4
<1> QED BY <1>1, EngineInvariant, PTL

-----------------------------------------------------------------------------
(***************************************************************************)
(* The order of the events.  What a task may have emitted depends on how   *)
(* far its thread is; whatever it emits next may follow all of that.       *)
(***************************************************************************)
Over == {"clear", "release", "exited"}

SoFar(label) == {e \in Event :
  \/ e = "status.queued" /\ label \notin {"unborn", "queued"}
  \/ e = "log" /\ label \notin {"unborn", "queued", "acquire"}
  \/ e = "status.started" /\ label \in {"loop", "body", "end"} \union Over
  \/ e = "measurement" /\ label \in {"body", "end"} \union Over
  \/ e \in {"failure.startup", "status.end"} /\ label \in Over}

Ordered(s) ==
  /\ s # <<>> => s[1] = "status.queued"
  /\ \A i, j \in 1..Len(s) : i < j => Follows(s[i], s[j])

LastOf(s) == s[Len(s)]

InOrder(t) ==
  /\ Ordered(emitted[t])
  /\ \A i \in 1..Len(emitted[t]) : emitted[t][i] \in SoFar(pc[t])
  /\ pc[t] \notin {"unborn", "queued"} => emitted[t] # <<>>
  /\ pc[t] \in Over =>
       LastOf(emitted[t]) \in {"failure.startup", "status.end"} \/ "status.end" \in muted[t]

EventsInOrder == \A t \in Task : InOrder(t)

LEMMA MayFollow ==
  /\ \A e \in {"status.queued", "log"} :
       Follows(e, "log") /\ Follows(e, "failure.startup") /\ Follows(e, "status.started")
  /\ \A e \in {"status.queued", "log", "status.started", "measurement"} :
       Follows(e, "log") /\ Follows(e, "measurement") /\ Follows(e, "status.end")
BY DEF Follows

LEMMA OrderedAppend ==
  ASSUME NEW s \in Seq(Event), NEW e \in Event, Ordered(s),
         s = <<>> => e = "status.queued",
         \A i \in 1..Len(s) : Follows(s[i], e)
  PROVE  /\ Ordered(Append(s, e)) /\ Append(s, e) # <<>> /\ LastOf(Append(s, e)) = e
         /\ \A i \in 1..Len(Append(s, e)) : Append(s, e)[i] = e \/ \E j \in 1..Len(s) :
              Append(s, e)[i] = s[j]
<1>1. /\ Append(s, e) \in Seq(Event) /\ Len(Append(s, e)) = Len(s) + 1 /\ Len(s) \in Nat
      /\ Append(s, e)[Len(s) + 1] = e /\ \A i \in 1..Len(s) : Append(s, e)[i] = s[i]
  BY AppendProperties
<1>. DEFINE z == Append(s, e)
<1>. HIDE DEF z
<1>2. z[1] = "status.queued"
  <2>1. CASE s = <<>>
    BY <1>1, <2>1 DEF z
  <2>2. CASE s # <<>>
    BY <1>1, <2>2 DEF z, Ordered
  <2>. QED
    BY <2>1, <2>2
<1>3. ASSUME NEW i \in 1..Len(z), NEW j \in 1..Len(z), i < j
      PROVE  Follows(z[i], z[j])
  <2>1. i \in 1..Len(s) /\ z[i] = s[i]
    BY <1>1, <1>3 DEF z
  <2>2. CASE j = Len(s) + 1
    BY <1>1, <2>1, <2>2 DEF z
  <2>3. CASE j # Len(s) + 1
    <3>1. j \in 1..Len(s) /\ z[j] = s[j]
      BY <1>1, <2>3 DEF z
    <3>. QED
      BY <1>3, <2>1, <3>1 DEF Ordered
  <2>. QED
    BY <2>2, <2>3
<1>4. Ordered(z)
  BY <1>2, <1>3 DEF Ordered
<1>. QED
  BY <1>1, <1>4 DEF z, LastOf

\* The thread emits an event that may follow all that it emitted.
LEMMA EmitInOrder ==
  ASSUME IInv, NEW t \in Task, InOrder(t), NEW from \in Label, NEW to \in Label,
         NEW event \in Event, EmitAt(t, from, event, to),
         event \in SoFar(to), SoFar(from) \subseteq SoFar(to), to \notin {"unborn", "queued"},
         IF from = "queued" THEN event = "status.queued"
                            ELSE from # "unborn" /\ \A e \in SoFar(from) : Follows(e, event),
         to \in Over => event \in {"failure.startup", "status.end"}
  PROVE  InOrder(t)'
<1>1. /\ pc[t] = from /\ pc'[t] = to /\ emitted'[t] = Append(emitted[t], event)
      /\ emitted[t] \in Seq(Event) /\ muted' = muted
  BY DEF EmitAt, At, Emit, Goto, IInv, TypeOK
<1>2. emitted[t] = <<>> => event = "status.queued"
  BY <1>1 DEF InOrder
<1>3. \A i \in 1..Len(emitted[t]) : Follows(emitted[t][i], event)
  <2>1. CASE from = "queued"
    <3>1. SoFar("queued") = {}
      BY DEF SoFar, Over
    <3>. QED
      BY <1>1, <2>1, <3>1 DEF InOrder
  <2>2. CASE from # "queued"
    BY <1>1, <2>2 DEF InOrder
  <2>. QED
    BY <2>1, <2>2
<1>4. /\ Ordered(emitted'[t]) /\ emitted'[t] # <<>> /\ LastOf(emitted'[t]) = event
      /\ \A i \in 1..Len(emitted'[t]) : emitted'[t][i] = event \/ \E j \in 1..Len(emitted[t]) :
           emitted'[t][i] = emitted[t][j]
  BY <1>1, <1>2, <1>3, OrderedAppend DEF InOrder
<1>5. \A i \in 1..Len(emitted'[t]) : emitted'[t][i] \in SoFar(to)
  BY <1>1, <1>4 DEF InOrder
<1>. QED
  BY <1>1, <1>4, <1>5 DEF InOrder

\* A step that emits nothing takes the thread to where more may have been emitted.
LEMMA QuietInOrder ==
  ASSUME NEW t \in Task, InOrder(t), emitted'[t] = emitted[t],
         SoFar(pc[t]) \subseteq SoFar(pc'[t]),
         pc[t] \in {"unborn", "queued"} => pc'[t] \in {"unborn", "queued"},
         pc'[t] \in Over => (pc[t] \in Over /\ muted'[t] = muted[t]) \/ "status.end" \in muted'[t]
  PROVE  InOrder(t)'
BY DEF InOrder

LEMMA ThreadInOrder ==
  ASSUME IInv, EventsInOrder, NEW t \in Task, ThreadStep(t)
  PROVE  InOrder(t)'
<1>. USE DEF Label, Event, Over
<1>0. InOrder(t) /\ pc \in [Task -> Label] /\ muted \in [Task -> SUBSET Mutable]
  BY DEF EventsInOrder, IInv, TypeOK
<1>1. CASE Queued(t)
  BY <1>0, <1>1, EmitInOrder DEF Queued, SoFar
<1>2. CASE Warn(t)
  <2>1. \A e \in SoFar("validate") : Follows(e, "log")
    BY MayFollow DEF SoFar
  <2>2. "log" \in SoFar("validate")
    BY DEF SoFar
  <2>. QED
    BY <1>0, <1>2, <2>1, <2>2, EmitInOrder DEF Warn
<1>3. CASE RejectLog(t)
  <2>1. \A e \in SoFar("validate") : Follows(e, "log")
    BY MayFollow DEF SoFar
  <2>2. "log" \in SoFar("startup") /\ SoFar("validate") \subseteq SoFar("startup")
    BY DEF SoFar
  <2>. QED
    BY <1>0, <1>3, <2>1, <2>2, EmitInOrder DEF RejectLog
<1>4. CASE RejectFailure(t)
  <2>1. \A e \in SoFar("startup") : Follows(e, "failure.startup")
    BY MayFollow DEF SoFar
  <2>2. "failure.startup" \in SoFar("clear") /\ SoFar("startup") \subseteq SoFar("clear")
    BY DEF SoFar
  <2>. QED
    BY <1>0, <1>4, <2>1, <2>2, EmitInOrder DEF RejectFailure
<1>5. CASE Started(t)
  <2>1. \A e \in SoFar("started") : Follows(e, "status.started")
    BY MayFollow DEF SoFar
  <2>2. "status.started" \in SoFar("loop") /\ SoFar("started") \subseteq SoFar("loop")
    BY DEF SoFar
  <2>3. CASE EmitAt(t, "started", "status.started", "loop")
    BY <1>0, <2>1, <2>2, <2>3, EmitInOrder
  <2>4. CASE ~EmitAt(t, "started", "status.started", "loop")
    <3>1. pc[t] = "started" /\ pc'[t] = "loop" /\ emitted' = emitted
      BY <1>0, <1>5, <2>4 DEF Started, RouteAt, At, Goto
    <3>. QED
      BY <1>0, <2>2, <3>1, QuietInOrder
  <2>. QED
    BY <2>3, <2>4
<1>6. CASE BodyEmits(t)
  <2>0. PICK event \in {"log", "measurement"} : RouteAt(t, "body", event, "body")
    BY <1>6 DEF BodyEmits
  <2>1. \A e \in SoFar("body") : Follows(e, event)
    BY MayFollow DEF SoFar
  <2>2. event \in SoFar("body")
    BY DEF SoFar
  <2>3. CASE EmitAt(t, "body", event, "body")
    BY <1>0, <2>1, <2>2, <2>3, EmitInOrder
  <2>4. CASE ~EmitAt(t, "body", event, "body")
    <3>1. pc[t] = "body" /\ pc'[t] = "body" /\ emitted' = emitted
      BY <1>0, <2>0, <2>4 DEF RouteAt, At, Goto
    <3>. QED
      BY <1>0, <3>1, QuietInOrder
  <2>. QED
    BY <2>3, <2>4
<1>7. CASE Ended(t)
  <2>1. \A e \in SoFar("end") : Follows(e, "status.end")
    BY MayFollow DEF SoFar
  <2>2. "status.end" \in SoFar("clear") /\ SoFar("end") \subseteq SoFar("clear")
    BY DEF SoFar
  <2>3. CASE EmitAt(t, "end", "status.end", "clear")
    BY <1>0, <2>1, <2>2, <2>3, EmitInOrder
  <2>4. CASE ~EmitAt(t, "end", "status.end", "clear")
    <3>1. pc[t] = "end" /\ pc'[t] = "clear" /\ emitted' = emitted /\ "status.end" \in muted'[t]
      BY <1>0, <1>7, <2>4 DEF Ended, RouteAt, At, Goto
    <3>. QED
      BY <1>0, <2>2, <3>1, QuietInOrder
  <2>. QED
    BY <2>3, <2>4
<1>8. CASE Notify(t)
  BY <1>0, <1>8, QuietInOrder DEF Notify
<1>9. CASE Acquire(t) \/ Accept(t) \/ LoopStarts(t) \/ BodyEnds(t)
  <2>1. /\ emitted' = emitted
        /\ \/ pc[t] = "acquire" /\ pc'[t] = "validate"
           \/ pc[t] = "validate" /\ pc'[t] = "started"
           \/ pc[t] = "loop" /\ pc'[t] \in {"body", "end"}
           \/ pc[t] = "body" /\ pc'[t] = "end"
    BY <1>0, <1>9 DEF Acquire, Accept, LoopStarts, BodyEnds, At, Goto
  <2>2. SoFar(pc[t]) \subseteq SoFar(pc'[t])
    BY <2>1 DEF SoFar
  <2>. QED
    BY <1>0, <2>1, <2>2, QuietInOrder
<1>10. CASE Clear(t) \/ Release(t)
  <2>1. /\ emitted' = emitted /\ muted' = muted /\ pc[t] \in Over /\ pc'[t] \in Over
    BY <1>0, <1>10 DEF Clear, Release, At, Goto
  <2>2. SoFar(pc[t]) \subseteq SoFar(pc'[t])
    BY <2>1 DEF SoFar
  <2>. QED
    BY <1>0, <2>1, <2>2, QuietInOrder
<1>. QED
  BY <1>1, <1>2, <1>3, <1>4, <1>5, <1>6, <1>7, <1>8, <1>9, <1>10 DEF ThreadStep, ThreadProgress

LEMMA StepInOrder == IInv /\ EventsInOrder /\ [Next]_vars => EventsInOrder'
<1>. SUFFICES ASSUME IInv, EventsInOrder, [Next]_vars, NEW t \in Task
              PROVE  InOrder(t)'
  BY DEF EventsInOrder
<1>0. InOrder(t) /\ pc \in [Task -> Label]
  BY DEF EventsInOrder, IInv, TypeOK, Label
<1>1. CASE ThreadStep(t)
  BY <1>1, ThreadInOrder
<1>2. CASE Construct(t)
  <2>1. pc[t] = "unborn" /\ pc'[t] = "queued" /\ emitted' = emitted
    BY <1>0, <1>2 DEF Construct
  <2>2. SoFar("unborn") \subseteq SoFar("queued")
    BY DEF SoFar, Over
  <2>. QED
    BY <1>0, <2>1, <2>2, QuietInOrder DEF Over
<1>3. CASE /\ pc'[t] = pc[t] /\ emitted'[t] = emitted[t] /\ muted'[t] = muted[t]
  BY <1>0, <1>3 DEF InOrder
<1>4. CASE UNCHANGED <<pc, emitted, muted>>
  BY <1>3, <1>4
<1>5. ASSUME NEW u \in Task, ThreadStep(u) \/ Construct(u), u # t
      PROVE  pc'[t] = pc[t] /\ emitted'[t] = emitted[t] /\ muted'[t] = muted[t]
  <2>1. /\ pc \in [Task -> Label] /\ emitted \in [Task -> Seq(Event)]
        /\ muted \in [Task -> SUBSET Mutable]
    BY DEF IInv, TypeOK, Label
  <2>2. ASSUME NEW from, NEW event, NEW to, EmitAt(u, from, event, to)
        PROVE  pc'[t] = pc[t] /\ emitted'[t] = emitted[t] /\ muted'[t] = muted[t]
    BY <1>5, <2>1, <2>2 DEF EmitAt, Emit, Goto
  <2>3. ASSUME NEW from, NEW event, NEW to, RouteAt(u, from, event, to)
        PROVE  pc'[t] = pc[t] /\ emitted'[t] = emitted[t] /\ muted'[t] = muted[t]
    BY <1>5, <2>1, <2>2, <2>3 DEF RouteAt, Goto
  <2>4. CASE \/ Queued(u) \/ Warn(u) \/ RejectLog(u) \/ RejectFailure(u)
             \/ Started(u) \/ BodyEmits(u) \/ Ended(u)
    BY <2>2, <2>3, <2>4 DEF Queued, Warn, RejectLog, RejectFailure, Started, BodyEmits, Ended
  <2>5. CASE Notify(u) \/ Construct(u)
    BY <1>5, <2>1, <2>5 DEF Notify, Construct
  <2>6. CASE \/ Acquire(u) \/ Accept(u) \/ LoopStarts(u) \/ BodyEnds(u)
             \/ Clear(u) \/ Release(u)
    BY <1>5, <2>1, <2>6 DEF Acquire, Accept, LoopStarts, BodyEnds, Clear, Release, Goto
  <2>. QED
    BY <1>5, <2>4, <2>5, <2>6 DEF ThreadStep, ThreadProgress
<1>6. ASSUME NEW u \in Task,
             ControllerStep(u) \/ SpuriousWake(u) \/ Leave(u) \/ Interrupt(u)
      PROVE  UNCHANGED <<pc, emitted, muted>>
  BY <1>6 DEF ControllerStep, IsDone, Take, Terminated, NothingYet, Sleep, Destroy, SpuriousWake,
              Leave, Interrupt, threadVars
<1>7. CASE UNCHANGED vars
  BY <1>4, <1>7 DEF vars, threadVars
<1>. QED
  BY <1>1, <1>2, <1>3, <1>4, <1>5, <1>6, <1>7 DEF Next

(***************************************************************************)
(* Whatever the settings disable and however many lines are logged, the    *)
(* application sees status.queued first, status.started before any         *)
(* measurement, and nothing after failure.startup or status.end            *)
(* (include/measurement_kit/README.md:544).                                *)
(***************************************************************************)
THEOREM EventsOrdered == Spec => []EventOrder
<1>1. Init => EventsInOrder
  BY DEF Init, EventsInOrder, InOrder, Ordered, Over
<1>2. IInv /\ EventsInOrder => EventOrder
  BY DEF EventsInOrder, EventOrder, InOrder, Ordered, LastOf, Over
<1>. QED
  BY <1>1, <1>2, StepInOrder, EngineInvariant, PTL DEF Spec
=============================================================================
