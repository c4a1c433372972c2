--------------------------- MODULE RunnableProofs ---------------------------
(***************************************************************************)
(* The measurement loop, for any parallelism and any number of inputs:     *)
(* each input is measured once and in order, the events of an idx are of   *)
(* one measurement, nothing calls back after end(), and inputs are left    *)
(* over only for a reason.  What mk::parallel() does is taken from the     *)
(* invariant that ParallelProofs proves, with the operations of the loop   *)
(* in the place of the steps of Parallel.                                  *)
(***************************************************************************)
EXTENDS Runnable, SequenceTheorems, TLAPS

LOCAL INSTANCE SequencesExt

LP == INSTANCE ParallelProofs WITH Sizes <- Parallelism, Widths <- {0}

Completed == Loop!Completed
Failed == Loop!Failed

Where == {"idle", "ready", "main", "write", "soon", "done"}
BeforeLoop == {"begin", "lookup", "open", "inputs"}
AfterLoop == {"end", "closing", "ended"}

LoopTypes ==
  /\ stage \in BeforeLoop \union {"loop"} \union AfterLoop
  /\ inputs \in Seq(Nat) /\ taken \in Seq(Nat) /\ current \in Nat
  /\ chain \in [AnyChain -> [at : Where, idx : Int]]
  /\ events \in [Index -> Seq(Kind)]

\* The list and the counter that the chains share.
InputsInOrder ==
  /\ Len(taken) = current
  /\ current + Len(inputs) <= MaxInputs
  /\ \A i \in 1..current : taken[i] = i
  /\ \A i \in 1..Len(inputs) : inputs[i] = current + i

\* Chains run between the start of the loop and its callback.
StageOfLoop ==
  /\ stage # "loop" => pending = {}
  /\ stage \in BeforeLoop => current = 0 /\ inputs = <<>> /\ Completed = {}
  /\ stage \in BeforeLoop \union {"loop"} => calls = <<>>

\* What a chain does, as mk::parallel() sees it.
ChainsOfLoop == \A c \in Chain :
  /\ c \in pending <=> chain[c].at \in {"ready", "main", "write", "soon"}
  /\ c \in Completed <=> chain[c].at = "done"

Measuring(c) == chain[c].at \in {"main", "write"}

(***************************************************************************)
(* An index belongs to the chain that saved it for as long as its          *)
(* measurement lasts; the measurements that are over have all their        *)
(* events.                                                                 *)
(***************************************************************************)
IndexOfOneChain ==
  /\ \A c \in Chain : Measuring(c) =>
       /\ chain[c].idx \in 0..(current - 1)
       /\ events[chain[c].idx] = IF chain[c].at = "main" THEN <<"start">>
                                                         ELSE <<"start", "measurement">>
  /\ \A c, d \in Chain :
       Measuring(c) /\ Measuring(d) /\ chain[c].idx = chain[d].idx => c = d

EventsOfIndex == \A i \in Index :
  IF i < current
    THEN events[i] \in Lives \/ \E c \in Chain : Measuring(c) /\ chain[c].idx = i
    ELSE events[i] = <<>>

\* A chain that ended well found nothing more to do.
LeftOver == Completed \subseteq Failed \/ expired \/ inputs = <<>>

IInv ==
  /\ LP!IInv
  /\ LoopTypes
  /\ InputsInOrder /\ StageOfLoop /\ ChainsOfLoop
  /\ IndexOfOneChain /\ EventsOfIndex /\ LeftOver

-----------------------------------------------------------------------------
(***************************************************************************)
(* mk::parallel() without a limit: an operation has no successor.          *)
(***************************************************************************)
LEMMA LoopNames ==
  /\ LP!Op = Chain /\ Loop!Op = Chain /\ LP!Stride = Loop!Stride
  /\ LP!Completed = Completed /\ LP!Failed = Failed
  /\ LP!NoOp = -1 /\ Loop!NoOp = -1
BY DEF LP!Op, Loop!Op, LP!Stride, Loop!Stride, LP!Completed, LP!Failed, Completed, Failed,
       Loop!Completed, Loop!Failed, LP!NoOp, Loop!NoOp, Chain

LEMMA LoopFacts ==
  ASSUME LP!IInv
  PROVE  /\ size \in Parallelism /\ size \in Nat /\ Chain \subseteq AnyChain
         /\ pending \subseteq Chain /\ Completed \subseteq Chain /\ Failed \subseteq Chain
         /\ pending \intersect Completed = {}
         /\ calls # <<>> => Completed = Chain /\ pending = {}
         /\ next \in Nat
         /\ \A c \in Chain : c \in pending \union Completed <=> c < next
         /\ Loop!Stride = size
<1>1. size \in Parallelism /\ size \in Nat /\ width = 0
  BY RunnableAssumption DEF LP!IInv, LP!TypeOK
<1>2. Chain \subseteq AnyChain
  BY <1>1 DEF Chain, AnyChain
<1>3. pending \subseteq Chain /\ Completed \subseteq Chain /\ Failed \subseteq Chain /\ next \in Nat
      /\ finished \subseteq [op : Chain, failed : BOOLEAN]
  BY LoopNames DEF LP!IInv, LP!TypeOK, LP!Completed, LP!Failed
<1>4. pending \intersect Completed = {}
  BY LoopNames DEF LP!IInv, LP!ChildErrors
<1>5. Loop!Stride = size
  BY <1>1 DEF Loop!Stride
<1>6. \A c \in Chain : c \in pending \union Completed <=> c < next
  <2>. SUFFICES ASSUME NEW c \in Chain
                PROVE  c \in pending \union Completed <=> c < next
    OBVIOUS
  <2>1. c < LP!Stride
    BY <1>1, <1>5, LoopNames DEF Chain
  <2>. QED
    BY <2>1, LoopNames DEF LP!IInv, LP!SeriesInOrder, LP!Started
<1>7. calls # <<>> => Completed = Chain
  BY LoopNames DEF LP!IInv, LP!Tally
<1>. QED
  BY <1>1, <1>2, <1>3, <1>4, <1>5, <1>6, <1>7

LEMMA LoopStep ==
  ASSUME LP!IInv, LP!Next \/ UNCHANGED parallelVars
  PROVE  LP!IInv'
<1>1. Parallelism \subseteq Nat /\ {0} \subseteq Nat
  BY RunnableAssumption
<1>2. [LP!Next]_(LP!vars)
  BY DEF LP!vars, parallelVars
<1>. QED
  BY <1>1, <1>2, LP!NextIInv

LEMMA LoopStarts ==
  ASSUME LP!IInv, Loop!Iterate
  PROVE  /\ LP!IInv'
         /\ next \in Chain /\ next \notin pending \union Completed
         /\ pending' = pending \union {next} /\ size' = size /\ calls' = calls
         /\ Completed' = Completed /\ Failed' = Failed
<1>1. LP!Iterate
  BY LoopNames DEF Loop!Iterate, LP!Iterate
<1>2. next \in Chain /\ size' = size /\ calls' = calls /\ finished' = finished
  BY LoopFacts DEF Loop!Iterate, Chain
<1>3. pending' = pending \union {next}
  BY <1>2, LoopNames DEF Loop!Iterate
<1>. QED
  BY <1>1, <1>2, <1>3, LoopFacts, LoopStep DEF LP!Next, Completed, Failed, Loop!Completed, Loop!Failed

LEMMA LoopCompletes ==
  ASSUME LP!IInv, NEW c \in Chain, NEW error \in BOOLEAN, Loop!Complete(c, error)
  PROVE  /\ LP!IInv'
         /\ c \in pending /\ pending' = pending \ {c} /\ size' = size
         /\ Completed' = Completed \union {c}
         /\ Failed' = (IF error THEN Failed \union {c} ELSE Failed)
         /\ calls' = calls \/ pending' = {}
<1>1. LP!Complete(c, error) /\ c \in LP!Op
  BY LoopNames DEF Loop!Complete, LP!Complete, Loop!MayComplete, LP!MayComplete, Loop!Record,
                   LP!Record, Loop!CallsBack, LP!CallsBack, Loop!Successor, LP!Successor
<1>2. LP!IInv'
  BY <1>1, LoopStep DEF LP!Next
<1>3. /\ c \in pending /\ Completed' = Completed \union {c} /\ size' = size
      /\ Failed' = (IF error THEN Failed \union {c} ELSE Failed)
  <2>1. /\ c \in pending /\ LP!Completed' = LP!Completed \union {c}
        /\ LP!Failed' = IF error THEN LP!Failed \union {c} ELSE LP!Failed
    BY <1>1, RunnableAssumption, LP!CompleteHistory
  <2>. QED
    BY <2>1, LoopNames DEF Loop!Complete, LP!Completed, LP!Failed, Completed, Failed,
                           Loop!Completed, Loop!Failed
<1>4. Loop!Successor(c) = Loop!NoOp
  BY LoopFacts, LoopNames DEF Loop!Successor, Chain
<1>5. pending' = pending \ {c}
  BY <1>4 DEF Loop!Complete
<1>6. calls' = calls \/ pending' = {}
  <2>1. CASE calls' = calls
    BY <2>1
  <2>2. CASE completed' = size
    <3>1. LP!Completed' = LP!Op'
      BY <1>2, <1>3, <2>2 DEF LP!IInv, LP!Tally
    <3>. QED
      BY <1>2, <3>1 DEF LP!IInv, LP!TypeOK, LP!ChildErrors
  <2>. QED
    BY <2>1, <2>2 DEF Loop!Complete, Loop!CallsBack
<1>. QED
  BY <1>2, <1>3, <1>5, <1>6

-----------------------------------------------------------------------------
LEMMA InitIInv == Init => IInv
<1>. SUFFICES ASSUME Init
              PROVE  IInv
  OBVIOUS
<1>1. LP!IInv
  <2>1. LP!Init
    BY DEF Init, Loop!Init, LP!Init, Loop!NoOp, LP!NoOp
  <2>. QED
    BY <2>1, RunnableAssumption, LP!InitIInv
<1>2. pending = {} /\ finished = {} /\ calls = <<>>
  BY DEF Init, Loop!Init
<1>3. Completed = {} /\ Failed = {}
  BY <1>2 DEF Completed, Failed, Loop!Completed, Loop!Failed
<1>4. LoopTypes
  <2>1. <<>> \in Seq(Nat) /\ <<>> \in Seq(Kind)
    OBVIOUS
  <2>. QED
    BY <2>1 DEF Init, LoopTypes, BeforeLoop, Where
<1>5. InputsInOrder /\ StageOfLoop
  BY <1>2, <1>3, RunnableAssumption DEF Init, InputsInOrder, StageOfLoop, BeforeLoop, AfterLoop
<1>6. \A c \in Chain : chain[c].at = "idle"
  BY <1>1, LoopFacts DEF Init
<1>7. ChainsOfLoop /\ IndexOfOneChain
  BY <1>2, <1>3, <1>6 DEF ChainsOfLoop, IndexOfOneChain, Measuring
<1>8. EventsOfIndex
  BY DEF Init, EventsOfIndex, Index
<1>9. LeftOver
  BY <1>3 DEF LeftOver
<1>. QED
  BY <1>1, <1>4, <1>5, <1>7, <1>8, <1>9 DEF IInv

(***************************************************************************)
(* A step outside of the loop, or of the clock, disturbs nothing of it.    *)
(***************************************************************************)
LEMMA OutsideKeepsIInv ==
  ASSUME IInv, UNCHANGED <<parallelVars, loopVars, options>>, expired => expired',
         \/ stage' = stage
         \/ stage \in BeforeLoop /\ stage' \in BeforeLoop \union AfterLoop
         \/ stage \in AfterLoop /\ stage' \in AfterLoop
  PROVE  IInv'
<1>1. LP!IInv'
  BY LoopStep DEF IInv
<1>2. /\ Completed' = Completed /\ Failed' = Failed /\ Chain' = Chain
      /\ UNCHANGED <<inputs, current, chain, events, taken, pending, calls>>
  BY DEF Completed, Failed, Loop!Completed, Loop!Failed, Chain, parallelVars, loopVars
<1>3. LoopTypes' /\ InputsInOrder'
  BY <1>2 DEF IInv, LoopTypes, InputsInOrder
<1>4. StageOfLoop'
  BY <1>2 DEF IInv, StageOfLoop, BeforeLoop, AfterLoop
<1>5. ChainsOfLoop' /\ IndexOfOneChain' /\ EventsOfIndex'
  BY <1>2 DEF IInv, ChainsOfLoop, IndexOfOneChain, EventsOfIndex, Measuring, Lives
<1>6. LeftOver'
  BY <1>2 DEF IInv, LeftOver
<1>. QED
  BY <1>1, <1>3, <1>4, <1>5, <1>6 DEF IInv

\* The inputs are read before the loop, the first of them in the first place.
LEMMA LoadKeepsIInv ==
  ASSUME IInv, LoadInputs
  PROVE  IInv'
<1>1. /\ stage = "inputs" /\ stage' \in {"loop", "end"}
      /\ UNCHANGED <<parallelVars, current, chain, events, taken, options, expired>>
      /\ \E n \in 0..MaxInputs : inputs' = [i \in 1..n |-> i]
  BY RunnableAssumption DEF LoadInputs, Proceed, BeginFails
<1>2. PICK n \in 0..MaxInputs : inputs' = [i \in 1..n |-> i]
  BY <1>1
<1>3. /\ Completed' = Completed /\ Failed' = Failed /\ Chain' = Chain
      /\ UNCHANGED <<current, chain, events, taken, pending, calls>>
  BY <1>1 DEF Completed, Failed, Loop!Completed, Loop!Failed, Chain, parallelVars
<1>4. current = 0 /\ Completed = {} /\ pending = {} /\ calls = <<>>
  BY <1>1 DEF IInv, StageOfLoop, BeforeLoop
<1>5. inputs' \in Seq(Nat) /\ Len(inputs') = n /\ \A i \in 1..n : inputs'[i] = i
  BY <1>2, RunnableAssumption
<1>6. LP!IInv'
  BY <1>1, LoopStep DEF IInv
<1>7. LoopTypes'
  BY <1>1, <1>3, <1>5 DEF IInv, LoopTypes, AfterLoop
<1>8. InputsInOrder'
  BY <1>2, <1>3, <1>4, <1>5, RunnableAssumption DEF IInv, InputsInOrder
<1>9. StageOfLoop'
  BY <1>1, <1>3, <1>4 DEF StageOfLoop, BeforeLoop
<1>10. ChainsOfLoop' /\ IndexOfOneChain' /\ EventsOfIndex'
  BY <1>1, <1>3 DEF IInv, ChainsOfLoop, IndexOfOneChain, EventsOfIndex, Measuring, Lives
<1>11. LeftOver'
  BY <1>3, <1>4 DEF LeftOver
<1>. QED
  BY <1>6, <1>7, <1>8, <1>9, <1>10, <1>11 DEF IInv

-----------------------------------------------------------------------------
\* The loop starts a chain, which is a new one.
LEMMA StartKeepsIInv ==
  ASSUME IInv, StartChain
  PROVE  IInv'
<1>1. /\ stage = "loop" /\ chain' = [chain EXCEPT ![next].at = "ready"]
      /\ UNCHANGED <<inputs, current, events, taken, stage, options, expired>>
  BY DEF StartChain
<1>2. /\ LP!IInv'
      /\ next \in Chain /\ next \notin pending \union Completed
      /\ pending' = pending \union {next} /\ size' = size /\ calls' = calls
      /\ Completed' = Completed /\ Failed' = Failed /\ Chain' = Chain
  BY LoopStarts DEF StartChain, IInv, Chain
<1>3. next \in AnyChain /\ Chain \subseteq AnyChain
  BY <1>2, LoopFacts DEF IInv
<1>4. /\ chain' \in [AnyChain -> [at : Where, idx : Int]]
      /\ chain'[next].at = "ready" /\ \A c \in Chain : c # next => chain'[c] = chain[c]
  BY <1>1, <1>3 DEF IInv, LoopTypes, Where
<1>5. LoopTypes' /\ InputsInOrder' /\ StageOfLoop' /\ LeftOver'
  BY <1>1, <1>2, <1>4 DEF IInv, LoopTypes, InputsInOrder, StageOfLoop, LeftOver
<1>6. ~Measuring(next) /\ \A c \in Chain : Measuring(c)' <=> Measuring(c)
  BY <1>2, <1>4 DEF IInv, ChainsOfLoop, Measuring
<1>7. \A c \in Chain : Measuring(c) => chain'[c] = chain[c]
  BY <1>4, <1>6
<1>8. ChainsOfLoop'
  BY <1>2, <1>4 DEF IInv, ChainsOfLoop
<1>9. IndexOfOneChain'
  BY <1>1, <1>2, <1>6, <1>7 DEF IInv, IndexOfOneChain
<1>10. EventsOfIndex'
  BY <1>1, <1>2, <1>6, <1>7 DEF IInv, EventsOfIndex, Lives
<1>. QED
  BY <1>2, <1>5, <1>8, <1>9, <1>10 DEF IInv

\* The call that started a chain returns; or there is no chain, and the loop is over.
LEMMA ReturnKeepsIInv ==
  ASSUME IInv, ChainWaits \/ NoChains
  PROVE  IInv'
<1>1. CASE ChainWaits
  <2>1. /\ UNCHANGED <<size, next, pending, completed, calls, finished>>
        /\ UNCHANGED <<loopVars, stage, options, expired>> /\ LP!Suspend
    BY <1>1 DEF ChainWaits, Loop!Suspend, LP!Suspend, Loop!NoOp, LP!NoOp
  <2>2. LP!IInv'
    BY <2>1, LoopStep DEF IInv, LP!Next
  <2>3. Completed' = Completed /\ Failed' = Failed /\ Chain' = Chain
    BY <2>1 DEF Completed, Failed, Loop!Completed, Loop!Failed, Chain
  <2>. QED
    BY <2>1, <2>2, <2>3 DEF IInv, loopVars, LoopTypes, InputsInOrder, StageOfLoop, ChainsOfLoop,
                            IndexOfOneChain, EventsOfIndex, Measuring, Lives, LeftOver
<1>2. CASE NoChains
  <2>1. /\ UNCHANGED <<size, next, pending, completed, finished>> /\ size = 0 /\ calls' # calls
        /\ UNCHANGED <<loopVars, options, expired>> /\ LP!Empty /\ stage' = "end"
    BY <1>2 DEF NoChains, Loop!Empty, LP!Empty, LoopEnds
  <2>2. LP!IInv'
    BY <2>1, LoopStep DEF IInv, LP!Next
  <2>3. Completed' = Completed /\ Failed' = Failed /\ Chain' = Chain /\ Chain = {}
    BY <2>1 DEF Completed, Failed, Loop!Completed, Loop!Failed, Chain
  <2>4. pending = {} /\ Completed = {}
    BY <2>3, LoopFacts DEF IInv
  <2>5. LoopTypes' /\ InputsInOrder' /\ StageOfLoop'
    BY <2>1, <2>4 DEF IInv, loopVars, LoopTypes, InputsInOrder, StageOfLoop, BeforeLoop, AfterLoop
  <2>6. ChainsOfLoop' /\ IndexOfOneChain' /\ EventsOfIndex'
    BY <2>1, <2>3 DEF IInv, loopVars, ChainsOfLoop, IndexOfOneChain, EventsOfIndex, Measuring, Lives
  <2>7. LeftOver'
    BY <2>3, <2>4 DEF LeftOver
  <2>. QED
    BY <2>2, <2>5, <2>6, <2>7 DEF IInv
<1>. QED
  BY <1>1, <1>2

-----------------------------------------------------------------------------
LEMMA TurnFacts ==
  ASSUME IInv, NEW c \in Chain, Turn(c)
  PROVE  /\ stage = "loop" /\ c \in pending /\ calls = <<>> /\ c \in AnyChain
         /\ c \notin Completed /\ Chain \subseteq AnyChain
BY LoopFacts DEF Turn, Loop!MayComplete, IInv, StageOfLoop

\* A step of a chain that goes on: mk::parallel() does not notice.
LEMMA ChainGoesOn ==
  ASSUME IInv, NEW c \in Chain, Turn(c), UNCHANGED <<parallelVars, stage>>,
         NEW to \in [at : {"main", "write", "soon"}, idx : Int], chain' = [chain EXCEPT ![c] = to]
  PROVE  /\ LP!IInv' /\ StageOfLoop' /\ ChainsOfLoop'
         /\ chain' \in [AnyChain -> [at : Where, idx : Int]]
         /\ Chain' = Chain /\ Completed' = Completed /\ Failed' = Failed
         /\ chain'[c] = to /\ \A d \in Chain : d # c => chain'[d] = chain[d]
<1>1. LP!IInv'
  BY LoopStep DEF IInv
<1>2. /\ Completed' = Completed /\ Failed' = Failed /\ Chain' = Chain
      /\ UNCHANGED <<pending, calls>>
  BY DEF Completed, Failed, Loop!Completed, Loop!Failed, Chain, parallelVars
<1>3. c \in AnyChain /\ c \in pending /\ stage = "loop" /\ calls = <<>> /\ Chain \subseteq AnyChain
      /\ c \notin Completed
  BY TurnFacts
<1>4. /\ chain' \in [AnyChain -> [at : Where, idx : Int]]
      /\ chain'[c] = to /\ \A d \in Chain : d # c => chain'[d] = chain[d]
  BY <1>3 DEF IInv, LoopTypes, Where
<1>5. StageOfLoop'
  BY <1>2, <1>3 DEF StageOfLoop, BeforeLoop
<1>6. ChainsOfLoop'
  BY <1>2, <1>3, <1>4 DEF IInv, ChainsOfLoop
<1>. QED
  BY <1>1, <1>2, <1>4, <1>5, <1>6

\* main() is called with the next input, whose index no other chain has.
LEMMA MeasureKeepsIInv ==
  ASSUME IInv, NEW c \in Chain, Measure(c)
  PROVE  IInv'
<1>1. /\ Turn(c) /\ inputs # <<>> /\ ~expired
      /\ inputs' = Tail(inputs) /\ taken' = Append(taken, Head(inputs)) /\ current' = current + 1
      /\ chain' = [chain EXCEPT ![c] = [at |-> "main", idx |-> current]]
      /\ events' = [events EXCEPT ![current] = @ \o <<"start">>]
      /\ UNCHANGED <<parallelVars, stage, options, expired>>
      /\ chain[c].at \in {"ready", "soon"}
  BY DEF Measure, NextMeasurement, NoMoreMeasurements, Saw
<1>2. /\ inputs \in Seq(Nat) /\ taken \in Seq(Nat) /\ current \in Nat /\ current \in Index
      /\ Len(inputs) \in Nat /\ Len(inputs) > 0 /\ Head(inputs) = inputs[1]
      /\ events \in [Index -> Seq(Kind)] /\ events[current] = <<>>
  <2>1. inputs \in Seq(Nat) /\ taken \in Seq(Nat) /\ current \in Nat
        /\ events \in [Index -> Seq(Kind)]
    BY DEF IInv, LoopTypes
  <2>2. Len(inputs) \in Nat /\ Len(inputs) > 0 /\ Head(inputs) = inputs[1]
    BY <1>1, <2>1
  <2>3. current \in Index
    BY <2>1, <2>2, RunnableAssumption DEF IInv, InputsInOrder, Index
  <2>. QED
    BY <2>1, <2>2, <2>3 DEF IInv, EventsOfIndex
<1>. DEFINE to == [at |-> "main", idx |-> current]
<1>3. to \in [at : {"main", "write", "soon"}, idx : Int] /\ to.at = "main" /\ to.idx = current
  BY <1>2
<1>. HIDE DEF to
<1>4. /\ LP!IInv' /\ StageOfLoop' /\ ChainsOfLoop'
      /\ chain' \in [AnyChain -> [at : Where, idx : Int]]
      /\ Chain' = Chain /\ Completed' = Completed /\ Failed' = Failed
      /\ chain'[c] = to /\ \A d \in Chain : d # c => chain'[d] = chain[d]
  BY <1>1, <1>3, ChainGoesOn DEF to
<1>5. events' = [events EXCEPT ![current] = <<"start">>] /\ <<"start">> \in Seq(Kind)
  BY <1>1, <1>2 DEF Kind
<1>6. /\ events' \in [Index -> Seq(Kind)] /\ events'[current] = <<"start">>
      /\ \A i \in Index : i # current => events'[i] = events[i]
  BY <1>2, <1>5
<1>7. InputsInOrder'
  <2>1. Len(taken') = current' /\ Len(inputs') = Len(inputs) - 1
    BY <1>1, <1>2 DEF IInv, InputsInOrder
  <2>2. inputs[1] = current + 1 /\ Len(taken) = current
    BY <1>2 DEF IInv, InputsInOrder
  <2>3. \A i \in 1..current' : taken'[i] = i
    <3>1. \A i \in 1..current : taken[i] = i
      BY DEF IInv, InputsInOrder
    <3>2. taken' = Append(taken, current + 1) /\ current' = current + 1
      BY <1>1, <1>2, <2>2
    <3>. QED
      BY <1>2, <2>2, <3>1, <3>2
  <2>4. \A i \in 1..Len(inputs') : inputs'[i] = current' + i
    <3>1. \A i \in 1..Len(inputs) : inputs[i] = current + i
      BY DEF IInv, InputsInOrder
    <3>2. inputs' = Tail(inputs) /\ current' = current + 1
      BY <1>1
    <3>. QED
      BY <1>2, <2>1, <3>1, <3>2
  <2>5. current' + Len(inputs') <= MaxInputs
    BY <1>1, <1>2, <2>1 DEF IInv, InputsInOrder
  <2>. QED
    BY <2>1, <2>3, <2>4, <2>5 DEF InputsInOrder
<1>8. LoopTypes'
  <2>1. inputs' \in Seq(Nat) /\ taken' \in Seq(Nat) /\ current' \in Nat
    BY <1>1, <1>2
  <2>. QED
    BY <1>1, <1>4, <1>6, <2>1 DEF IInv, LoopTypes
<1>9. /\ ~Measuring(c) /\ Measuring(c)'
      /\ \A d \in Chain : d # c => (Measuring(d)' <=> Measuring(d))
  BY <1>1, <1>3, <1>4 DEF Measuring
<1>10. \A d \in Chain : Measuring(d) =>
         d # c /\ chain[d].idx \in Index /\ chain[d].idx # current /\ chain[d].idx < current
  <2>1. \A d \in Chain : Measuring(d) => chain[d].idx \in 0..(current - 1)
    BY DEF IInv, IndexOfOneChain
  <2>2. \A i \in 0..(current - 1) : i \in Index /\ i # current /\ i < current
    BY <1>2, RunnableAssumption DEF Index
  <2>. QED
    BY <1>9, <2>1, <2>2
<1>11. IndexOfOneChain'
  <2>1. ASSUME NEW d \in Chain, Measuring(d)'
        PROVE  /\ chain'[d].idx \in 0..(current' - 1)
               /\ events'[chain'[d].idx] = IF chain'[d].at = "main" THEN <<"start">>
                                                                ELSE <<"start", "measurement">>
    <3>1. CASE d = c
      <4>1. chain'[d].at = "main" /\ chain'[d].idx = current
        BY <1>3, <1>4, <3>1
      <4>2. current \in 0..(current' - 1)
        BY <1>1, <1>2
      <4>. QED
        BY <1>6, <4>1, <4>2
    <3>2. CASE d # c
      <4>1. Measuring(d) /\ chain'[d] = chain[d]
        BY <1>4, <1>9, <2>1, <3>2
      <4>2. events'[chain[d].idx] = events[chain[d].idx]
        BY <1>6, <1>10, <4>1
      <4>3. /\ chain[d].idx \in 0..(current - 1)
            /\ events[chain[d].idx] = IF chain[d].at = "main" THEN <<"start">>
                                                             ELSE <<"start", "measurement">>
        BY <4>1 DEF IInv, IndexOfOneChain
      <4>4. current \in Nat /\ current' = current + 1
        BY <1>1, <1>2
      <4>5. chain[d].idx \in 0..(current' - 1)
        BY <4>3, <4>4
      <4>. QED
        BY <4>1, <4>2, <4>3, <4>5
    <3>. QED
      BY <3>1, <3>2
  <2>2. ASSUME NEW d \in Chain, NEW b \in Chain, Measuring(d)', Measuring(b)',
               chain'[d].idx = chain'[b].idx
        PROVE  d = b
    BY <1>3, <1>4, <1>9, <1>10, <2>2 DEF IInv, IndexOfOneChain
  <2>. QED
    BY <1>4, <2>1, <2>2 DEF IndexOfOneChain
<1>12. EventsOfIndex'
  <2>. SUFFICES ASSUME NEW i \in Index
                PROVE  IF i < current'
                         THEN events'[i] \in Lives' \/ \E d \in Chain : Measuring(d)' /\ chain'[d].idx = i
                         ELSE events'[i] = <<>>
    BY <1>4 DEF EventsOfIndex
  <2>1. CASE i = current
    BY <1>1, <1>2, <1>3, <1>4, <1>9, <2>1
  <2>2. CASE i # current
    <3>1. events'[i] = events[i] /\ Lives' = Lives /\ i \in Int /\ (i < current' <=> i < current)
      BY <1>1, <1>2, <1>6, <2>2 DEF Lives, Index
    <3>2. ASSUME NEW d \in Chain, Measuring(d), chain[d].idx = i
          PROVE  Measuring(d)' /\ chain'[d].idx = i
      BY <1>4, <1>9, <1>10, <3>2
    <3>. QED
      BY <3>1, <3>2 DEF IInv, EventsOfIndex
  <2>. QED
    BY <2>1, <2>2
<1>13. LeftOver'
  BY <1>1, <1>4 DEF IInv, LeftOver
<1>. QED
  BY <1>4, <1>7, <1>8, <1>11, <1>12, <1>13 DEF IInv

\* Events that are appended.
LEMMA Append1To1 == ASSUME NEW a, NEW b PROVE <<a>> \o <<b>> = <<a, b>>
<1>1. <<a>> \in Seq({a, b}) /\ <<b>> \in Seq({a, b}) /\ <<a, b>> \in Seq({a, b})
  OBVIOUS
<1>2. <<a>> \o <<b>> \in Seq({a, b}) /\ Len(<<a>> \o <<b>>) = 2
  BY <1>1, ConcatProperties
<1>3. \A i \in 1..2 : (<<a>> \o <<b>>)[i] = <<a, b>>[i]
  BY <1>1, ConcatProperties
<1>. QED
  BY <1>1, <1>2, <1>3, SeqEqual

LEMMA Append1To2 == ASSUME NEW a, NEW b, NEW c PROVE <<a, b>> \o <<c>> = <<a, b, c>>
<1>1. <<a, b>> \in Seq({a, b, c}) /\ <<c>> \in Seq({a, b, c}) /\ <<a, b, c>> \in Seq({a, b, c})
  OBVIOUS
<1>2. <<a, b>> \o <<c>> \in Seq({a, b, c}) /\ Len(<<a, b>> \o <<c>>) = 3
  BY <1>1, ConcatProperties
<1>3. \A i \in 1..3 : (<<a, b>> \o <<c>>)[i] = <<a, b, c>>[i]
  BY <1>1, ConcatProperties
<1>. QED
  BY <1>1, <1>2, <1>3, SeqEqual

LEMMA Append2To2 == ASSUME NEW a, NEW b, NEW c, NEW d PROVE <<a, b>> \o <<c, d>> = <<a, b, c, d>>
<1>1. <<a, b>> \in Seq({a, b, c, d}) /\ <<c, d>> \in Seq({a, b, c, d}) /\ <<a, b, c, d>> \in Seq({a, b, c, d})
  OBVIOUS
<1>2. <<a, b>> \o <<c, d>> \in Seq({a, b, c, d}) /\ Len(<<a, b>> \o <<c, d>>) = 4
  BY <1>1, ConcatProperties
<1>3. \A i \in 1..4 : (<<a, b>> \o <<c, d>>)[i] = <<a, b, c, d>>[i]
  BY <1>1, ConcatProperties
<1>. QED
  BY <1>1, <1>2, <1>3, SeqEqual

(***************************************************************************)
(* The events of the measurement of chain c are recorded at its own index: *)
(* they do not touch those of another chain.                               *)
(***************************************************************************)
LEMMA OwnEvents ==
  ASSUME IInv, NEW c \in Chain, Measuring(c), NEW kinds \in Seq(Kind),
         events' = [events EXCEPT ![chain[c].idx] = @ \o kinds],
         Chain' = Chain, UNCHANGED <<current, options>>,
         \A d \in Chain : d # c => chain'[d] = chain[d],
         \/ ~Measuring(c)' /\ events[chain[c].idx] \o kinds \in Lives
         \/ /\ chain'[c].at = "write" /\ chain'[c].idx = chain[c].idx
            /\ events[chain[c].idx] \o kinds = <<"start", "measurement">>
  PROVE  events' \in [Index -> Seq(Kind)] /\ IndexOfOneChain' /\ EventsOfIndex'
<1>. DEFINE own == chain[c].idx
<1>1. /\ events \in [Index -> Seq(Kind)] /\ current \in Nat
      /\ \A d \in Chain : Measuring(d) => chain[d].idx \in 0..(current - 1)
      /\ \A d \in Chain : Measuring(d) /\ d # c => chain[d].idx # own
  BY DEF IInv, LoopTypes, IndexOfOneChain
<1>2. own \in Index
  <2>1. current <= MaxInputs /\ own \in 0..(current - 1)
    BY <1>1, RunnableAssumption DEF IInv, InputsInOrder, LoopTypes
  <2>. QED
    BY <1>1, <2>1, RunnableAssumption DEF Index
<1>3. /\ events' \in [Index -> Seq(Kind)] /\ events'[own] = events[own] \o kinds
      /\ \A i \in Index : i # own => events'[i] = events[i]
  BY <1>1, <1>2
<1>4. 0..(current - 1) \subseteq Index
  <2>1. current <= MaxInputs
    BY <1>1, RunnableAssumption DEF IInv, InputsInOrder, LoopTypes
  <2>. QED
    BY <1>1, <2>1, RunnableAssumption DEF Index
<1>5. \A d \in Chain : d # c => (Measuring(d)' <=> Measuring(d)) /\ chain'[d] = chain[d]
  BY DEF Measuring
<1>. HIDE DEF own
<1>6. Measuring(c)' =>
        /\ chain'[c].at = "write" /\ chain'[c].idx = own
        /\ events'[own] = <<"start", "measurement">>
  BY <1>3 DEF own
<1>7. IndexOfOneChain'
  <2>1. ASSUME NEW d \in Chain, Measuring(d)'
        PROVE  /\ chain'[d].idx \in 0..(current' - 1)
               /\ events'[chain'[d].idx] = IF chain'[d].at = "main" THEN <<"start">>
                                                                ELSE <<"start", "measurement">>
    <3>1. CASE d = c
      BY <1>1, <1>6, <2>1, <3>1 DEF own
    <3>2. CASE d # c
      <4>1. Measuring(d) /\ chain'[d] = chain[d] /\ chain[d].idx # own
        BY <1>1, <1>5, <2>1, <3>2
      <4>2. events'[chain[d].idx] = events[chain[d].idx]
        BY <1>1, <1>3, <1>4, <4>1
      <4>. QED
        BY <1>1, <4>1, <4>2 DEF IInv, IndexOfOneChain
    <3>. QED
      BY <3>1, <3>2
  <2>2. ASSUME NEW d \in Chain, NEW b \in Chain, Measuring(d)', Measuring(b)',
               chain'[d].idx = chain'[b].idx
        PROVE  d = b
    BY <1>1, <1>5, <1>6, <2>2 DEF IInv, IndexOfOneChain
  <2>. QED
    BY <2>1, <2>2 DEF IndexOfOneChain
<1>8. EventsOfIndex'
  <2>. SUFFICES ASSUME NEW i \in Index
                PROVE  IF i < current
                         THEN events'[i] \in Lives' \/ \E d \in Chain : Measuring(d)' /\ chain'[d].idx = i
                         ELSE events'[i] = <<>>
    BY DEF EventsOfIndex
  <2>0. Lives' = Lives
    BY DEF Lives
  <2>1. CASE i = own
    <3>1. i < current
      BY <1>1, <2>1 DEF own
    <3>2. CASE Measuring(c)'
      BY <1>6, <2>1, <3>1, <3>2
    <3>3. CASE ~Measuring(c)'
      <4>1. events'[i] \in Lives
        BY <1>3, <2>1, <3>3 DEF own, Measuring
      <4>. QED
        BY <2>0, <3>1, <4>1
    <3>. QED
      BY <3>2, <3>3
  <2>2. CASE i # own
    <3>1. events'[i] = events[i]
      BY <1>3, <2>2
    <3>2. ASSUME NEW d \in Chain, Measuring(d), chain[d].idx = i
          PROVE  Measuring(d)' /\ chain'[d].idx = i
      BY <1>5, <2>2, <3>2 DEF own
    <3>3. CASE i < current
      <4>1. events[i] \in Lives \/ \E d \in Chain : Measuring(d) /\ chain[d].idx = i
        BY <3>3 DEF IInv, EventsOfIndex
      <4>2. events'[i] \in Lives' \/ \E d \in Chain : Measuring(d)' /\ chain'[d].idx = i
        BY <2>0, <3>1, <3>2, <4>1
      <4>. QED
        BY <3>3, <4>2
    <3>4. CASE ~(i < current)
      BY <3>1, <3>4 DEF IInv, EventsOfIndex
    <3>. QED
      BY <3>3, <3>4
  <2>. QED
    BY <2>1, <2>2
<1>. QED
  BY <1>3, <1>7, <1>8

LEMMA DoneKeepsIInv ==
  ASSUME IInv, NEW c \in Chain, MeasurementDone(c)
  PROVE  IInv'
<1>1. /\ Turn(c) /\ chain[c].at = "main"
      /\ chain' = [chain EXCEPT ![c].at = "write"]
      /\ events' = [events EXCEPT ![chain[c].idx] = @ \o <<"measurement">>]
      /\ UNCHANGED <<parallelVars, inputs, current, taken, stage, options, expired>>
  BY DEF MeasurementDone, Saw, SavedIndex
<1>. DEFINE to == [at |-> "write", idx |-> chain[c].idx]
<1>2. /\ chain' = [chain EXCEPT ![c] = to] /\ to \in [at : {"main", "write", "soon"}, idx : Int]
      /\ to.at = "write" /\ to.idx = chain[c].idx
  <2>1. chain \in [AnyChain -> [at : Where, idx : Int]] /\ c \in AnyChain
    BY <1>1, TurnFacts DEF IInv, LoopTypes
  <2>2. [chain[c] EXCEPT !.at = "write"] = to
    BY <2>1
  <2>3. to \in [at : {"main", "write", "soon"}, idx : Int]
    BY <2>1
  <2>. QED
    BY <1>1, <2>1, <2>2, <2>3
<1>. HIDE DEF to
<1>3. /\ LP!IInv' /\ StageOfLoop' /\ ChainsOfLoop'
      /\ chain' \in [AnyChain -> [at : Where, idx : Int]]
      /\ Chain' = Chain /\ Completed' = Completed /\ Failed' = Failed
      /\ chain'[c] = to /\ \A d \in Chain : d # c => chain'[d] = chain[d]
  BY <1>1, <1>2, ChainGoesOn
<1>4. Measuring(c) /\ events[chain[c].idx] = <<"start">>
  BY <1>1 DEF IInv, IndexOfOneChain, Measuring
<1>5. <<"measurement">> \in Seq(Kind)
      /\ events[chain[c].idx] \o <<"measurement">> = <<"start", "measurement">>
  BY <1>4, Append1To1 DEF Kind
<1>6. events' \in [Index -> Seq(Kind)] /\ IndexOfOneChain' /\ EventsOfIndex'
  BY <1>1, <1>2, <1>3, <1>4, <1>5, OwnEvents
<1>7. LoopTypes' /\ InputsInOrder' /\ LeftOver'
  BY <1>1, <1>3, <1>6 DEF IInv, LoopTypes, InputsInOrder, LeftOver
<1>. QED
  BY <1>3, <1>6, <1>7 DEF IInv

\* A chain comes to its end: its operation of mk::parallel() completes.
LEMMA ChainEnds ==
  ASSUME IInv, NEW c \in Chain, NEW error \in BOOLEAN, Turn(c), EndsChain(c, error)
  PROVE  /\ LP!IInv' /\ StageOfLoop' /\ ChainsOfLoop'
         /\ chain' \in [AnyChain -> [at : Where, idx : Int]]
         /\ stage' \in {"loop", "end"}
         /\ Chain' = Chain /\ Completed' = Completed \union {c}
         /\ Failed' = (IF error THEN Failed \union {c} ELSE Failed)
         /\ ~Measuring(c)' /\ \A d \in Chain : d # c => chain'[d] = chain[d]
<1>1. stage = "loop" /\ c \in pending /\ calls = <<>> /\ c \in AnyChain /\ Chain \subseteq AnyChain
  BY TurnFacts
<1>2. chain' = [chain EXCEPT ![c].at = "done"] /\ Loop!Complete(c, error) /\ LoopEnds
  BY DEF EndsChain
<1>3. /\ LP!IInv'
      /\ pending' = pending \ {c} /\ size' = size
      /\ Completed' = Completed \union {c}
      /\ Failed' = (IF error THEN Failed \union {c} ELSE Failed)
      /\ calls' = calls \/ pending' = {}
  BY <1>2, LoopCompletes DEF IInv
<1>4. Chain' = Chain
  BY <1>3 DEF Chain
<1>5. /\ chain' \in [AnyChain -> [at : Where, idx : Int]] /\ chain'[c].at = "done"
      /\ \A d \in Chain : d # c => chain'[d] = chain[d]
  BY <1>1, <1>2 DEF IInv, LoopTypes, Where
<1>6. (stage' = "end" /\ pending' = {}) \/ (stage' = "loop" /\ calls' = <<>>)
  BY <1>1, <1>2, <1>3 DEF LoopEnds
<1>7. StageOfLoop'
  BY <1>6 DEF StageOfLoop, BeforeLoop
<1>8. ChainsOfLoop'
  BY <1>3, <1>4, <1>5 DEF IInv, ChainsOfLoop
<1>. QED
  BY <1>3, <1>4, <1>5, <1>6, <1>7, <1>8 DEF Measuring

LEMMA NothingKeepsIInv ==
  ASSUME IInv, NEW c \in Chain, NothingToMeasure(c)
  PROVE  IInv'
<1>1. /\ Turn(c) /\ EndsChain(c, FALSE) /\ (expired \/ inputs = <<>>)
      /\ UNCHANGED <<inputs, current, events, taken, options, entries, expired>>
      /\ chain[c].at \in {"ready", "soon"}
  BY DEF NothingToMeasure, NextMeasurement, NoMoreMeasurements
<1>2. /\ LP!IInv' /\ StageOfLoop' /\ ChainsOfLoop'
      /\ chain' \in [AnyChain -> [at : Where, idx : Int]]
      /\ stage' \in {"loop", "end"} /\ Chain' = Chain
      /\ Completed' = Completed \union {c} /\ Failed' = Failed
      /\ ~Measuring(c)' /\ \A d \in Chain : d # c => chain'[d] = chain[d]
  BY <1>1, ChainEnds
<1>3. LoopTypes' /\ InputsInOrder' /\ LeftOver'
  BY <1>1, <1>2 DEF IInv, LoopTypes, InputsInOrder, LeftOver, AfterLoop
<1>4. \A d \in Chain : (Measuring(d)' <=> Measuring(d)) /\ (Measuring(d) => chain'[d] = chain[d])
  BY <1>1, <1>2 DEF Measuring
<1>5. IndexOfOneChain'
  BY <1>1, <1>2, <1>4 DEF IInv, IndexOfOneChain
<1>6. EventsOfIndex'
  BY <1>1, <1>2, <1>4 DEF IInv, EventsOfIndex, Lives
<1>. QED
  BY <1>2, <1>3, <1>5, <1>6 DEF IInv

LEMMA WrittenKeepsIInv ==
  ASSUME IInv, NEW c \in Chain, EntryWritten(c)
  PROVE  IInv'
<1>1. /\ Turn(c) /\ chain[c].at = "write"
      /\ UNCHANGED <<inputs, current, taken, options, entries, expired>>
  BY DEF EntryWritten
<1>2. Measuring(c) /\ events[chain[c].idx] = <<"start", "measurement">>
  BY <1>1 DEF IInv, IndexOfOneChain, Measuring
<1>3. PICK error \in BOOLEAN :
        IF error /\ ~options.ignoreWriteError
          THEN /\ Saw(SavedIndex(c), <<"failed">>)
               /\ EndsChain(c, TRUE)
          ELSE /\ Saw(SavedIndex(c), <<IF error THEN "failed" ELSE "submitted", "done">>)
               /\ chain' = [chain EXCEPT ![c].at = "soon"]
               /\ UNCHANGED <<parallelVars, stage, failure>>
  BY DEF EntryWritten
<1>4. CASE error /\ ~options.ignoreWriteError
  <2>1. EndsChain(c, TRUE) /\ events' = [events EXCEPT ![chain[c].idx] = @ \o <<"failed">>]
    BY <1>3, <1>4 DEF Saw, SavedIndex
  <2>2. /\ LP!IInv' /\ StageOfLoop' /\ ChainsOfLoop'
        /\ chain' \in [AnyChain -> [at : Where, idx : Int]]
        /\ stage' \in {"loop", "end"} /\ Chain' = Chain
        /\ Completed' = Completed \union {c} /\ Failed' = Failed \union {c}
        /\ ~Measuring(c)' /\ \A d \in Chain : d # c => chain'[d] = chain[d]
    BY <1>1, <2>1, ChainEnds
  <2>3. <<"failed">> \in Seq(Kind) /\ events[chain[c].idx] \o <<"failed">> \in Lives
    <3>1. events[chain[c].idx] \o <<"failed">> = <<"start", "measurement", "failed">>
      BY <1>2, Append1To2
    <3>. QED
      BY <1>4, <3>1 DEF Lives, Kind
  <2>4. events' \in [Index -> Seq(Kind)] /\ IndexOfOneChain' /\ EventsOfIndex'
    BY <1>1, <1>2, <2>1, <2>2, <2>3, OwnEvents
  <2>5. LoopTypes' /\ InputsInOrder' /\ LeftOver'
    BY <1>1, <2>2, <2>4 DEF IInv, LoopTypes, InputsInOrder, LeftOver, AfterLoop
  <2>. QED
    BY <2>2, <2>4, <2>5 DEF IInv
<1>5. CASE ~(error /\ ~options.ignoreWriteError)
  <2>. DEFINE kinds == <<IF error THEN "failed" ELSE "submitted", "done">>
              to == [at |-> "soon", idx |-> chain[c].idx]
  <2>1. /\ events' = [events EXCEPT ![chain[c].idx] = @ \o kinds]
        /\ chain' = [chain EXCEPT ![c].at = "soon"] /\ UNCHANGED <<parallelVars, stage>>
    BY <1>3, <1>5 DEF Saw, SavedIndex
  <2>2. kinds \in Seq(Kind) /\ events[chain[c].idx] \o kinds \in Lives
    <3>1. CASE error
      <4>1. options.ignoreWriteError /\ kinds = <<"failed", "done">>
        BY <1>5, <3>1
      <4>2. events[chain[c].idx] \o kinds = <<"start", "measurement", "failed", "done">>
        BY <1>2, <4>1, Append2To2
      <4>. QED
        BY <4>1, <4>2 DEF Lives, Kind
    <3>2. CASE ~error
      <4>1. kinds = <<"submitted", "done">>
        BY <3>2
      <4>2. events[chain[c].idx] \o kinds = <<"start", "measurement", "submitted", "done">>
        BY <1>2, <4>1, Append2To2
      <4>. QED
        BY <4>1, <4>2 DEF Lives, Kind
    <3>. QED
      BY <3>1, <3>2
  <2>3. /\ chain' = [chain EXCEPT ![c] = to] /\ to \in [at : {"main", "write", "soon"}, idx : Int]
        /\ to.at = "soon"
    <3>1. chain \in [AnyChain -> [at : Where, idx : Int]] /\ c \in AnyChain
      BY <1>1, TurnFacts DEF IInv, LoopTypes
    <3>2. [chain[c] EXCEPT !.at = "soon"] = to
      BY <3>1
    <3>3. to \in [at : {"main", "write", "soon"}, idx : Int]
      BY <3>1
    <3>. QED
      BY <2>1, <3>1, <3>2, <3>3
  <2>. HIDE DEF kinds, to
  <2>4. /\ LP!IInv' /\ StageOfLoop' /\ ChainsOfLoop'
        /\ chain' \in [AnyChain -> [at : Where, idx : Int]]
        /\ Chain' = Chain /\ Completed' = Completed /\ Failed' = Failed
        /\ chain'[c] = to /\ \A d \in Chain : d # c => chain'[d] = chain[d]
    BY <1>1, <2>1, <2>3, ChainGoesOn
  <2>5. ~Measuring(c)'
    BY <2>3, <2>4 DEF Measuring
  <2>6. events' \in [Index -> Seq(Kind)] /\ IndexOfOneChain' /\ EventsOfIndex'
    BY <1>1, <1>2, <2>1, <2>2, <2>4, <2>5, OwnEvents
  <2>7. LoopTypes' /\ InputsInOrder' /\ LeftOver'
    BY <1>1, <2>1, <2>4, <2>6 DEF IInv, LoopTypes, InputsInOrder, LeftOver
  <2>. QED
    BY <2>4, <2>6, <2>7 DEF IInv
<1>. QED
  BY <1>4, <1>5

-----------------------------------------------------------------------------
LEMMA StepIInv == IInv /\ [Next]_vars => IInv'
<1>. SUFFICES ASSUME IInv, [Next]_vars
              PROVE  IInv'
  OBVIOUS
<1>1. CASE QueryBouncer \/ Lookup \/ OpenReport
  BY <1>1, OutsideKeepsIInv
     DEF QueryBouncer, Lookup, OpenReport, Proceed, BeginFails, BeforeLoop, AfterLoop
<1>2. CASE End \/ ReportClosed
  BY <1>2, OutsideKeepsIInv DEF End, ReportClosed, Proceed, AfterLoop
<1>3. CASE Expire
  BY <1>3, OutsideKeepsIInv DEF Expire
<1>4. CASE LoadInputs
  BY <1>4, LoadKeepsIInv
<1>5. CASE NoChains \/ ChainWaits
  BY <1>5, ReturnKeepsIInv
<1>6. CASE StartChain
  BY <1>6, StartKeepsIInv
<1>7. ASSUME NEW c \in Chain, ChainStep(c)
      PROVE  IInv'
  BY <1>7, NothingKeepsIInv, MeasureKeepsIInv, DoneKeepsIInv, WrittenKeepsIInv DEF ChainStep
<1>8. CASE UNCHANGED vars
  BY <1>8, OutsideKeepsIInv DEF vars
<1>. QED
  BY <1>1, <1>2, <1>3, <1>4, <1>5, <1>6, <1>7, <1>8 DEF Next, Progress

THEOREM RunnableInvariant == Spec => []IInv
BY InitIInv, StepIInv, PTL DEF Spec

-----------------------------------------------------------------------------
\* After end() nothing calls back into a measurement, and each one that was started was
\* submitted or failed (runnable.cpp).
THEOREM NothingAfterEnd == Spec => []QuietAtEnd
<1>1. IInv => QuietAtEnd
  <2>. SUFFICES ASSUME IInv, stage \in AfterLoop
                PROVE  /\ \A c \in Chain : chain[c].at \in {"idle", "done"}
                       /\ \A i \in 0..(current - 1) : events[i] \in Lives
    BY DEF QuietAtEnd, AfterLoop
  <2>1. pending = {}
    BY DEF IInv, StageOfLoop, AfterLoop
  <2>2. \A c \in Chain : chain[c].at \in Where
    BY LoopFacts DEF IInv, LoopTypes
  <2>3. \A c \in Chain : chain[c].at \in {"idle", "done"}
    BY <2>1, <2>2 DEF IInv, ChainsOfLoop, Where
  <2>4. \A c \in Chain : ~Measuring(c)
    BY <2>3 DEF Measuring
  <2>5. \A i \in 0..(current - 1) : i \in Index /\ i < current
    BY RunnableAssumption DEF IInv, InputsInOrder, LoopTypes, Index
  <2>. QED
    BY <2>3, <2>4, <2>5 DEF IInv, EventsOfIndex
<1>. QED
  BY <1>1, RunnableInvariant, PTL

\* The loop leaves inputs over only when the time is over, or nobody could take them
\* (runnable.cpp).
THEOREM InputsLeftForAReason == Spec => []InputsExhausted
<1>1. IInv => InputsExhausted
  <2>. SUFFICES ASSUME IInv, calls # <<>>, inputs # <<>>, ~expired
                PROVE  Loop!Failed = Chain
    BY DEF InputsExhausted
  <2>1. Completed = Chain /\ Failed \subseteq Chain
    BY LoopFacts DEF IInv
  <2>2. Completed \subseteq Failed
    BY DEF IInv, LeftOver
  <2>. QED
    BY <2>1, <2>2 DEF Failed
<1>. QED
  BY <1>1, RunnableInvariant, PTL

LEMMA PrefixOf ==
  ASSUME NEW s \in Seq(Kind), NEW t \in Seq(Kind), Len(s) <= Len(t),
         \A i \in 1..Len(s) : s[i] = t[i]
  PROVE  IsPrefix(s, t)
<1>1. Len(s) \in Nat /\ Len(t) \in Nat
  OBVIOUS
<1>2. \A i \in 1..Len(s) : s[i] \in Kind /\ t[i] \in Kind
  BY <1>1
<1>3. SubSeq(s, 1, Len(s)) = SubSeq(t, 1, Len(s))
  BY <1>1, <1>2
<1>. QED
  BY <1>3 DEF IsPrefix

LEMMA OneMeasurementPerIndex == IInv => EventsOfOneMeasurement
<1>. SUFFICES ASSUME IInv
              PROVE  EventsOfOneMeasurement
  OBVIOUS
<1>. DEFINE all == taken \o inputs
<1>1. /\ inputs \in Seq(Nat) /\ taken \in Seq(Nat) /\ Len(taken) = current
      /\ current \in Nat /\ Len(inputs) \in Nat
  BY DEF IInv, LoopTypes, InputsInOrder
<1>2. all = [i \in 1..Len(all) |-> i]
  <2>1. all \in Seq(Nat) /\ Len(all) = current + Len(inputs)
    BY <1>1, ConcatProperties
  <2>2. \A i \in 1..Len(all) : all[i] = i
    <3>. SUFFICES ASSUME NEW i \in 1..Len(all)
                  PROVE  all[i] = i
      OBVIOUS
    <3>1. all[i] = IF i <= current THEN taken[i] ELSE inputs[i - current]
      BY <1>1, <2>1, ConcatProperties
    <3>2. CASE i <= current
      BY <1>1, <2>1, <3>1, <3>2 DEF IInv, InputsInOrder
    <3>3. CASE ~(i <= current)
      <4>1. i - current \in 1..Len(inputs)
        BY <1>1, <2>1, <3>3
      <4>. QED
        BY <1>1, <2>1, <3>1, <3>3, <4>1 DEF IInv, InputsInOrder
    <3>. QED
      BY <3>2, <3>3
  <2>. HIDE DEF all
  <2>3. all = [i \in 1..Len(all) |-> all[i]]
    BY <2>1
  <2>. QED
    BY <2>2, <2>3
<1>3. ASSUME NEW i \in Index, i < current
      PROVE  events[i] # <<>> /\ \E l \in Lives : IsPrefix(events[i], l)
  <2>1. CASE events[i] \in Lives
    <3>1. events[i] # <<>>
      BY <2>1 DEF Lives
    <3>2. IsPrefix(events[i], events[i])
      BY DEF IsPrefix
    <3>. QED
      BY <2>1, <3>1, <3>2
  <2>2. CASE events[i] \notin Lives
    <3>. DEFINE whole == <<"start", "measurement", "submitted", "done">>
    <3>1. whole \in Lives /\ whole \in Seq(Kind) /\ Len(whole) = 4
          /\ whole[1] = "start" /\ whole[2] = "measurement"
      BY DEF Lives, Kind
    <3>. HIDE DEF whole
    <3>2. events[i] \in {<<"start">>, <<"start", "measurement">>}
      <4>1. PICK c \in Chain : Measuring(c) /\ chain[c].idx = i
        BY <1>3, <2>2 DEF IInv, EventsOfIndex
      <4>. QED
        BY <4>1 DEF IInv, IndexOfOneChain
    <3>3. CASE events[i] = <<"start">>
      <4>1. IsPrefix(<<"start">>, whole)
        <5>. DEFINE part == <<"start">>
        <5>1. part \in Seq(Kind) /\ Len(part) = 1 /\ part[1] = "start"
          BY DEF Kind
        <5>. HIDE DEF part
        <5>2. \A j \in 1..Len(part) : part[j] = whole[j]
          BY <3>1, <5>1
        <5>3. IsPrefix(part, whole)
          BY <3>1, <5>1, <5>2, PrefixOf
        <5>. QED
          BY <5>3 DEF part
      <4>. QED
        BY <3>1, <3>3, <4>1
    <3>4. CASE events[i] = <<"start", "measurement">>
      <4>1. IsPrefix(<<"start", "measurement">>, whole)
        <5>. DEFINE part == <<"start", "measurement">>
        <5>1. part \in Seq(Kind) /\ Len(part) = 2 /\ part[1] = "start" /\ part[2] = "measurement"
          BY DEF Kind
        <5>. HIDE DEF part
        <5>2. \A j \in 1..Len(part) : part[j] = whole[j]
          BY <3>1, <5>1
        <5>3. IsPrefix(part, whole)
          BY <3>1, <5>1, <5>2, PrefixOf
        <5>. QED
          BY <5>3 DEF part
      <4>. QED
        BY <3>1, <3>4, <4>1
    <3>. QED
      BY <3>2, <3>3, <3>4
  <2>. QED
    BY <2>1, <2>2
<1>4. ASSUME NEW i \in Index, ~(i < current)
      PROVE  events[i] = <<>>
  BY <1>4 DEF IInv, EventsOfIndex
<1>. QED
  BY <1>1, <1>2, <1>3, <1>4 DEF EventsOfOneMeasurement

\* Each input is measured once, in the order of the list, and the events with its index are
\* of its measurement only (runnable.cpp; the order is documented in README.md:613-656).
THEOREM MeasurementsDoNotMix == Spec => []EventsOfOneMeasurement
BY OneMeasurementPerIndex, RunnableInvariant, PTL
=============================================================================
