--------------------------- MODULE ParallelProofs ---------------------------
(***************************************************************************)
(* For vectors of any size and any limit: the callback of mk::parallel()   *)
(* is called at most once, when all the operations have completed, with    *)
(* the error that their results call for; each operation is started and    *)
(* recorded at most once.                                                  *)
(***************************************************************************)
EXTENDS Parallel, FiniteSetTheorems, TLAPS

Started == pending \union Completed

(***************************************************************************)
(* Which operations have been started: the for loop has come to those      *)
(* below Stride, and the operation Stride places before has completed for  *)
(* the others.  It is what makes the next operation a new one, both for    *)
(* the loop and for the continuations.                                     *)
(***************************************************************************)
SeriesInOrder == \A j \in Op :
  j \in Started <=> IF j < Stride THEN j < next ELSE j - Stride \in Completed

Tally ==
  /\ overall <=> Failed # {}
  /\ completed = size => Completed = Op
  /\ calls = <<>> \/ (completed = size /\ calls = <<overall>>)

ActiveIsPending == active \in pending \union {NoOp}

IInv == TypeOK /\ ChildErrors /\ ActiveIsPending /\ SeriesInOrder /\ Tally

LEMMA SizesAreNatural ==
  ASSUME Sizes \subseteq Nat, Widths \subseteq Nat, TypeOK
  PROVE  size \in Nat /\ width \in Nat /\ Stride \in Nat
BY DEF TypeOK, Stride

\* A set of all the operations, counted.
LEMMA AllOrFewer ==
  ASSUME Sizes \subseteq Nat, Widths \subseteq Nat, TypeOK, NEW S \in SUBSET Op
  PROVE  /\ IsFiniteSet(S)
         /\ Cardinality(S) \in Nat /\ Cardinality(S) <= size
         /\ Cardinality(S) = size => S = Op
<1>1. size \in Nat  BY SizesAreNatural
<1>2. IsFiniteSet(Op) /\ Cardinality(Op) = size
  <2>1. IsFiniteSet(0..(size-1)) /\ Cardinality(0..(size-1)) =
          IF 0 > size-1 THEN 0 ELSE (size-1) - 0 + 1
    BY <1>1, FS_Interval
  <2> QED BY <2>1, <1>1 DEF Op
<1>3. IsFiniteSet(S) /\ Cardinality(S) <= Cardinality(Op)
      /\ (Cardinality(S) = Cardinality(Op) => S = Op)
  BY <1>2, FS_Subset
<1> QED BY <1>2, <1>3, FS_CardinalityType

\* The operations of a set of results, when a result is added.
LEMMA OperationAdded ==
  ASSUME NEW F, NEW res
  PROVE  {r.op : r \in F \union {res}} = {r.op : r \in F} \union {res.op}
OBVIOUS

LEMMA FailureAdded ==
  ASSUME NEW F, NEW res
  PROVE  {r \in F \union {res} : r.failed} =
           IF res.failed THEN {r \in F : r.failed} \union {res} ELSE {r \in F : r.failed}
BY Zenon

LEMMA InitIInv ==
  ASSUME Sizes \subseteq Nat, Widths \subseteq Nat, Init
  PROVE  IInv
<1>1. size \in Nat /\ width \in Nat /\ Stride \in Nat
  BY DEF Init, Stride
<1>2. Completed = {} /\ Failed = {}  BY DEF Init, Completed, Failed
<1>3. TypeOK
  <2>1. calls \in Seq(BOOLEAN)  BY DEF Init
  <2>2. completed \in 0..size  BY <1>1 DEF Init
  <2> QED BY <2>1, <2>2 DEF Init, TypeOK
<1>4. Cardinality({}) = 0  BY FS_EmptySet
<1>5. ChildErrors  BY <1>2, <1>4 DEF Init, ChildErrors
<1>6. ActiveIsPending  BY DEF Init, ActiveIsPending
<1>7. SeriesInOrder  BY <1>1, <1>2 DEF Init, SeriesInOrder, Started, Op
<1>8. Tally  BY <1>1, <1>2 DEF Init, Tally, Op
<1> QED BY <1>3, <1>5, <1>6, <1>7, <1>8 DEF IInv

(***************************************************************************)
(* What the continuation of operation i does to the history.               *)
(***************************************************************************)
LEMMA CompleteHistory ==
  ASSUME Sizes \subseteq Nat, Widths \subseteq Nat,
         IInv, NEW i \in Op, NEW failed \in BOOLEAN, Complete(i, failed)
  PROVE  /\ i \in pending /\ i \notin Completed
         /\ Completed' = Completed \union {i}
         /\ Failed' = IF failed THEN Failed \union {i} ELSE Failed
         /\ Cardinality(finished') = completed'
         /\ Cardinality(Completed') = completed'
         /\ completed' \in 0..size
<1> DEFINE res == [op |-> i, failed |-> failed]
<1>1. i \in pending /\ i \notin Completed
  BY DEF Complete, MayComplete, IInv, ChildErrors
<1>2. finished' = finished \union {res} /\ res.op = i /\ res.failed = failed
  BY DEF Complete
<1> HIDE DEF res
<1>3. res \notin finished  BY <1>1, <1>2 DEF Completed
<1>4. Completed' = Completed \union {i}
  BY <1>2, OperationAdded DEF Completed
<1>5. Failed' = IF failed THEN Failed \union {i} ELSE Failed
  <2> DEFINE F == {x \in finished : x.failed}
  <2>1. {x \in finished' : x.failed} = IF failed THEN F \union {res} ELSE F
    BY <1>2, FailureAdded
  <2>2. {r.op : r \in F \union {res}} = {r.op : r \in F} \union {i}
    BY <1>2, OperationAdded
  <2> QED BY <2>1, <2>2 DEF Failed
<1>6. Completed \in SUBSET Op  BY DEF IInv, TypeOK, Completed
<1>7. IsFiniteSet(Completed)  BY <1>6, AllOrFewer DEF IInv
<1>8. completed \in Nat /\ completed' = completed + 1
  BY SizesAreNatural DEF IInv, TypeOK, Complete
<1>9. Cardinality(Completed') = completed'
  BY <1>1, <1>4, <1>7, <1>8, FS_AddElement DEF IInv, ChildErrors
<1>10. IsFiniteSet(finished)
  <2>1. IsFiniteSet(Op)  BY Op \in SUBSET Op, AllOrFewer DEF IInv
  <2>2. IsFiniteSet(BOOLEAN)
    <3>1. IsFiniteSet({TRUE}) /\ IsFiniteSet({FALSE})  BY FS_Singleton
    <3>2. IsFiniteSet({TRUE} \union {FALSE})  BY <3>1, FS_Union
    <3>3. BOOLEAN = {TRUE} \union {FALSE}  OBVIOUS
    <3> QED BY <3>2, <3>3
  <2>3. IsFiniteSet(Op \X BOOLEAN)  BY <2>1, <2>2, FS_Product
  <2> DEFINE f == [x \in Op \X BOOLEAN |-> [op |-> x[1], failed |-> x[2]]]
             R == [op : Op, failed : BOOLEAN]
  <2>4. f \in Surjection(Op \X BOOLEAN, R)
    <3>1. f \in [Op \X BOOLEAN -> R]  OBVIOUS
    <3>2. ASSUME NEW y \in R PROVE \E x \in Op \X BOOLEAN : f[x] = y
      <4>1. <<y.op, y.failed>> \in Op \X BOOLEAN /\ f[<<y.op, y.failed>>] = y
        OBVIOUS
      <4> QED BY <4>1
    <3> QED BY <3>1, <3>2 DEF Surjection
  <2>5. IsFiniteSet(R)  BY <2>3, <2>4, FS_Surjection
  <2> QED BY <2>5, FS_Subset DEF IInv, TypeOK
<1>11. Cardinality(finished') = completed'
  BY <1>2, <1>3, <1>8, <1>10, FS_AddElement DEF IInv, ChildErrors
<1>12. completed' \in 0..size
  <2>1. Completed \union {i} \in SUBSET Op  BY <1>6
  <2>2. Cardinality(Completed \union {i}) <= size  BY <2>1, AllOrFewer DEF IInv
  <2> QED BY <1>4, <1>8, <1>9, <2>2, SizesAreNatural DEF IInv
<1> QED BY <1>1, <1>4, <1>5, <1>9, <1>11, <1>12

(***************************************************************************)
(* The continuation of i does not call cb and start a successor that was   *)
(* started before; when it calls cb there is no successor left to start.   *)
(***************************************************************************)
LEMMA CompletePreserves ==
  ASSUME Sizes \subseteq Nat, Widths \subseteq Nat,
         IInv, NEW i \in Op, NEW failed \in BOOLEAN, Complete(i, failed)
  PROVE  IInv'
<1> DEFINE succ == Successor(i)
<1>0. /\ size \in Nat /\ width \in Nat /\ Stride \in Nat
      /\ size' = size /\ width' = width /\ next' = next
      /\ Op' = Op /\ Stride' = Stride
  BY SizesAreNatural DEF IInv, Complete, Op, Stride
<1>1. /\ i \in pending /\ i \notin Completed
      /\ Completed' = Completed \union {i}
      /\ Failed' = IF failed THEN Failed \union {i} ELSE Failed
      /\ Cardinality(finished') = completed'
      /\ Cardinality(Completed') = completed'
      /\ completed' \in 0..size
  BY CompleteHistory
<1>2. Completed \subseteq Op /\ pending \subseteq Op /\ pending \intersect Completed = {}
  BY DEF IInv, TypeOK, Completed, ChildErrors
<1>3. Stride > 0
  BY <1>0, i \in Op DEF Op, Stride
<1>4. succ = IF i + Stride \in Op THEN i + Stride ELSE NoOp
  BY DEF Successor
<1>5. succ # NoOp => succ \in Op /\ succ \notin Started /\ succ # i
  <2> SUFFICES ASSUME succ # NoOp PROVE succ \in Op /\ succ \notin Started /\ succ # i
    OBVIOUS
  <2>1. succ \in Op /\ succ = i + Stride  BY <1>4
  <2>2. ~(succ < Stride) /\ succ - Stride = i  BY <2>1, <1>0, i \in Op DEF Op
  <2>3. succ \notin Started  BY <2>1, <2>2, <1>1 DEF IInv, SeriesInOrder
  <2> QED BY <2>1, <2>3, <1>1 DEF Started
<1>6. completed' = size => Completed' = Op
  <2>1. Completed \union {i} \in SUBSET Op  BY <1>2
  <2>2. Cardinality(Completed \union {i}) = size => Completed \union {i} = Op
    BY <2>1, AllOrFewer DEF IInv
  <2> QED BY <2>2, <1>1
<1>7. calls = <<>>
  <2>1. completed # size  BY <1>1 DEF IInv, Tally
  <2> QED BY <2>1 DEF IInv, Tally
<1>8. overall' = (overall \/ failed) /\ child' = IF failed THEN child \union {i} ELSE child
  BY DEF Complete, Record
<1>9. CASE completed' = size
  <2>1. /\ calls' = Append(calls, overall') /\ active' = NoOp
        /\ pending' = pending \ {i}
    BY <1>9 DEF Complete, CallsBack
  <2>2. TypeOK'
    BY <1>0, <1>1, <1>2, <1>8, <2>1 DEF IInv, TypeOK, Complete
  <2>3. ChildErrors'  BY <1>1, <1>2, <1>8, <2>1 DEF IInv, ChildErrors
  <2>4. ActiveIsPending'  BY <2>1 DEF ActiveIsPending, NoOp
  <2>5. SeriesInOrder'
    <3> SUFFICES ASSUME NEW j \in Op
                 PROVE  j \in Started' <=> IF j < Stride THEN j < next ELSE j - Stride \in Completed'
      BY <1>0 DEF SeriesInOrder
    <3>1. Completed' = Op  BY <1>6, <1>9
    <3>2. j \in Started'  BY <3>1 DEF Started
    <3>3. CASE j < Stride
      <4>1. j \in Started  BY <3>1, <1>1 DEF Started
      <4> QED BY <4>1, <3>2, <3>3 DEF IInv, SeriesInOrder
    <3>4. CASE ~(j < Stride)
      <4>1. j - Stride \in Op  BY <3>4, <1>0, j \in Op DEF Op
      <4> QED BY <4>1, <3>1, <3>2, <3>4
    <3> QED BY <3>3, <3>4
  <2>6. Tally'
    BY <1>0, <1>1, <1>6, <1>7, <1>8, <1>9, <2>1 DEF IInv, Tally, TypeOK
  <2> QED BY <2>2, <2>3, <2>4, <2>5, <2>6 DEF IInv
<1>10. CASE completed' # size
  <2>1. /\ active' = succ /\ calls' = calls
        /\ pending' = (pending \ {i}) \union ({succ} \ {NoOp})
    BY <1>10 DEF Complete, CallsBack
  <2>2. TypeOK'
    <3>1. succ \in Op \union {NoOp}  BY <1>4
    <3>2. pending' \subseteq Op /\ active' \in Op \union {NoOp}  BY <2>1, <3>1, <1>2
    <3>3. finished' \subseteq [op : Op, failed : BOOLEAN]
      BY DEF IInv, TypeOK, Complete
    <3>4. child' \subseteq Op /\ overall' \in BOOLEAN  BY <1>8 DEF IInv, TypeOK
    <3> QED BY <1>0, <1>1, <2>1, <3>2, <3>3, <3>4 DEF IInv, TypeOK, NoOp
  <2>3. ChildErrors'
    BY <1>1, <1>2, <1>5, <1>8, <2>1 DEF IInv, ChildErrors, Started
  <2>4. ActiveIsPending'  BY <2>1 DEF ActiveIsPending, NoOp
  <2>5. SeriesInOrder'
    <3> SUFFICES ASSUME NEW j \in Op
                 PROVE  j \in Started' <=> IF j < Stride THEN j < next ELSE j - Stride \in Completed'
      BY <1>0 DEF SeriesInOrder
    <3>1. Started' = Started \union ({succ} \ {NoOp})
      BY <1>1, <2>1 DEF Started
    <3>2. j \in Started <=> IF j < Stride THEN j < next ELSE j - Stride \in Completed
      BY DEF IInv, SeriesInOrder
    <3>3. CASE j = succ /\ succ # NoOp
      BY <3>1, <3>3, <1>0, <1>1, <1>4, i \in Op DEF Op
    <3>4. CASE ~(j = succ /\ succ # NoOp)
      <4>1. j \in Started' <=> j \in Started  BY <3>1, <3>4
      <4>2. ~(j < Stride) => j - Stride # i
        BY <3>4, <1>0, <1>4, j \in Op, i \in Op DEF Op, NoOp
      <4> QED BY <4>1, <4>2, <3>2, <1>1
    <3> QED BY <3>3, <3>4
  <2>6. Tally'
    BY <1>0, <1>1, <1>7, <1>8, <1>10, <2>1 DEF IInv, Tally, TypeOK
  <2> QED BY <2>2, <2>3, <2>4, <2>5, <2>6 DEF IInv
<1> QED BY <1>9, <1>10

LEMMA NextIInv ==
  ASSUME Sizes \subseteq Nat, Widths \subseteq Nat, IInv, [Next]_vars
  PROVE  IInv'
<1>0. size \in Nat /\ width \in Nat /\ Stride \in Nat
  BY SizesAreNatural DEF IInv
<1>1. CASE Empty
  <2>1. /\ size = 0 /\ calls' = <<FALSE>> /\ completed' = completed /\ size' = size
        /\ overall' = overall /\ Completed' = Completed /\ Failed' = Failed
        /\ Op' = Op /\ Stride' = Stride /\ Started' = Started /\ NoOp' = NoOp
    BY <1>1 DEF Empty, Completed, Failed, Op, Stride, Started, NoOp
  <2>2. Op = {}  BY <2>1 DEF Op
  <2>3. Failed = {}  BY <2>2 DEF IInv, ChildErrors, TypeOK
  <2>4. completed = 0  BY <2>1 DEF IInv, TypeOK
  <2>5. TypeOK'  BY <1>1, <2>1 DEF IInv, TypeOK, Empty
  <2>6. ChildErrors'  BY <1>1, <2>1 DEF IInv, ChildErrors, Empty
  <2>7. ActiveIsPending' /\ SeriesInOrder'
    BY <1>1, <2>1 DEF IInv, ActiveIsPending, SeriesInOrder, Empty
  <2>8. Tally'
    BY <2>1, <2>3, <2>4 DEF IInv, Tally, TypeOK
  <2> QED BY <2>5, <2>6, <2>7, <2>8 DEF IInv
<1>2. CASE Iterate
  <2>1. /\ completed' = completed /\ size' = size /\ width' = width /\ calls' = calls
        /\ overall' = overall /\ Completed' = Completed /\ Failed' = Failed
        /\ child' = child /\ finished' = finished
        /\ Op' = Op /\ Stride' = Stride /\ NoOp' = NoOp
        /\ next < Stride /\ next' = next + 1 /\ next \in Nat
    BY <1>2 DEF Iterate, Completed, Failed, Op, Stride, NoOp, IInv, TypeOK
  <2>2. Tally'  BY <2>1 DEF IInv, Tally
  <2>3. CASE next \in Op
    <3>1. active' = next /\ pending' = pending \union {next}
      BY <1>2, <2>3 DEF Iterate
    <3>2. next \notin Started  BY <2>1, <2>3 DEF IInv, SeriesInOrder
    <3>3. TypeOK'  BY <2>1, <2>3, <3>1 DEF IInv, TypeOK
    <3>4. ChildErrors'  BY <2>1, <3>1, <3>2 DEF IInv, ChildErrors, Started
    <3>5. ActiveIsPending'  BY <3>1 DEF ActiveIsPending
    <3>6. SeriesInOrder'
      <4> SUFFICES ASSUME NEW j \in Op
                   PROVE  j \in Started' <=> IF j < Stride THEN j < next + 1 ELSE j - Stride \in Completed
        BY <2>1 DEF SeriesInOrder
      <4>1. Started' = Started \union {next}  BY <2>1, <3>1 DEF Started
      <4>2. j \in Started <=> IF j < Stride THEN j < next ELSE j - Stride \in Completed
        BY DEF IInv, SeriesInOrder
      <4> QED BY <4>1, <4>2, <2>1, <1>0, j \in Op DEF Op
    <3> QED BY <2>2, <3>3, <3>4, <3>5, <3>6 DEF IInv
  <2>4. CASE next \notin Op
    <3>1. active' = active /\ pending' = pending
      BY <1>2, <2>4 DEF Iterate
    <3>2. Started' = Started  BY <2>1, <3>1 DEF Started
    <3>3. TypeOK'  BY <2>1, <3>1 DEF IInv, TypeOK
    <3>4. ChildErrors' /\ ActiveIsPending'
      BY <2>1, <3>1 DEF IInv, ChildErrors, ActiveIsPending
    <3>5. SeriesInOrder'
      <4> SUFFICES ASSUME NEW j \in Op
                   PROVE  j \in Started <=> IF j < Stride THEN j < next + 1 ELSE j - Stride \in Completed
        BY <2>1, <3>2 DEF SeriesInOrder
      <4>1. j < next + 1 <=> j < next  BY <2>1, <2>4, <1>0, j \in Op DEF Op
      <4> QED BY <4>1 DEF IInv, SeriesInOrder
    <3> QED BY <2>2, <3>3, <3>4, <3>5 DEF IInv
  <2> QED BY <2>3, <2>4
<1>3. CASE Suspend
  <2>1. /\ Completed' = Completed /\ Failed' = Failed /\ Op' = Op /\ Stride' = Stride
        /\ Started' = Started /\ NoOp' = NoOp /\ active' = NoOp
    BY <1>3 DEF Suspend, Completed, Failed, Op, Stride, Started, NoOp
  <2>2. TypeOK' /\ ChildErrors' /\ Tally'
    BY <1>3, <2>1 DEF IInv, TypeOK, ChildErrors, Tally, Suspend
  <2>3. ActiveIsPending' /\ SeriesInOrder'
    BY <1>3, <2>1 DEF IInv, ActiveIsPending, SeriesInOrder, Suspend
  <2> QED BY <2>2, <2>3 DEF IInv
<1>4. CASE \E i \in Op, failed \in BOOLEAN : Complete(i, failed)
  BY <1>4, CompletePreserves
<1>5. CASE UNCHANGED vars
  BY <1>5 DEF vars, IInv, TypeOK, ChildErrors, ActiveIsPending, SeriesInOrder, Tally,
              Started, Completed, Failed, Op, Stride, NoOp
<1> QED BY <1>1, <1>2, <1>3, <1>4, <1>5 DEF Next

THEOREM ParallelInvariant ==
  ASSUME Sizes \subseteq Nat, Widths \subseteq Nat
  PROVE  Spec => []IInv
<1>1. Init => IInv  BY InitIInv
<1>2. IInv /\ [Next]_vars => IInv'  BY NextIInv
<1> QED BY <1>1, <1>2, PTL DEF Spec

(***************************************************************************)
(* cb is called at most once, after every operation has completed, with an *)
(* error exactly when one of them failed (parallel.hpp:28).                *)
(***************************************************************************)
THEOREM CallbackOnceAtTheEnd ==
  ASSUME Sizes \subseteq Nat, Widths \subseteq Nat
  PROVE  Spec => []CallbackIsLast
<1>1. IInv => CallbackIsLast
  <2> SUFFICES ASSUME IInv, calls # <<>>
               PROVE  Completed = Op /\ pending = {} /\ calls = <<Failed # {}>>
    BY DEF CallbackIsLast
  <2>1. Completed = Op /\ calls = <<overall>>  BY DEF IInv, Tally
  <2>2. pending = {}  BY <2>1 DEF IInv, TypeOK, ChildErrors
  <2>3. overall = (Failed # {})  BY DEF IInv, Tally, TypeOK
  <2> QED BY <2>1, <2>2, <2>3
<1> QED BY <1>1, ParallelInvariant, PTL

(***************************************************************************)
(* The errors of the operations are recorded one by one, each once         *)
(* (parallel.hpp:26-27).                                                   *)
(***************************************************************************)
THEOREM ResultsRecorded ==
  ASSUME Sizes \subseteq Nat, Widths \subseteq Nat
  PROVE  Spec => []ChildErrors
<1>1. IInv => ChildErrors  BY DEF IInv
<1> QED BY <1>1, ParallelInvariant, PTL

(***************************************************************************)
(* The loop starts one series of operations at each iteration, and an      *)
(* operation that completes has at most one successor.                     *)
(***************************************************************************)
OnePerSeries ==
  /\ IsFiniteSet(pending)
  /\ Cardinality(pending) <= next
  /\ next <= Stride

LEMMA OneMore ==
  ASSUME NEW T, NEW x, IsFiniteSet(T)
  PROVE  /\ IsFiniteSet(T \union {x})
         /\ Cardinality(T \union {x}) <= Cardinality(T) + 1
<1>1. Cardinality(T) \in Nat
  BY FS_CardinalityType
<1>2. /\ IsFiniteSet(T \union {x})
      /\ Cardinality(T \union {x}) = IF x \in T THEN Cardinality(T) ELSE Cardinality(T) + 1
  BY FS_AddElement
<1>. QED
  BY <1>1, <1>2

LEMMA OnePerSeriesStep ==
  ASSUME TypeOK, size \in Nat, width \in Nat, OnePerSeries, [Next]_vars
  PROVE  OnePerSeries'
<1>. USE DEF OnePerSeries
<1>0. next \in Nat /\ Stride \in Nat /\ Cardinality(pending) \in Nat
  BY FS_CardinalityType DEF TypeOK, Stride
<1>1. CASE Empty \/ Suspend \/ UNCHANGED vars
  BY <1>1 DEF Empty, Suspend, vars, Stride
<1>2. CASE Iterate
  <2>1. next < Stride /\ next' = next + 1 /\ Stride' = Stride
    BY <1>2 DEF Iterate, Stride
  <2>2. CASE next \in Op
    <3>1. pending' = pending \union {next}
      BY <1>2, <2>2 DEF Iterate
    <3>2. IsFiniteSet(pending') /\ Cardinality(pending') <= Cardinality(pending) + 1
      BY <3>1, OneMore
    <3>3. Cardinality(pending') \in Nat
      BY <3>2, FS_CardinalityType
    <3>. QED
      BY <1>0, <2>1, <3>2, <3>3
  <2>3. CASE next \notin Op
    <3>1. pending' = pending
      BY <1>2, <2>3 DEF Iterate
    <3>. QED
      BY <1>0, <2>1, <3>1
  <2>. QED
    BY <2>2, <2>3
<1>3. CASE \E i \in Op, failed \in BOOLEAN : Complete(i, failed)
  <2>1. PICK i \in Op, failed \in BOOLEAN : Complete(i, failed)
    BY <1>3
  <2>2. i \in pending /\ next' = next /\ Stride' = Stride
    BY <2>1 DEF Complete, MayComplete, Stride
  <2>3. PICK S : pending' = (pending \ {i}) \union S /\ (S = {} \/ \E j : S = {j})
    <3>1. \/ pending' = pending \ {i}
          \/ pending' = (pending \ {i}) \union ({Successor(i)} \ {NoOp})
      BY <2>1 DEF Complete
    <3>2. {Successor(i)} \ {NoOp} = {} \/ {Successor(i)} \ {NoOp} = {Successor(i)}
      OBVIOUS
    <3>3. pending \ {i} = (pending \ {i}) \union {}
      OBVIOUS
    <3>. QED
      BY <3>1, <3>2, <3>3
  <2>4. /\ IsFiniteSet(pending \ {i})
        /\ Cardinality(pending \ {i}) = Cardinality(pending) - 1
        /\ Cardinality(pending \ {i}) \in Nat
    BY <2>2, FS_RemoveElement, FS_CardinalityType
  <2>5. IsFiniteSet(pending') /\ Cardinality(pending') <= Cardinality(pending)
    <3>1. CASE S = {}
      <4>1. pending' = pending \ {i}
        BY <2>3, <3>1
      <4>. QED
        BY <1>0, <2>4, <4>1
    <3>2. CASE \E j : S = {j}
      <4>1. PICK j : S = {j}
        BY <3>2
      <4>2. pending' = (pending \ {i}) \union {j}
        BY <2>3, <4>1
      <4>3. /\ IsFiniteSet(pending')
            /\ Cardinality(pending') <= Cardinality(pending \ {i}) + 1
        BY <2>4, <4>2, OneMore
      <4>4. Cardinality(pending') \in Nat
        BY <4>3, FS_CardinalityType
      <4>. QED
        BY <1>0, <2>4, <4>3, <4>4
    <3>. QED
      BY <2>3, <3>1, <3>2
  <2>6. Cardinality(pending') \in Nat
    BY <2>5, FS_CardinalityType
  <2>. QED
    BY <1>0, <2>2, <2>5, <2>6
<1>. QED
  BY <1>1, <1>2, <1>3 DEF Next

(***************************************************************************)
(* No more operations are in flight than the caller asks for               *)
(* (parallel.hpp:38, 61-63).                                                   *)
(***************************************************************************)
THEOREM LimitRespected ==
  ASSUME Sizes \subseteq Nat, Widths \subseteq Nat
  PROVE  Spec => []WidthRespected
<1>1. Init => OnePerSeries
  <2>. SUFFICES ASSUME Init
                PROVE  OnePerSeries
    OBVIOUS
  <2>1. IsFiniteSet(pending) /\ Cardinality(pending) = 0
    BY FS_EmptySet DEF Init
  <2>. QED
    BY <2>1 DEF Init, OnePerSeries, Stride
<1>2. IInv /\ OnePerSeries /\ [Next]_vars => OnePerSeries'
  <2>. SUFFICES ASSUME IInv, OnePerSeries, [Next]_vars
                PROVE  OnePerSeries'
    OBVIOUS
  <2>1. TypeOK /\ size \in Nat /\ width \in Nat
    BY SizesAreNatural DEF IInv
  <2>. QED
    BY <2>1, OnePerSeriesStep
<1>3. IInv /\ OnePerSeries => WidthRespected
  <2>. SUFFICES ASSUME IInv, OnePerSeries
                PROVE  Cardinality(pending) <= Stride
    BY DEF WidthRespected
  <2>1. Stride \in Nat /\ next \in Nat /\ Cardinality(pending) \in Nat
    BY SizesAreNatural, FS_CardinalityType DEF IInv, TypeOK, OnePerSeries
  <2>. QED
    BY <2>1 DEF OnePerSeries
<1>. QED
  BY <1>1, <1>2, <1>3, ParallelInvariant, PTL DEF Spec
=============================================================================
