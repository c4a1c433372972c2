------------------------------ MODULE Parallel ------------------------------
(***************************************************************************)
(* mk::parallel() of common/parallel.hpp: it starts the operations of a    *)
(* vector, at most Width of them at a time, and calls back once with the   *)
(* overall error when all of them have completed.                          *)
(*                                                                         *)
(* An operation may call its continuation before the call that started it  *)
(* returns, or later from the reactor.  Everything runs on the thread of   *)
(* the reactor, so the only interleaving is that choice; `active` is the   *)
(* operation whose call has not returned yet.  Operations of the vector    *)
(* are numbered from 0, as in the code.                                    *)
(***************************************************************************)
EXTENDS Integers, Sequences, FiniteSets

CONSTANTS
  Sizes,     \* the sizes a vector may have
  Widths     \* what callers pass as `parallelism`

VARIABLES
  size,       \* input.size()
  width,      \* the `parallelism` argument
  next,       \* the variable of the for loop of parallel()
  active,     \* the operation being started, NoOp when there is none
  pending,    \* the operations started and not completed
  completed,  \* *completed
  overall,    \* *overall is an error
  child,      \* overall->child_errors: the operations recorded as failed
  calls,      \* history: what cb was called with, TRUE for an error
  finished    \* history: the operations that completed, with their result

vars == <<size, width, next, active, pending, completed, overall, child, calls, finished>>

Op == 0..(size - 1)

\* `if (parallelism <= 0) parallelism = input.size();`
Stride == IF width = 0 THEN size ELSE width

NoOp == -1

Init ==
  /\ size \in Sizes
  /\ width \in Widths
  /\ next = 0
  /\ active = NoOp
  /\ pending = {}
  /\ completed = 0
  /\ overall = FALSE
  /\ child = {}
  /\ calls = <<>>
  /\ finished = {}

-----------------------------------------------------------------------------
(***************************************************************************)
(* An empty vector: cb is called at once, with no error.                   *)
(***************************************************************************)
Empty ==
  /\ size = 0
  /\ calls = <<>>
  /\ calls' = <<FALSE>>
  /\ UNCHANGED <<size, width, next, active, pending, completed, overall, child, finished>>

\* Mutant: the loop starts one operation more than the limit.
IterateOneMore ==
  /\ size > 0
  /\ active = NoOp
  /\ next < Stride + 1
  /\ next' = next + 1
  /\ IF next \in Op
       THEN active' = next /\ pending' = pending \union {next}
       ELSE UNCHANGED <<active, pending>>
  /\ UNCHANGED <<size, width, completed, overall, child, calls, finished>>

(***************************************************************************)
(* One iteration of the for loop, which calls run(next): an index past the *)
(* end starts nothing.  It runs when the call started by the iteration     *)
(* before, and those that it started in turn, have returned.               *)
(***************************************************************************)
Iterate ==
  /\ size > 0
  /\ active = NoOp
  /\ next < Stride
  /\ next' = next + 1
  /\ IF next \in Op
       THEN active' = next /\ pending' = pending \union {next}
       ELSE UNCHANGED <<active, pending>>
  /\ UNCHANGED <<size, width, completed, overall, child, calls, finished>>

\* The operation being started returns, to complete later.
Suspend ==
  /\ active # NoOp
  /\ active' = NoOp
  /\ UNCHANGED <<size, width, next, pending, completed, overall, child, calls, finished>>

(***************************************************************************)
(* The continuation of operation i.  It runs inside of the call that       *)
(* starts i, or from the reactor once the for loop has returned.           *)
(***************************************************************************)
MayComplete(i) ==
  /\ i \in pending
  /\ \/ active = i
     \/ active = NoOp /\ next = Stride

\* Mutant: the overall error is the error of the last operation.
RecordLast(i, failed) ==
  /\ overall' = failed
  /\ child' = IF failed THEN child \union {i} ELSE child

Record(i, failed) ==
  /\ overall' = (overall \/ failed)
  /\ child' = IF failed THEN child \union {i} ELSE child

\* run(idx + parallelism), called by the continuation unless it calls cb.
Successor(i) == IF i + Stride \in Op THEN i + Stride ELSE NoOp

\* `if (*completed == input.size())`.  More than that, for which the code
\* throws, would need a continuation that is called twice.
CallsBack(done) == done = size

Complete(i, failed) ==
  /\ MayComplete(i)
  /\ Record(i, failed)
  /\ completed' = completed + 1
  /\ finished' = finished \union {[op |-> i, failed |-> failed]}
  /\ LET succ == Successor(i) IN
       IF CallsBack(completed')
         THEN /\ calls' = Append(calls, overall')
              /\ active' = NoOp
              /\ pending' = pending \ {i}
         ELSE /\ active' = succ
              /\ pending' = (pending \ {i}) \union ({succ} \ {NoOp})
              /\ UNCHANGED calls
  /\ UNCHANGED <<size, width, next>>

Next == Empty \/ Iterate \/ Suspend \/ \E i \in Op, failed \in BOOLEAN : Complete(i, failed)

Spec == Init /\ [][Next]_vars

-----------------------------------------------------------------------------
TypeOK ==
  /\ size \in Sizes
  /\ width \in Widths
  /\ next \in Nat
  /\ active \in Op \union {NoOp}
  /\ pending \subseteq Op
  /\ completed \in 0..size
  /\ overall \in BOOLEAN
  /\ child \subseteq Op
  /\ calls \in Seq(BOOLEAN)
  /\ finished \subseteq [op : Op, failed : BOOLEAN]

\* Operations that completed, and those that completed with an error.
Completed == {r.op : r \in finished}
Failed == {r.op : r \in {x \in finished : x.failed}}

(***************************************************************************)
(* No more than Stride operations are in flight, whether they complete     *)
(* inside of the call that starts them or later.                           *)
(***************************************************************************)
WidthRespected == Cardinality(pending) <= Stride

(***************************************************************************)
(* cb is called once, when every operation has completed, and with an      *)
(* error if and only if one of them failed.                                *)
(***************************************************************************)
CallbackIsLast ==
  calls # <<>> =>
    /\ Completed = Op /\ pending = {}
    /\ calls = <<Failed # {}>>

(***************************************************************************)
(* The caller finds the result of operation i at position i, and no        *)
(* operation is counted twice or forgotten.                                *)
(***************************************************************************)
ChildErrors ==
  /\ child = Failed
  /\ Cardinality(finished) = completed
  /\ Cardinality(Completed) = completed
  /\ pending \intersect Completed = {}

=============================================================================
