------------------------------ MODULE Runnable ------------------------------
(***************************************************************************)
(* Runnable of nettests/runnable.cpp, the skeleton that all nettests       *)
(* share: begin() contacts the bouncer, looks up the probe, opens the      *)
(* report, loads the inputs and runs the measurement loop; then the task   *)
(* calls end(), which closes the report.                                   *)
(*                                                                         *)
(* The measurement loop is a mk::parallel() whose operations are chains of *)
(* measurements that take their inputs from one shared list, so this       *)
(* module drives the state of Parallel.  All of it runs on the thread of   *)
(* the reactor; what interleaves are the callbacks of the chains, which    *)
(* may come back within the call that started them or later.               *)
(***************************************************************************)
EXTENDS Integers, Sequences, FiniteSets

LOCAL INSTANCE SequencesExt

CONSTANTS
  Parallelism, \* the values of the option `parallelism`
  MaxInputs    \* bound: the number of inputs

ASSUME RunnableAssumption ==
  Parallelism \subseteq Nat /\ MaxInputs \in Nat \ {0}

VARIABLES
  size, width, next, active, pending, completed, overall, child, calls, finished,
  stage,      \* where begin() and end() are
  options,    \* the options that decide what an error does
  inputs,     \* Runnable::inputs; an input is its place in the list
  entries,    \* num_entries
  current,    \* *current_entry
  chain,      \* where each chain of measurements is, with its saved index
  expired,    \* max_runtime has been exceeded
  failure,    \* the error that begin() called back with
  events,     \* history: the events emitted with a given idx
  taken       \* history: the inputs in the order they were measured

parallelVars == <<size, width, next, active, pending, completed, overall, child,
                  calls, finished>>
loopVars == <<inputs, current, chain, events, taken>>
vars == <<parallelVars, loopVars, stage, options, entries, expired, failure>>

Loop == INSTANCE Parallel WITH Sizes <- Parallelism, Widths <- {0}

Chain == 0..(size - 1)
AnyChain == UNION {0..(p - 1) : p \in Parallelism}
Index == 0..(MaxInputs - 1)
Kind == {"start", "measurement", "failed", "submitted", "done"}

Init ==
  /\ Loop!Init
  /\ stage = "begin"
  /\ options \in [ignoreOpenError : BOOLEAN, ignoreWriteError : BOOLEAN]
  /\ inputs = <<>>
  /\ entries = 0
  /\ current = 0
  /\ chain = [c \in AnyChain |-> [at |-> "idle", idx |-> 0]]
  /\ expired = FALSE
  /\ failure = FALSE
  /\ events = [i \in Index |-> <<>>]
  /\ taken = <<>>

-----------------------------------------------------------------------------
(***************************************************************************)
(* begin(), up to the loop.  An error of the bouncer, of the inputs and,   *)
(* unless it is to be ignored, of the report is what begin() calls back    *)
(* with; the lookups of the probe and of its resolver never fail it.       *)
(***************************************************************************)
BeginFails ==
  /\ failure' = TRUE
  /\ stage' = "end"

Proceed(from, to) ==
  /\ stage = from
  /\ stage' = to
  /\ UNCHANGED failure

QueryBouncer ==
  /\ \/ Proceed("begin", "lookup")
     \/ stage = "begin" /\ BeginFails
  /\ UNCHANGED <<parallelVars, loopVars, options, entries, expired>>

Lookup ==
  /\ Proceed("lookup", "open")
  /\ UNCHANGED <<parallelVars, loopVars, options, entries, expired>>

OpenReport ==
  /\ \/ Proceed("open", "inputs")
     \/ stage = "open" /\ ~options.ignoreOpenError /\ BeginFails
  /\ UNCHANGED <<parallelVars, loopVars, options, entries, expired>>

\* process_input_filepaths(): at least one input, or an error, which may
\* come after the inputs were read (the option randomize_input is invalid).
LoadInputs ==
  /\ \/ /\ Proceed("inputs", "loop")
        /\ \E n \in 1..MaxInputs :
             inputs' = [i \in 1..n |-> i] /\ entries' = n
     \/ /\ stage = "inputs" /\ BeginFails
        /\ \E n \in 0..MaxInputs : inputs' = [i \in 1..n |-> i]
        /\ UNCHANGED entries
  /\ UNCHANGED <<parallelVars, current, chain, events, taken, options, expired>>

-----------------------------------------------------------------------------
\* Mutant: the loop ends when one of its chains finds the list empty.
LoopEndsFirst ==
  IF calls' # calls \/ (completed' # completed /\ inputs = <<>>)
    THEN stage' = "end" /\ failure' = overall'
    ELSE UNCHANGED <<stage, failure>>

\* Where mk::parallel() calls back, begin() calls back and the task calls end().
LoopEnds ==
  IF calls' # calls
    THEN stage' = "end" /\ failure' = calls'[1]
    ELSE UNCHANGED <<stage, failure>>

\* With `parallelism` set to zero there is no chain and nothing is measured.
NoChains ==
  /\ stage = "loop"
  /\ Loop!Empty
  /\ LoopEnds
  /\ UNCHANGED <<loopVars, options, entries, expired>>

StartChain ==
  /\ stage = "loop"
  /\ Loop!Iterate
  /\ chain' = [chain EXCEPT ![next].at = "ready"]
  /\ UNCHANGED <<inputs, current, events, taken, stage, options, entries, expired, failure>>

\* The call that started a chain returns when the chain waits for the reactor.
ChainWaits ==
  /\ Loop!Suspend
  /\ chain[active].at # "ready"
  /\ UNCHANGED <<loopVars, stage, options, entries, expired, failure>>

\* The code of chain c may run: within the call that started it, or later.
Turn(c) == stage = "loop" /\ Loop!MayComplete(c)

\* run_next_measurement() is called, by mk::parallel() or by call_soon().
NextMeasurement(c) ==
  /\ Turn(c)
  /\ \/ chain[c].at = "ready"
     \/ chain[c].at = "soon" /\ active = Loop!NoOp

EndsChain(c, error) ==
  /\ chain' = [chain EXCEPT ![c].at = "done"]
  /\ Loop!Complete(c, error)
  /\ LoopEnds

\* Mutant: a chain ends when it takes the last input, without measuring it.
NoMoreMeasurementsEarly == expired \/ Len(inputs) <= 1

NoMoreMeasurements == expired \/ inputs = <<>>

\* Mutant: the chain returns and does not call back.
NothingToMeasureSilent(c) ==
  /\ NextMeasurement(c)
  /\ NoMoreMeasurements
  /\ chain' = [chain EXCEPT ![c].at = "done"]
  /\ UNCHANGED <<parallelVars, inputs, current, events, taken, stage, options,
                 entries, expired, failure>>

NothingToMeasure(c) ==
  /\ NextMeasurement(c)
  /\ NoMoreMeasurements
  /\ EndsChain(c, FALSE)
  /\ UNCHANGED <<inputs, current, events, taken, options, entries, expired>>

Saw(idx, kinds) == events' = [events EXCEPT ![idx] = @ \o kinds]

\* Mutant: the index is taken from the shared counter when the entry is ready.
SharedIndex(c) == current - 1

SavedIndex(c) == chain[c].idx

\* main() is called, and its callback comes later or at once.
Measure(c) ==
  /\ NextMeasurement(c)
  /\ ~NoMoreMeasurements
  /\ inputs' = Tail(inputs)
  /\ taken' = Append(taken, Head(inputs))
  /\ current' = current + 1
  /\ chain' = [chain EXCEPT ![c] = [at |-> "main", idx |-> current]]
  /\ Saw(current, <<"start">>)
  /\ UNCHANGED <<parallelVars, stage, options, entries, expired, failure>>

\* The callback of main(): the entry is filled, emitted and submitted.
MeasurementDone(c) ==
  /\ Turn(c)
  /\ chain[c].at = "main"
  /\ chain' = [chain EXCEPT ![c].at = "write"]
  /\ Saw(SavedIndex(c), <<"measurement">>)
  /\ UNCHANGED <<parallelVars, inputs, current, taken, stage, options, entries,
                 expired, failure>>

(***************************************************************************)
(* The callback of report.write_entry().  An error ends the chain, and     *)
(* only this chain, when it is not to be ignored.                          *)
(***************************************************************************)
EntryWritten(c) ==
  /\ Turn(c)
  /\ chain[c].at = "write"
  /\ \E error \in BOOLEAN :
       IF error /\ ~options.ignoreWriteError
         THEN /\ Saw(SavedIndex(c), <<"failed">>)
              /\ EndsChain(c, TRUE)
         ELSE /\ Saw(SavedIndex(c), <<IF error THEN "failed" ELSE "submitted", "done">>)
              /\ chain' = [chain EXCEPT ![c].at = "soon"]
              /\ UNCHANGED <<parallelVars, stage, failure>>
  /\ UNCHANGED <<inputs, current, taken, options, entries, expired>>

\* The clock: max_runtime, when there is one, may be over at any time.
Expire ==
  /\ ~expired
  /\ expired' = TRUE
  /\ UNCHANGED <<parallelVars, loopVars, stage, options, entries, failure>>

-----------------------------------------------------------------------------
\* end(): the report is closed, whatever begin() called back with.
End ==
  /\ Proceed("end", "closing")
  /\ UNCHANGED <<parallelVars, loopVars, options, entries, expired>>

ReportClosed ==
  /\ Proceed("closing", "ended")
  /\ UNCHANGED <<parallelVars, loopVars, options, entries, expired>>

ChainStep(c) ==
  NothingToMeasure(c) \/ Measure(c) \/ MeasurementDone(c) \/ EntryWritten(c)

Progress ==
  \/ QueryBouncer \/ Lookup \/ OpenReport \/ LoadInputs
  \/ NoChains \/ StartChain \/ ChainWaits
  \/ End \/ ReportClosed

Next == Progress \/ Expire \/ \E c \in Chain : ChainStep(c)

Spec == Init /\ [][Next]_vars

(***************************************************************************)
(* The reactor runs the callbacks, and each operation, a measurement or a  *)
(* request, calls back in the end, by its timeouts if need be.             *)
(***************************************************************************)
FairSpec ==
  /\ Spec
  /\ WF_vars(Progress)
  /\ \A c \in AnyChain : WF_vars(c \in Chain /\ ChainStep(c))

-----------------------------------------------------------------------------
(***************************************************************************)
(* Each input is measured once, in the order of the list, and the idx of   *)
(* its events is its place in the list, although the chains share the list *)
(* and the counter and their callbacks come in any order: all the events   *)
(* of an idx are of one measurement, in the order of the documentation     *)
(* (include/measurement_kit/README.md:613-656).                            *)
(***************************************************************************)
Lives == {<<"start", "measurement", "submitted", "done">>,
          IF options.ignoreWriteError
            THEN <<"start", "measurement", "failed", "done">>
            ELSE <<"start", "measurement", "failed">>}

EventsOfOneMeasurement ==
  /\ LET all == taken \o inputs IN all = [i \in 1..Len(all) |-> i]
  /\ Len(taken) = current
  /\ \A i \in Index :
       IF i < current
         THEN events[i] # <<>> /\ \E l \in Lives : IsPrefix(events[i], l)
         ELSE events[i] = <<>>

(***************************************************************************)
(* The report is closed, and status.end follows, only when every           *)
(* measurement that was started has been submitted or has failed: no       *)
(* callback comes to a chain after end().                                  *)
(***************************************************************************)
QuietAtEnd ==
  stage \in {"end", "closing", "ended"} =>
    /\ \A c \in Chain : chain[c].at \in {"idle", "done"}
    /\ \A i \in 0..(current - 1) : events[i] \in Lives

(***************************************************************************)
(* The loop leaves inputs over only when the time was over, when no chain  *)
(* was asked for, or when all the chains failed; a chain that fails leaves *)
(* its share of the inputs to the others.                                  *)
(***************************************************************************)
InputsExhausted ==
  calls # <<>> /\ inputs # <<>> =>
    expired \/ size = 0 \/ Loop!Failed = Chain

(***************************************************************************)
(* begin() and end() come to their end, and with them the reactor.         *)
(***************************************************************************)
RunnableEnds == <>(stage = "ended")
=============================================================================
