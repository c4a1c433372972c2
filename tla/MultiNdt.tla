------------------------------- MODULE MultiNdt -------------------------------
(***************************************************************************)
(* The multi_ndt test (nettests/multi_ndt.cpp): a single-stream download   *)
(* and then, whatever became of it, a multi-stream one, and the choice of  *)
(* the faster of the two from what the two left in their entries           *)
(* (ndt/utils.cpp).                                                        *)
(***************************************************************************)
EXTENDS Integers

CONSTANT SampleCounts \* the numbers of speed samples a download may have

VARIABLES
  pc,       \* the test that runs
  open,     \* connections held: none, each test closes its own
  calls,    \* how many times cb was called
  failure,  \* overall_entry["failure"]
  single,   \* what the single-stream test left
  multi,    \* what the multi-stream test left
  selected  \* entry["simple"]["fastest_test"]

vars == <<pc, open, calls, failure, single, multi, selected>>

\* No speed can be computed.
Null == -1

\* A speed is known from nine samples on: the six slowest and the two fastest
\* ones are dropped, and a range that ends before its begin throws.
\* The number of samples stands for their mean.
compute_speed(samples) == IF samples > 8 THEN samples ELSE Null

\* What a test left: its error, whether it has an entry in test_s2c, and the
\* samples of that entry.  There are connect times whenever there is an entry.
Nothing == [err |-> FALSE, pushed |-> FALSE, samples |-> 0]
Outcomes ==
  [err : BOOLEAN, pushed : {TRUE}, samples : SampleCounts]
    \cup [err : BOOLEAN, pushed : {FALSE}, samples : {0}]

compute_simple_stats(run) ==
  [ping |-> run.pushed,
   download |-> IF run.pushed THEN compute_speed(run.samples) ELSE Null]

\* Mutant: the numbers are compared before they are known to be there.
SelectEager(one, many) ==
  CASE one.ping /\ many.ping ->
         IF one.download # Null /\ many.download # Null
           THEN IF one.download > many.download THEN "single" ELSE "multi"
           ELSE "multi"
    [] one.ping /\ ~many.ping -> "single"
    [] ~one.ping /\ many.ping -> "multi"
    [] OTHER -> "null"

\* write_simple_stats(): "null" when it selects none of the two.
Select(one, many) ==
  CASE one.ping /\ many.ping ->
         (CASE one.download # Null /\ many.download # Null ->
                 IF one.download > many.download THEN "single" ELSE "multi"
            [] one.download # Null /\ many.download = Null -> "single"
            [] one.download = Null /\ many.download # Null -> "multi"
            [] OTHER -> "null")
    [] one.ping /\ ~many.ping -> "single"
    [] ~one.ping /\ many.ping -> "multi"
    [] OTHER -> "null"

Init ==
  /\ pc = "start" /\ open = 0 /\ calls = 0 /\ failure = "none"
  /\ single = Nothing /\ multi = Nothing /\ selected = "null"

RunSingle ==
  /\ pc = "start" /\ pc' = "single"
  /\ UNCHANGED <<open, calls, failure, single, multi, selected>>

\* The error of the first test does not keep the second one from running.
RunMulti ==
  /\ pc = "single" /\ pc' = "multi"
  /\ single' \in Outcomes
  /\ UNCHANGED <<open, calls, failure, multi, selected>>

Complete ==
  /\ pc = "multi" /\ pc' = "done"
  /\ multi' \in Outcomes
  /\ failure' = IF single.err \/ multi'.err THEN "sequential" ELSE "none"
  /\ selected' = Select(compute_simple_stats(single), compute_simple_stats(multi'))
  /\ calls' = calls + 1
  /\ UNCHANGED <<open, single>>

Next == RunSingle \/ RunMulti \/ Complete

Spec == Init /\ [][Next]_vars

-----------------------------------------------------------------------------
Runs == [single |-> single, multi |-> multi]

TypeOK ==
  /\ open = 0 /\ calls \in 0..1 /\ selected \in {"single", "multi", "null"}
  /\ \A r \in {"single", "multi"} : Runs[r] \in Outcomes

\* The test that is shown to the user is the faster one of those that measured
\* a speed: it never hides a measured speed behind a test that measured none.
FastestSelected ==
  LET Measured(r) == Runs[r].samples > 8
  IN  pc = "done" =>
        \A r \in {"single", "multi"} : Measured(r) =>
          /\ selected # "null" /\ Measured(selected)
          /\ Runs[selected].samples >= Runs[r].samples
===============================================================================
