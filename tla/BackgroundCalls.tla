--------------------------- MODULE BackgroundCalls --------------------------
(***************************************************************************)
(* What Reactor::call_in_thread() promises (common/reactor.hpp), without   *)
(* threads: callbacks wait in a line, at most Limit run at a time, they    *)
(* start in the order of submission, each runs once and, if callbacks      *)
(* return, all of them are eventually run.                                 *)
(***************************************************************************)
EXTENDS Naturals, Sequences, FiniteSets

CONSTANTS Call, Limit

VARIABLES
  line,      \* the callbacks that wait for a thread
  running,   \* the callbacks some thread is running
  done       \* the callbacks that returned

vars == <<line, running, done>>

Waiting == {line[i] : i \in 1..Len(line)}

Init == line = <<>> /\ running = {} /\ done = {}

Submit(c) ==
  /\ c \notin Waiting \union running \union done
  /\ line' = Append(line, c)
  /\ UNCHANGED <<running, done>>

Start ==
  /\ line # <<>>
  /\ Cardinality(running) < Limit
  /\ running' = running \union {Head(line)}
  /\ line' = Tail(line)
  /\ UNCHANGED done

Finish(c) ==
  /\ c \in running
  /\ running' = running \ {c}
  /\ done' = done \union {c}
  /\ UNCHANGED line

Next == Start \/ \E c \in Call : Submit(c) \/ Finish(c)

Spec == Init /\ [][Next]_vars

FairSpec == Spec /\ WF_vars(Start) /\ \A c \in Call : WF_vars(Finish(c))
=============================================================================
