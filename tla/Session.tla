------------------------------- MODULE Session -------------------------------
(***************************************************************************)
(* What a client of the library promises to the code that starts it.  It   *)
(* calls back once.  The connections that it still holds then are adrift:  *)
(* it let go of them, because it closes them and nothing waits for that,   *)
(* or because it forgot them.  After the callback it makes no connection,  *)
(* but for the operations that its callback does not wait for, if it has   *)
(* such.  The caller may then start it again.                              *)
(***************************************************************************)
EXTENDS Naturals

VARIABLES
  open,   \* how many connections the client holds, those adrift included
  adrift, \* how many of them it let go of
  late,   \* how many operations its callback does not wait for
  calls   \* how many times it called back since it was started

vars == <<open, adrift, late, calls>>

Init == open = 0 /\ adrift = 0 /\ late \in Nat /\ calls = 0

\* Each of the late operations has one connection at most.
Settled == open' \in adrift'..(adrift' + late)

Work ==
  /\ calls = 0 /\ open' \in Nat /\ adrift' \in 0..open'
  /\ UNCHANGED <<calls, late>>

CallBack ==
  /\ calls = 0 /\ calls' = 1
  /\ adrift' \in Nat /\ Settled
  /\ UNCHANGED late

\* What is adrift may go, and what is late may connect and close.
Fade ==
  /\ calls = 1 /\ adrift' \in 0..adrift /\ Settled
  /\ UNCHANGED <<calls, late>>

Again == calls = 1 /\ calls' = 0 /\ UNCHANGED <<open, adrift, late>>

Next == Work \/ CallBack \/ Fade \/ Again

Spec == Init /\ [][Next]_vars
==============================================================================
