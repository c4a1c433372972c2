------------------------------ MODULE MCReactor -----------------------------
(***************************************************************************)
(* The event loop with two immediate callbacks, one I/O callback, two      *)
(* background calls on at most two threads, and two calls of stop().       *)
(***************************************************************************)
EXTENDS Reactor
=============================================================================
