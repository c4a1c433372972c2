------------------------------ MODULE MCWorker ------------------------------
(***************************************************************************)
(* Worker on four calls, four thread slots and a limit that moves between   *)
(* two and three: calls outnumber the threads, so that queueing, spawning, *)
(* draining and exiting all overlap.                                       *)
(***************************************************************************)
EXTENDS Worker
=============================================================================
