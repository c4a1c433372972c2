------------------------------ MODULE MCEngine ------------------------------
(***************************************************************************)
(* MCEngine.cfg: two tasks that compete for the semaphore, each with its   *)
(* controller; one of them warns, measures, disables events and may be     *)
(* interrupted or left, and its controller may wake up for no reason.      *)
(* MCEngineLost.cfg and MCEngineFailure.cfg: the smallest tasks on which   *)
(* WaitReturns and EndReportsFailure are found to fail.                    *)
(***************************************************************************)
EXTENDS Engine
=============================================================================
