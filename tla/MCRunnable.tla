----------------------------- MODULE MCRunnable -----------------------------
(***************************************************************************)
(* None to three chains and up to four inputs: fewer, as many and more     *)
(* inputs than chains.                                                     *)
(***************************************************************************)
EXTENDS Runnable
=============================================================================
