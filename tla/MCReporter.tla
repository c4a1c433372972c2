----------------------------- MODULE MCReporter -----------------------------
(***************************************************************************)
(* Reporter with two writers and three entries; any call that failed is    *)
(* made again once.                                                        *)
(***************************************************************************)
EXTENDS Reporter
=============================================================================
