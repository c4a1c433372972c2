---------------------------- MODULE MCTransport -----------------------------
(***************************************************************************)
(* Up to four operations, with reads longer and shorter than what the peer *)
(* sends before it closes.                                                 *)
(***************************************************************************)
EXTENDS Transport
=============================================================================
