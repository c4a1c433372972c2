------------------------------- MODULE MCHttp -------------------------------
(***************************************************************************)
(* Http with at most two addresses of each family, two redirects and       *)
(* responses in at most three pieces: an address may follow one that       *)
(* failed, a chain may have a first, a middle and a last response, and a   *)
(* response may come with its headers, its body and its end apart.         *)
(***************************************************************************)
EXTENDS Http
=============================================================================
