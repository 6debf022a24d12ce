------------------------- MODULE MCAuthentication -------------------------
(***************************************************************************)
(* Two concurrent checks over two kids and both issuers, every set of      *)
(* configured verifiers.  One rotation between the two fetches makes an    *)
(* older answer differ from a newer one, and an older one can be stored    *)
(* last.  r1 is a tool call, r2 another request.                           *)
(***************************************************************************)
EXTENDS Authentication
=============================================================================
