--------------------------- MODULE MCApprovalGate ---------------------------
(***************************************************************************)
(* Two concurrent calls drawing from two externalIds: both the colliding   *)
(* and the distinct draw happen.  No bound cuts the run: a call polls any  *)
(* number of times over the same states.                                   *)
(***************************************************************************)
EXTENDS ApprovalGate
=============================================================================
